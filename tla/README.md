# A verification development for highload-service

highload-service is a smart-parking back end: IoT readings of free spots, an
ASP.NET API that answers where there is room and books spots, PostgreSQL in
shards behind it, Redis in front of it, InfluxDB beside it. This directory holds
TLA+ modules that model it, TLC runs that check them on small instances, and
proofs, checked by TLAPS, for instances of every size.

`PROJECT.json` relates every definition to the source lines it models and lists
the runs, the hazards and the theorems. Paths below are relative to `src/`.

## The system

    data_simulator --MQTT--> iot_controller --MQTT--> rule_engine --> InfluxDB
                                   |
                                   +--> InfluxDB <-- status, health -- API (x3)
                                                                       |  |
    vehicle_simulator --HTTP--> nginx ------------------------------>  |  +-- Redis
                                                                       |
                                          spots shard, bookings shard -+

| Component | State it keeps | Operations | What makes it correct |
|---|---|---|---|
| Booking core: `PostgresService` write operations, `ApiController` write endpoints | `bookings` in one shard (with its sequence), `parking_spots.status` in another; nothing in the API itself | book, book all, delete, update, delete all; creation of the table on demand | no spot booked twice; an acknowledged id stays the client's; the shards agree; a check never destroys; every request is answered |
| Booking reads | none | active bookings, booking by id, spot details (both shards), available spots, history, route | an answer describes a state that existed |
| Status endpoint and `RedisCacheService` | Redis keys with expiry | get or create, remove | an answer is no staler than promised; one client sees what another does |
| `InfluxDbService`, `HealthController`, metrics middleware | points in InfluxDB | query with one retry, metrics, health | a recovered service is reported healthy |
| Start-up (`Program.cs`, initialisation, seeding) | the spots shard's rows | create tables, seed 150 lots | inventory complete, bookings not undone, with three instances starting at once |
| `iot_controller.py` | none | validate, republish, store | rules and stored readings agree on what was received |
| `rule_engine.py` | a window of readings per device | instant rule, ten-packet rule | an alert means ten readings in a row |
| `data_simulator.py` | occupancy per lot | update, publish | free + occupied = capacity, in bounds |
| `vehicle_simulator.py` | active bookings per vehicle | book, release later, in threads | every booking is released |
| `postgresql/init-replica.sh` | data directory, `standby.signal` | bootstrap a replica | a crash leaves a replica that can start over |
| nginx, pgbouncer, mosquitto, Redis and Prometheus configuration, load tests | - | - | deployment: read for instance counts, retries and QoS |
| `monitoring/grafana/data/plugins` | - | - | minified third-party JavaScript, not part of the system's logic |

How they interact. API instances share no memory: they meet in the two shards
and in Redis. A booking is *two* statements on *two* databases with no
transaction over both. Every endpoint is asynchronous: what it read before one
`await` may be out of date after it. The IoT path is MQTT at QoS 0, so a message
may be lost; the rule engine's window lives in memory, so a restart forgets it.

The hard behaviours, in the order of what they can cost:

1. check-then-insert on one spot by concurrent requests, on several instances;
2. `DROP TABLE IF EXISTS bookings`, decided from a SELECT another request has
   made obsolete (a cold start has no bookings table: the one in
   `InitializeBookingsShardAsync` is not valid SQL, and its exception is logged
   and dropped);
3. status writes on the spots shard that arrive in another order than the rows
   they belong to were written;
4. re-activation of a cancelled booking by PUT;
5. exceptions half way: in one spot of a bulk booking, between the shards;
6. cache fills that race with invalidation;
7. seeding by three instances, or cut short;
8. the rule engine's window under failed writes;
9. subscriptions lost with a connection, readings forwarded before they are stored;
10. one cached answer served to several queries;
11. release threads that act on ids and routes of another program.

## Modules

| Module | What it is |
|---|---|
| `Ledger` | what the booking service promises: a spot has at most one holder, a number is issued once and names one spot. No shards, no requests. |
| `Booking` | the booking core as written: one action per awaited statement |
| `BookingRequirements` | properties of `Booking`; the refinement mapping to `Ledger` |
| `SpotDetails` | composes `Booking` with GETs that read one shard after the other |
| `StatusCache` | the status endpoint over Redis, InfluxDB and PostgreSQL |
| `Seeding` | start-up of the API's instances over one spots shard, with clients beside |
| `DataSimulator` | the occupancy of each lot and its `update()` |
| `RuleEngine` | the two rules over a window per device: the specification the path refines |
| `Telemetry` | composes `DataSimulator`, the controller, the broker's topics and `RuleEngine` |
| `Vehicles` | the vehicle simulator's loops and release threads against the API's routes |
| `MCBooking`, `MCDetails`, `MCStatus`, `MCSeeding`, `MCTelemetry` | values and symmetry sets for TLC |
| `BookingProofs`, `BookingRefinement`, `TakingProofs`, `AckProofs` | proofs about the booking core and its reader |
| `StatusProofs`, `SeedingProofs`, `RuleEngineProofs`, `TelemetryProofs` | proofs about the others |

### Booking

State: `tableExists`, `bookings` (id to row) and `nextId` are the bookings
shard; `status` is the spots shard; `req[r]` is one HTTP request: where it stands
(`pc`, named for the statement it is about to execute) and its locals. A spot is
a (parking_id, spot_number) pair; `Inventory` holds those with a row in
`parking_spots`, since the API books pairs outside it too and only logs a
warning.

| Code | Actions |
|---|---|
| `EnsureBookingsTableExistsAsync` | `EnsureCheck`, `EnsureReplace`, `EnsureNothingToDrop`, `EnsureCreate`, `EnsureCreateFails` |
| `BookSpot`, `BookSpotAsync` | `StartBook`, `ControllerCheck`, `ServiceCheck`, `InsertRow`, `InsertFails`, `Mark`, `Invalidate` |
| `BookAllSpots`, `BookAllAvailableSpotsAsync` | `StartBookAll`, `Scan`, `LoopNext`, the actions of `BookSpotAsync`, `LoopEnd` |
| `DeleteBooking`, `DeleteBookingAsync` | `StartDelete`, `Find`, `FindNone`, `Deactivate`, `RowGone`, `Mark` |
| `UpdateBooking`, `UpdateBookingAsync` | `StartUpdate`, `Find`, `Modify`, `ModifyFails`, `RowGone`, `Mark` |
| `DeleteAllBookings`, `ClearAllBookingsAsync` | `StartClear`, `List`, `ListFails`, `Wipe`, `LoopNext`, `Mark`, `LoopEnd` |
| argument checks | `Reject` |
| an awaited call throws; an instance stops | `CallFails`, `Crash` |

Decisions worth knowing:

* **One statement, one step.** Shards run at READ COMMITTED and every statement
  is its own transaction, except those of `EnsureBookingsTableExistsAsync`. There,
  a `DROP` that finds a table holds its lock to the commit, so drop and create are
  one step; a `DROP` that finds none locks nothing, so another request can create
  the table before this one does, whose `CREATE` then fails on the name.
* **The table is checked once per operation in the model**, while the code checks
  before each statement. From the first check on a table is there and is only
  replaced atomically, so later checks find it; `EnsuredTableStays`, checked
  and proved, is what this rests on. The check reads only the catalog.
* The column check never fails, as a table in this shard was made by this code
  or by the bundled scripts, with the same columns.
* **The unique index** is a guard of `InsertRow` and `Modify`; a violated one is
  an exception that has still used up a value of the sequence.
* A bulk booking catches exceptions per spot (`Throw` leads back to the loop); a
  failure of its scan, or of any other operation, is a 500.
* A PUT names any id from 1 to one past those issued; so does a DELETE.
* The bulk delete's list of bookings is the set of their spots, which is the same
  as each spot is on it at most once.
* `Invalidate` stands for the two `RemoveAsync` calls. What is in Redis is not
  part of this module.

### SpotDetails

`view[g]` is one GET of a spot's details: which of its two reads comes next and
what it has read. `ReadStatus`, `NoSuchSpot`, `ReadHistory` and `ReadFails` are
the two SELECTs of `GetParkingSpotDetailsAsync` and their early return and
exception; they take steps between those of the requests of `Booking` and change
nothing of theirs. `seeded` is history: a seeded "occupied" has no booking to
explain it. Rows are taken newest first by id, as `booking_time` is the time of
the INSERT.

### StatusCache

State: `cache` and `location` are Redis, `known` is `parking_lots`, `heard` is what
`iot_bucket` can tell of each lot (a reading within the hour, within the day, or
neither), `req[r]` is a request of the status endpoint.

| Code | Actions |
|---|---|
| `GetOrCreateAsync`, `GetAsync` | `GetHit`, `GetMiss` |
| `InfluxDbService.QueryAsync`, for either range | `Query`, `QueryBadGateway`, `QueryRetryFails` |
| the loop over records, location by location | `LocationHit`, `LocationMiss`, `LocationStored`, `LocationUnknown` |
| no data: `GetParkingLotsAsync` | `Estimate` |
| filter, `SetAsync`, answer | `Set` |
| the catch of `GetParkingStatus` | `CallFails` |
| `RemoveAsync` of the booking endpoints | `Invalidate` |
| readings, expiry | `Reading`, `Silence`, `Tick` |

* **Get, factory and set are separate calls**, so several requests fill one key and
  the slowest stores last; a removal may fall between a fill's query and its
  store, and is then without effect.
* A list is abstracted to its source, its filter and where it puts each lot; the
  number of free spots is data. `age` is history: ticks since InfluxDB was asked.
  What it measures is how old an answer can be.
* A tuple is stored as `{}` and read back as (0, 0) (`LocationHit`), since
  `JsonSerializer` leaves a tuple's fields out by default. No lot is near the
  origin, so a filtered list leaves such a lot out.
* A request may be closed by its answer and opened again with another query, so
  `Reqs` bounds concurrency and not the length of a behaviour.
* `Fill` bounds the time from InfluxDB's answer to the stored status. The code sets
  no such bound; each awaited call has a client's time-out.

### Seeding

State: `capacity`, `spots` and `occupied` are the rows of the spots shard; `held` and
`past` the bookings shard as far as it matters here, the spots with an active and
with an inactive row; `owed` the status writes that requests have still to make;
`at[i]` where the start-up of instance `i` stands, with the variables of its loops.

| Code | Actions |
|---|---|
| an instance is started, and its first request constructs `PostgresService` | `Construct` |
| `InitializeParkingSpotsShardAsync` | `Count` |
| `SeedParkingDataAsync`: a lot, a spot | `SeedLot`, `SeedSpot` |
| exceptions; `EnsureDatabasesExistAsync` drops them | `StatementFails` |
| the instance stops | `Crash` |
| `BookSpotAsync`, `DeleteBookingAsync` up to the write of the row | `BookSpot`, `DeleteBooking`, `DeleteInactive` |
| their status write, or its failure | `WriteStatus`, `StatusNotWritten` |

Each INSERT is a statement of its own: nothing in the loops is a transaction.
Every upsert draws anew, a capacity for the lot and a status for the spot. A booking
or a deletion is its two statements, as in `Booking`, so a deletion's late
"available" can land on a new booking here too; seeding statements fall between
them. PUT, the bulk operations and the table made on demand are in `Booking` only.
`cut` and `seeders` are history.

### DataSimulator, RuleEngine, Telemetry

`DataSimulator` has `update()`: its trend, factors and noise are floating-point, so the
model takes any integer the truncated products can be; damping, bounds and the
difference are exact.

`RuleEngine` is `on_message` of `rule_engine.py`. A reading is what the rules ask of it:
above the threshold ("high") or not. Both alert writes are synchronous and may
throw, and the one `except` is around the whole handler, so:

| Code | Actions |
|---|---|
| a reading that is low: append, rule, pop | `ReceiveLow` |
| one that is high, up to the instant alert's write | `ReceiveHigh` |
| that write returns (append, rule) or throws (neither) | `InstantWritten`, `InstantFails` |
| the lasting alert's write returns (pop) or throws (no pop) | `LastingWritten`, `LastingFails` |
| a new process | `EngineRestart` |

Its history (`streak`, `run`, `stuck`, `due`) counts what was received, what was kept
and which alerts failed; no action reads it.

`Telemetry` puts it in the path. `iotTopic` and `ruleTopic` hold messages on their way,
`inHand` is the message the controller has forwarded and not stored, `link` the
connection of each subscriber. `Cycle` and `Publish` are the simulator's loop,
`Forward`, `Store` and `StoreFails` the controller's handler, `Receive`, `Write` and
`WriteFails` drive the engine's actions, `Disconnect`, `Reconnect` and `OnConnect` are the
callbacks of both clients, and processes stop and start.

* QoS 0 and a clean session: what is under way to a subscriber whose connection
  breaks is lost, and until `on_connect` has subscribed again so is what is
  published. Within a topic the order is kept.
* A client's callbacks run in one thread, so a broken connection is noticed when
  the handler at work has returned.
* The simulator's connection does not break; a lost publication would have the
  effect of one dropped for the controller.

### Vehicles

`loop[v]` is where a vehicle's loop stands, `active[v]` its `active_bookings`, `thread[n]` the
release thread of booking `n`. `Poll`, `Book`, `BookRefused`, `BookAnswerLost`, `StartRelease`
and `RouteFails` are the loop; `Acquire`, `Wake`, `DeleteDone` and `DeleteFails` the thread,
`Inside` the holders of the semaphore. The API is what the simulator meets of it:
numbered bookings, one live for a spot, and its routes. `IdRead`, `Asked` and `Route` are the
names both sides use: the key read from the answer, the path asked for, the
path there is.

## Runs

| Run | Instance | Checks |
|---|---|---|
| `warm` | table exists, all operations, exceptions and crashes; 3 requests, 2 vehicles, 2 spots of which 1 in inventory | `TypeOK`, `NoDoubleBooking`, `AckedBookingStands`, `ImplementsLedger`, `RequestsAdvance` |
| `reactivate` | table exists; 4 requests, 2 vehicles, 1 spot; book, delete, update | `NoDoubleBooking`, `ImplementsLedger` |
| `cold` | no table; 3 requests, 1 spot; book, book all, delete, delete all; fairness | `NoDoubleBooking`, `EnsuredTableStays`, `EveryRequestAnswered` |
| `booking_only` | table exists; 3 requests and a GET, 3 spots of which 2 in inventory; book, book all; no faults | `BookedIsMarked`, `BookAllCovers`, `BookingsAreAccountedFor`, `DetailsExplainStatus` |
| `telemetry` | 1 lot of 23 spots, windows of 2 readings, 2 messages in a topic, 2 failures; fairness | `LastingAlertSound`, `LastingAlertExact`, `WindowBounded`, `NoReadingRejected`, `DrainedViewsAgree`, `LastingAlertRecurs` |
| `status` | 2 requests, 1 lot, 2 areas that round to one key; lifetimes of 1 tick; fairness | `AnswerFresh`, `AnswerFitsQuery`, `EstimatesEnd` |
| `seeding` | 2 instances, 2 lots of 1 or 2 spots, 1 spot that is booked, 2 bookings or deletions under way; fairness | `InventoryComplete`, `OnlyARaceResetsMarks`, `StartupEnds` |
| `lost_bookings` | no table; 3 requests to book | refutes `EnsureKeepsBookings` |
| `double_delete` | table exists; book and delete | refutes `DeletedWasActive` |
| `shards_diverge` | table exists; book and delete | refutes `AtRestBookedIsOccupied` |
| `coordinates` | 2 requests, 2 lots; locations live 2 ticks | refutes `LocationsAreOwn` |
| `vehicles` | 2 vehicles, 2 spots, 1 permit, 3 bookings, no faults; fairness | refutes `StartedReleasesFree` |

Why these bounds are enough to meet the cases.

* Booking. `Reqs` are requests in a lifetime of the tables, each made once: the
  only bound, as ids and counts are bounded by it. The race for a spot takes two
  requests; the third, in `warm`, deletes, updates or clears what they made.
  Re-activation against a new booking takes four: book, cancel, book, PUT.
  Table creation needs two to race and one to be past its check. A spot outside
  the inventory tells a status that is written from one that has no row. One GET
  suffices, as readers do not meet. Clients, and spots with a row, are
  interchangeable, hence the symmetry sets; runs with liveness use none.
* `telemetry`. 23 is the least capacity whose noise can carry the occupancy past it.
  Windows of 2 are the least that can be too short, full and too long; two
  failures let one leave a window out of step and another meet it there.
  Two messages in a topic are the least that can be out of order. `TopicBound`
  (messages in a topic) and `MaxFaults` are the bounds.
* `status`. Two requests race a fill against a fill, a hit or a removal. With a
  lifetime of one tick every order of expiry and fill occurs.
* `seeding`. Two instances race, and either may stop and come back to find rows.
  Capacities that differ between draws, and a second lot, let one instance be
  ahead of another in every way. Two requests let a deletion's status write meet
  the next booking of its spot.

The proofs cover the real sizes: windows of 10, 150 lots, any lifetimes, any
number of instances and requests.

Fairness, and why the code justifies it.

* `Booking`: weak fairness of each request's own step once it has begun: every
  statement returns or throws (Npgsql's command time-out), and no request holds a
  lock beyond its statement or its transaction. Requests are never obliged to
  arrive. A table that comes and goes cannot trap a request, and each loop consumes
  its list: `RequestsAdvance`, which needs no fairness, says so of every step.
* `Telemetry`: the simulator's loop catches every exception, handlers return as
  the InfluxDB client times out, `on_disconnect` tries until it succeeds. Nothing
  starts a stopped process: no restart policy is in force for it, so
  `LastingAlertRecurs` assumes that somebody does.
* `StatusCache`: every awaited call returns or throws, and time passes.
* `Seeding`: the statements of a start-up that has begun return or throw. Nothing is
  assumed of an instance that is down: `docker-compose.scale.yml` has a restart policy
  for `api-2` and `api-3` but none for `api`, nor has `docker-compose.yml`, and a started
  instance constructs the service only for a first request. `StartupEnds` is about
  start-ups under way, and excuses an instance that stops.
* `Vehicles`: loops and threads go on; strong fairness of a thread, as those that
  wait for the semaphore are woken in turn.

What the refuted properties show:

* `lost_bookings`: two requests see no table. One creates it, inserts, marks the
  spot and answers 200. The other's `DROP TABLE IF EXISTS` now finds that table and
  drops it, with the booking. The comment at `PostgresService.cs:320` has the
  transaction there "for the atomicity of the operations".
* `double_delete`: `UPDATE ... WHERE id` matches an inactive row too, so the
  second deletion succeeds although `ApiController.cs:392` has a message for
  "already inactive".
* `shards_diverge`: delete's row update, then a whole booking of the same spot,
  then delete's status write. The spot is booked and stays "available"; a bulk
  booking will keep trying it.
* `coordinates`: the first answer about a lot has its coordinates from PostgreSQL;
  the next one, within 30 minutes, has (0, 0) from Redis. With a radius, the lot
  is then missing. `ApiController.cs:87` says the location is cached there.
* `vehicles`: the answer calls the id `bookingId`, the simulator reads `booking_id`
  and gets "unknown"; it then asks for `DELETE /parking/unknown`, which is no route.
  The thread whose start `vehicle_simulator.py:166` calls the release ends, and the
  booking stays.

What the passing properties say that may surprise. `AnswerFresh` allows an answer as
old as a lifetime *and* a fill: a removal after a booking does not prevent an older
fill from being stored, and removes no key with coordinates. `InventoryComplete` speaks
of seedings that were not cut short: one that was leaves its lots missing for good,
as the next count is not zero. `OnlyARaceResetsMarks` is about steps of a
seeding, and is not "never": two instances that both find the table empty do undo
marks of bookings made in between. What a deletion's late status write takes off is
the subject of `shards_diverge`. `AckedBookingStands` excuses a missing row by a bulk
delete, of everybody's bookings, that was not refused.
`LastingAlertSound` is one-sided: a reading whose instant alert cannot be written is
left out of the window, so an alert can come late, but not wrongly.

## Proofs

All proofs hold for any (also infinite, but where the table says finite) sets of
requests, vehicles, spots, lots, instances, areas and devices. They assume only what
the `ASSUME`s of the modules say of the constants, and what a theorem names:
`TableAtStart`; `Taking`, that only the two booking endpoints are in use and the table
exists; `~Faults`. Every invariant and every action property of the passing runs is
stated by a theorem.

`NoBookingIsLost` and `AtRestShardsAgree` mark where two of the findings end: the
claim of the code that `lost_bookings` refutes is true of every deployment whose table
exists and whose clients do not use the bulk delete, and the claim `shards_diverge`
refutes is true as long as clients only book: nobody deletes a booking, updates one
by PUT or deletes them all, and nothing fails.

| Theorem | States |
|---|---|
| `TypeCorrect`, `NeverDoubleBooked`, `TableStaysEnsured` | `Spec =>` always `TypeOK`, `NoDoubleBooking`, `EnsuredTableStays` |
| `HandlersAdvance`, `ProgressEnds` | `Spec => RequestsAdvance`; with finitely many spots no request can advance for ever |
| `RefinesLedger` | `TableAtStart => (Spec => ImplementsLedger)` |
| `LedgerKeepsPromises`, `BookingKeepsPromises` | `Ledger`'s `Spec => Promises`, hence `Booking`'s, if `TableAtStart` |
| `AckedBookingsStand` | `TableAtStart => (Spec => []AckedBookingStands)` |
| `NoBookingIsLost` | `TableAtStart`, no bulk delete in use, faults or not: `RowsKept` (no step takes a row away), hence `EnsureKeepsBookings` |
| `BookedSpotsAreMarked`, `BulkBookingCovers` | `Taking`, no faults: `BookedIsMarked`, `BookAllCovers` |
| `AtRestShardsAgree` | `Taking`, no faults: `AtRestBookedIsOccupied` |
| `BookingsAccountedFor` | `Taking`, no faults, finitely many requests: `BookingsAreAccountedFor` |
| `DetailsAreExplained` | `Taking`, faults or not: `DetailsExplainStatus` |
| `StatusTypeCorrect`, `AnswersAreFresh`, `AnswersFitQueries` | `StatusSpec =>` always `StatusTypeOK`, `AnswerFresh`, `AnswerFitsQuery` |
| `SeedingTypeCorrect`, `InventoryIsComplete`, `MarksAreResetByRaces` | `SeedingSpec =>` `SeedingTypeOK`, `InventoryComplete`, `OnlyARaceResetsMarks` |
| `EngineTypeCorrect`, `AlertsAreSound`, `AlertsAreExact`, `WindowsAreBounded` | `EngineSpec =>` always `EngineTypeOK` and the three rules' properties |
| `CountsAlwaysConsistent`, `ReadingsAreValid` | `TelemetrySpec =>` always `CountsConsistent`, `NoReadingRejected` |
| `ImplementsRuleEngine`, `RulesHoldInThePath` | `TelemetrySpec => EngineSpec`, hence its properties in the path |
| `ImplementsSimulator` | `TelemetrySpec =>` the `DataSimulator`'s `SimSpec` |
| `DrainedPathsAgree` | `TelemetrySpec =>` always `DrainedViewsAgree` |

**Booking.** The inductive invariant is `IInv` in `BookingProofs`. `TypeOK` alone is not
inductive: an `INSERT` writes a well-typed row only if the request that runs it
has a spot and a vehicle, which depends on the endpoint it came in by.
`ProgramOrder` says which endpoints a step belongs to and which locals are set
by then; `OrderlyRequest` is the set of request records that satisfy it, and each
handler is shown to stay within it by lemmas about `Become`, `Answer` and `Throw`.
`NoDoubleBooking` needs, besides the index, that ids in use are below `nextId`
(`RowsOK`): otherwise an insert could overwrite a row. `EnsuredTableStays` is
inductive with the fact that a table, once there, stays (`StepTable`), and that
a request enters the steps it speaks of only from one of them or when the table is
there (`EntersWithTable`).

`RequestsAdvance` needs no more than types: each statement leads to one the code has
later (`Place`) with the same list, or from a loop's head to its body with a shorter
list. That this cannot go on for ever (`ProgressEnds`) is shown by minimal elements:
of any set of request records, take one whose list no other's is a proper part of, and
of those with that list one at the latest step. What is left of
`EveryRequestAnswered` is that a request which has begun does go on.

For the refinement, deployments whose table exists also satisfy `WarmInv`:
nobody is about to create a table. Without it `EnsureReplace` would tear up the
books *and* reuse numbers, which the Ledger does not allow: the `lost_bookings` run
again. `HolderOf` is a `CHOOSE`; `HolderFact` turns it, by `NoDoubleBooking`, into the
one active row. Then each statement is a ledger step: `INSERT` is `Grant`, a
refused one `Waste`, an `UPDATE` is `Release`, `Reclaim` or a stutter, the bulk
`DELETE` is `CloseBooks`, everything else a stutter. What the Ledger is for (holders
have tickets of their spot, tickets keep their spot, numbers never come back) is
stated in `Ledger` as `Promises` and proved from its own actions by `LedgerInv`, in the
variables `Booking` gives it; the refinement hands it down.

`AckInv` (`AckProofs`) adds that what an acknowledgement promises holds from the
INSERT on (`GrantsInv`): the id is below `nextId` and nobody else's, and its row keeps
spot and vehicle unless a PUT renamed it or a bulk delete ran. `AckedBookingStands` is
not inductive, as it says nothing of a request that has its row and has not answered.
Of the steps it allows, only the bulk delete's takes a row away (`RowsStay`).

`TakeInv` (`TakingProofs`) says that while spots are only taken every row is active
and a status write under way writes "occupied" for a held spot, so a held spot
stays held. `BookedIsMarked` is inductive with it, and at rest, when no status write is
under way, it is `AtRestBookedIsOccupied`. `CoverInv` accounts for each spot a
bulk booking scanned: still to come, in hand, or held. `DetailsInv` says that the
status shard shows a seeded status or that of a held spot, and so what a GET has
read remains explained until it reads the rows.

`AccountInv`: there are as many rows as `Owners` (requests whose status write is under
way, and POST books past it that have not failed) and spots counted by bulk bookings
(`Total`). An INSERT makes an owner; a bulk booking's status write turns it into a
count. `Total` is a fold over the set of requests; that it is the size of a set,
`Tally`, which grows by one when a count does (`TotalGrows`), is an induction over that
set. It is done without an operator parameter: `SubsetInduction` says that a *set* of subsets that has
`{}`, and any subset as soon as it has that subset less some element, has them all; it
follows from the well-foundedness of strict inclusion on finite sets. The set of
requests has to be finite, as otherwise there is no sum.

**Status.** `StatusInv`: an entry's age and remaining life together stay within
`TTL + Fill`, and an entry under a key was filtered for an area with that key. The
first is what a tick keeps and a store sets up; neither age nor life alone is
inductive.

**Seeding.** `SeedingInv`: `PlaceOK` (loop variables), `RowsHaveLots`, and what is
missing is *ahead* of somebody. Unless a seeding was cut, a spot missing below the
capacity of its lot's row (`SpotsAhead`) is yet to be written by an instance at work
on that lot, whose own capacity reaches it; a missing lot (`LotsAhead`) by an instance
that has written others. With nobody in the loops, nothing is missing. An instance
that draws another capacity for the row takes on the spots up to it, so races
between draws do no harm. `AllBehind`: a lone
seeder has no row ahead of it, so no spot it writes had a row, and a client's status
write marks only spots with rows. Clients' steps change neither lots nor spots
(`ClientKeepsInv`).

**Rule engine.** `EngineInv`: the newest `run[d]` readings of a window are high and the
one before them, if any, is low (`WindowShowsRun`); `run` never exceeds `streak`; and a
window is too long only by the alerts that failed. So looking at the last W of a
window of any length finds the last W kept. `ImplementsRuleEngine` maps every step of
the path to one of the engine or a stutter; stopping the process is its restart.

**The path.** `FlowInv` is about a path on which nothing has failed. Read it from the
source: if a lot's new reading is still to be sent nothing is claimed; otherwise the
newest of its readings in the first of the two topics that holds one, or else the one
whose instant alert is being written, or else the newest in the window, shows the
simulator's present count. Each hop takes the oldest reading of one place and adds it as the
newest to the next, so "newest of its readings" moves as one through appends
(`NewestAppendOwn`, `NewestAppendOther`) and removals at the head (`NewestTail`), and
judging keeps it (`JudgeKeepsNewest`). Drained, the only place left is the window. TLC
checked `FlowInv` first, with two devices.

Model-checked only. Liveness (`EveryRequestAnswered`, `LastingAlertRecurs`,
`EstimatesEnd`, `StartupEnds`) is outside what the prover does; of the first, the part
without fairness is proved (`RequestsAdvance`). The claims the code makes and does not
keep are refuted by runs.

## Not modelled, and why

* The other reads of the booking service are single SELECTs: they change no state,
  and return a state of `Booking`. `GetAvailableSpotsAsync`, `GetBookingHistoryAsync` and
  `AddToBookingHistoryAsync` have no caller.
* The health endpoint compares an error rate with a threshold. Its 503s are
  themselves requests in that rate (`HealthController.cs:59`), but whether it recovers
  depends on the share of probes in the traffic, and nothing promises that it does.
* `init-replica.sh` runs before PostgreSQL; what a half-made data directory leads to is
  PostgreSQL's recovery. The application keeps the replica's connection string and
  never opens it.
* nginx, mosquitto, pgbouncer, Prometheus and compose files are configuration; the SQL
  scripts are DDL and demo rows. They were read for instance counts, retries, QoS.
  The demo rows of `init-shard2.sql` are left out of `Init`: the compose files mount
  the script from a path the repository does not have.
* Load tests and integration tests are clients of the API. The fixture's own tables
  (`TestDataFixture.cs`, `init-scripts/init.sql`) have other constraints; the model is
  of the deployment.
* `monitoring/grafana/data/plugins` is minified third-party JavaScript, the only
  JavaScript in the repository. The system itself is C# and Python, and what the
  map covers is of those.
* `vehicle_id` longer than its column, or missing in a PUT, is an exception of
  its statement: it is among the faults.
* 32-bit wrap-around of SERIAL: PostgreSQL raises an error instead, a fault.
* Metrics writes: their failures are swallowed and nothing here reads them back.

## What could follow

1. The status writes of PUT (`PostgresService.cs:686`) and of the bulk delete next to a
   reader: which disagreement of the shards heals, and by what.
