----------------------------- MODULE StatusCache -----------------------------
(***************************************************************************)
(* GET /parking/status: ApiController.GetParkingStatus over                *)
(* RedisCacheService, InfluxDbService.QueryAsync and the lots in           *)
(* PostgreSQL.  Instances share Redis and nothing else, so the processes   *)
(* are requests, one action per awaited call; get, factory and set are     *)
(* separate calls, and several requests may fill one key at once.          *)
(*                                                                         *)
(* A list of lots is modelled by where it came from and which lots, with   *)
(* which coordinates, are on it.  Time passes in ticks; expiry times count *)
(* down.  The ages are history: how long ago InfluxDB was asked for what   *)
(* the list says.                                                          *)
(***************************************************************************)
EXTENDS Naturals, FiniteSets

CONSTANTS
    Reqs,           \* requests a client has open, one after another
    Lots,           \* parking lots: device_ids with readings
    Areas,          \* combinations of lat, lon and radius
    Rounded,        \* area -> the same to four decimals, the radius to none
    Near,           \* area -> the lots whose coordinates lie in it
    TTL,            \* lifetime of a cached status: 30 s
    LocationTTL,    \* lifetime of a cached location: 30 min
    Fill,           \* bound: from InfluxDB's answer to the stored status
    Nil

ASSUME StatusAssumption ==
    /\ Near \in [Areas -> SUBSET Lots]
    /\ TTL \in Nat \ {0} /\ LocationTTL \in Nat \ {0} /\ Fill \in Nat
    /\ Nil \notin Areas /\ \A a \in Areas : Rounded[a] # "status"

VARIABLES
    known,          \* parking_lots: the lots that have a row
    heard,          \* iot_bucket: the age of a lot's last reading
    cache,          \* Redis: key of a status -> entry, or Nil
    location,       \* Redis: lot -> ticks its cached location has left
    req             \* request -> where it stands and what it holds

vars == <<known, heard, cache, location, req>>

-----------------------------------------------------------------------------
(* Data                                                                    *)

\* Within the last hour, the last day, or neither.
Heard == {"hour", "day", "never"}

\* An area, or Nil when not all of lat, lon and radius are given.
Queries == Areas \cup {Nil}

\* Variant of Key: the coordinates are left out of it.
KeyWithoutArea(q) == "status"

\* parking:status, or parking:status:geo:lat:lon:radius if all are given,
\* in the formats F4, F4 and F0: areas a few metres apart share a key.
Key(q) == IF q \in Areas THEN Rounded[q] ELSE "status"
Keys == {"status"} \cup {Rounded[a] : a \in Areas}

\* A lot's coordinates are its own, or those read back from a cached tuple.
Places == {"own", "origin"}

\* The answer: estimates come from PostgreSQL, half of the capacity.
Lists == [source : {"influx", "estimate"},
          area   : Queries,             \* filtered by
          at     : UNION {[s -> Places] : s \in SUBSET Lots}]

EmptyList == [source |-> "influx", area |-> Nil, at |-> [d \in {} |-> "own"]]

\* Between an answer of InfluxDB and the stored status.
Filling == {"locate", "store", "lots", "set"}
Steps == {"idle", "hour", "day", "answered"} \cup Filling

Request ==
    [pc      : Steps,
     query   : Queries,
     range   : {"hour", "day"},     \* of the last query
     retried : BOOLEAN,             \* inside QueryAsync's catch of a 502
     left    : SUBSET Lots,         \* records not located yet
     lot     : Lots \cup {Nil},     \* the one whose location is to be stored
     list    : Lists,
     age     : Nat]

NewRequest ==
    [pc |-> "idle", query |-> Nil, range |-> "hour", retried |-> FALSE,
     left |-> {}, lot |-> Nil, list |-> EmptyList, age |-> 0]

At(r, step) == req[r].pc = step
Open(r) == req[r].pc \notin {"idle", "answered"}

StatusInit ==
    /\ known \in SUBSET Lots
    /\ heard \in [Lots -> Heard]
    /\ cache = [k \in Keys |-> Nil]
    /\ location = [d \in Lots |-> 0]
    /\ req = [r \in Reqs |-> NewRequest]

Become(r, q) == req' = [req EXCEPT ![r] = q]

Answer(r, q, list, age) ==
    Become(r, [NewRequest EXCEPT !.pc = "answered", !.query = q,
                                 !.list = list, !.age = age])

-----------------------------------------------------------------------------
(* The handler                                                             *)

\* GetAsync finds the list ...
GetHit(r) ==
    /\ ~Open(r)
    /\ \E q \in Queries :
          LET entry == cache[Key(q)]
          IN  entry # Nil /\ Answer(r, q, entry.list, entry.age)
    /\ UNCHANGED <<known, heard, cache, location>>

\* ... or does not, and the factory is called.
GetMiss(r) ==
    /\ ~Open(r)
    /\ \E q \in Queries :
          /\ cache[Key(q)] = Nil
          /\ Become(r, [NewRequest EXCEPT !.pc = "hour", !.query = q])
    /\ UNCHANGED <<known, heard, cache, location>>

\* The next record; or, all seen, the filter and the store; with no lot on
\* the list the range is extended first, and then PostgreSQL asked.
Onward(q) ==
    [q EXCEPT !.pc = IF q.left # {} THEN "locate"
                     ELSE IF DOMAIN q.list.at # {} THEN "set"
                     ELSE IF q.range = "hour" THEN "day"
                     ELSE "lots"]

\* The request goes on with these records.
WithRecords(r, records) ==
    Onward([req[r] EXCEPT !.range = req[r].pc, !.left = records,
                          !.retried = FALSE, !.age = 0])

\* The records a query over this range returns.
Records(range) ==
    {d \in Lots : heard[d] = "hour" \/ (range = "day" /\ heard[d] = "day")}

\* QueryAsync, at the first or the second attempt.
Query(r) ==
    /\ req[r].pc \in {"hour", "day"}
    /\ Become(r, WithRecords(r, Records(req[r].pc)))
    /\ UNCHANGED <<known, heard, cache, location>>

\* The first attempt meets a 502: wait a second, try again.
QueryBadGateway(r) ==
    /\ req[r].pc \in {"hour", "day"} /\ ~req[r].retried
    /\ Become(r, [req[r] EXCEPT !.retried = TRUE])
    /\ UNCHANGED <<known, heard, cache, location>>

\* The second fails, with any exception: an empty list.
QueryRetryFails(r) ==
    /\ req[r].pc \in {"hour", "day"} /\ req[r].retried
    /\ Become(r, WithRecords(r, {}))
    /\ UNCHANGED <<known, heard, cache, location>>

\* The lot is put on the list, at this place.
Listed(q, d, place) ==
    [q EXCEPT !.left = @ \ {d},
              !.list.at = [e \in DOMAIN @ \cup {d} |-> IF e = d THEN place ELSE @[e]]]

\* The coordinates of one record: from Redis, where a tuple was stored as {}
\* and is read back as (0, 0) ...
LocationHit(r) ==
    /\ At(r, "locate")
    /\ \E d \in req[r].left :
          location[d] > 0 /\ Become(r, Onward(Listed(req[r], d, "origin")))
    /\ UNCHANGED <<known, heard, cache, location>>

\* ... or from PostgreSQL ...
LocationMiss(r) ==
    /\ At(r, "locate")
    /\ \E d \in req[r].left \cap known :
          /\ location[d] = 0
          /\ Become(r, [Listed(req[r], d, "own") EXCEPT !.pc = "store", !.lot = d])
    /\ UNCHANGED <<known, heard, cache, location>>

LocationStored(r) ==
    /\ At(r, "store")
    /\ location' = [location EXCEPT ![req[r].lot] = LocationTTL]
    /\ Become(r, Onward([req[r] EXCEPT !.lot = Nil]))
    /\ UNCHANGED <<known, heard, cache>>

\* ... and the record is skipped if there are none; null is cached as null,
\* which the next request takes for a miss.
LocationUnknown(r) ==
    /\ At(r, "locate")
    /\ \E d \in req[r].left \ known :
          Become(r, Onward([req[r] EXCEPT !.left = @ \ {d}]))
    /\ UNCHANGED <<known, heard, cache, location>>

\* GetParkingLotsAsync
Estimate(r) ==
    /\ At(r, "lots")
    /\ Become(r, [req[r] EXCEPT !.pc = "set", !.list.source = "estimate",
                                !.list.at = [d \in known |-> "own"]])
    /\ UNCHANGED <<known, heard, cache, location>>

\* Only the lots within the radius, when coordinates and a radius are given.
\* No lot is near the origin.
Filtered(list, q) ==
    IF q \in Areas
    THEN LET near == {d \in DOMAIN list.at : d \in Near[q] /\ list.at[d] = "own"}
         IN  [list EXCEPT !.area = q, !.at = [d \in near |-> "own"]]
    ELSE list

\* Variant of NewEntry: the default expiry, not the one given.
EntryWithDefaultTTL(list, age) == [list |-> list, age |-> age, life |-> 10 * TTL]

NewEntry(list, age) == [list |-> list, age |-> age, life |-> TTL]

\* Filter, SetAsync and answer.
Set(r) ==
    /\ At(r, "set")
    /\ LET list == Filtered(req[r].list, req[r].query)
       IN  /\ cache' = [cache EXCEPT ![Key(req[r].query)] = NewEntry(list, req[r].age)]
           /\ Answer(r, req[r].query, list, req[r].age)
    /\ UNCHANGED <<known, heard, location>>

\* Redis, PostgreSQL, or InfluxDB with anything but a 502: the exception
\* ends in a 500, and the key stays as it is.
CallFails(r) ==
    /\ Open(r) /\ ~req[r].retried
    /\ Become(r, NewRequest)
    /\ UNCHANGED <<known, heard, cache, location>>

-----------------------------------------------------------------------------
(* Around it                                                               *)

\* RemoveAsync("parking:status") after a booking, a PUT or a deletion; the
\* second call names a key that nothing uses, parking:status:geo:*.
Invalidate ==
    /\ cache["status"] # Nil
    /\ cache' = [cache EXCEPT !["status"] = Nil]
    /\ UNCHANGED <<known, heard, location, req>>

\* The controller stores a reading; or none comes for an hour, a day.
Reading(d) ==
    /\ heard[d] # "hour"
    /\ heard' = [heard EXCEPT ![d] = "hour"]
    /\ UNCHANGED <<known, cache, location, req>>

Silence(d) ==
    /\ heard[d] # "never"
    /\ heard' = [heard EXCEPT ![d] = IF @ = "hour" THEN "day" ELSE "never"]
    /\ UNCHANGED <<known, cache, location, req>>

\* Variant of Aged: an entry without an expiry.
AgedForEver(entry) == entry

\* An entry one tick later.
Aged(entry) ==
    IF entry = Nil \/ entry.life = 1 THEN Nil
    ELSE [entry EXCEPT !.life = @ - 1, !.age = @ + 1]

\* A tick.  What is in hand is stored in Fill ticks.
Tick ==
    /\ \A r \in Reqs : req[r].pc \in Filling => req[r].age < Fill
    /\ cache' = [k \in Keys |-> Aged(cache[k])]
    /\ location' = [d \in Lots |-> IF location[d] > 0 THEN location[d] - 1 ELSE 0]
    /\ req' = [r \in Reqs |->
                  IF req[r].pc \in Filling THEN [req[r] EXCEPT !.age = @ + 1]
                  ELSE req[r]]
    /\ UNCHANGED <<known, heard>>

-----------------------------------------------------------------------------
HandlerStep(r) ==
    \/ Query(r) \/ QueryBadGateway(r) \/ QueryRetryFails(r)
    \/ LocationHit(r) \/ LocationMiss(r) \/ LocationStored(r) \/ LocationUnknown(r)
    \/ Estimate(r) \/ Set(r) \/ CallFails(r)

StatusNext ==
    \/ \E r \in Reqs : GetHit(r) \/ GetMiss(r) \/ HandlerStep(r)
    \/ \E d \in Lots : Reading(d) \/ Silence(d)
    \/ Invalidate \/ Tick

StatusSpec == StatusInit /\ [][StatusNext]_vars

\* Every awaited call returns or throws, and time passes.
StatusFairness == (\A r \in Reqs : WF_vars(HandlerStep(r))) /\ WF_vars(Tick)

FairStatus == StatusSpec /\ StatusFairness

-----------------------------------------------------------------------------
(* Properties                                                              *)

Answered(r) == req[r].pc = "answered"

StatusTypeOK ==
    /\ known \subseteq Lots /\ heard \in [Lots -> Heard]
    /\ cache \in [Keys -> [list : Lists, age : Nat, life : Nat] \cup {Nil}]
    /\ location \in [Lots -> 0..LocationTTL]
    /\ req \in [Reqs -> Request]

\* What a client is told was asked of InfluxDB less than TTL + Fill ticks ago:
\* a slow fill that overwrites a newer one, a hit just before the expiry and
\* estimates after an outage included.
AnswerFresh ==
    \A r \in Reqs : Answered(r) => req[r].age < TTL + Fill

\* Requests that share a key asked for the same, but for the rounding: a list
\* filtered by an area goes only to requests for an area that rounds to the
\* same, and a client that gave no area gets a list that is not filtered.
AnswerFitsQuery ==
    \A r \in Reqs : Answered(r) =>
        \/ req[r].list.area = req[r].query
        \/ /\ {req[r].list.area, req[r].query} \subseteq Areas
           /\ Rounded[req[r].list.area] = Rounded[req[r].query]

\* Once InfluxDB answers again, at the second attempt at the latest, and a
\* known lot is heard every hour, the estimates made during the outage are
\* gone from the cache for good: an old fill may still store one, but it
\* expires.
EstimatesEnd ==
    <>[][\A r \in Reqs : ~QueryRetryFails(r)]_vars
        => (<>[](\E d \in known : heard[d] = "hour")
            => <>[](\A k \in Keys :
                       cache[k] # Nil => cache[k].list.source = "influx"))

\* ApiController.cs:87 caches "the location of the parking lot" and :92 says
\* it "rarely changes": every lot in an answer is where it is.
LocationsAreOwn ==
    \A r \in Reqs : Answered(r) =>
        \A d \in DOMAIN req[r].list.at : req[r].list.at[d] = "own"
=============================================================================
