----------------------------- MODULE StatusProofs -----------------------------
(***************************************************************************)
(* Proofs about StatusCache, for any number of requests, lots and areas    *)
(* and any lifetimes: how old an answer may be, and whom it was made for.  *)
(***************************************************************************)
EXTENDS StatusCache, Integers, TLAPS

Entry == [list : Lists, age : Nat, life : Nat]

\* An entry's life and age share a budget, and its key is that of its list.
EntryOK(k, e) ==
    /\ e \in Entry
    /\ e.life \in 1..TTL
    /\ e.age + e.life <= TTL + Fill
    /\ Key(e.list.area) = k

RequestOK(q) ==
    /\ q \in Request
    /\ q.pc \in Filling => q.age <= Fill
    /\ q.pc # "answered" => q.list.area = Nil
    /\ q.pc = "answered" => /\ q.age < TTL + Fill
                            /\ Key(q.list.area) = Key(q.query)

StatusInv ==
    /\ known \subseteq Lots /\ heard \in [Lots -> Heard]
    /\ location \in [Lots -> 0..LocationTTL]
    /\ cache \in [Keys -> Entry \cup {Nil}]
    /\ \A k \in Keys : cache[k] # Nil => EntryOK(k, cache[k])
    /\ req \in [Reqs -> Request]
    /\ \A r \in Reqs : RequestOK(req[r])

Ats == UNION {[s -> Places] : s \in SUBSET Lots}

-----------------------------------------------------------------------------
(* Helpers                                                                 *)

\* A map from lots to places is one of those a list may hold.
LEMMA AtsFact ==
    ASSUME NEW s \in SUBSET Lots, NEW f \in [s -> Places]
    PROVE  f \in Ats
BY DEF Ats

\* ... and has lots for its domain.
LEMMA AtsDomain ==
    ASSUME NEW f \in Ats
    PROVE  /\ DOMAIN f \in SUBSET Lots
           /\ \A d \in DOMAIN f : f[d] \in Places
BY DEF Ats

\* A new request record is in order.
LEMMA NewRequestOK == RequestOK(NewRequest)
<1>1. [d \in {} |-> "own"] \in Ats
  <2>1. [d \in {} |-> "own"] \in [{} -> Places]
    BY DEF Places
  <2> QED
    BY <2>1, AtsFact
<1>2. EmptyList \in Lists
  BY <1>1 DEF EmptyList, Lists, Ats, Queries
<1>3. NewRequest \in Request
  BY <1>2 DEF NewRequest, Request, Steps, Queries
<1> QED
  BY <1>3 DEF NewRequest, RequestOK, Filling, EmptyList

\* An answer with a fresh list for the same key is in order.
LEMMA AnsweredOK ==
    ASSUME NEW q \in Queries, NEW list \in Lists, NEW age \in Nat,
           age < TTL + Fill, Key(list.area) = Key(q)
    PROVE  RequestOK([NewRequest EXCEPT !.pc = "answered", !.query = q,
                                        !.list = list, !.age = age])
<1> DEFINE a == [NewRequest EXCEPT !.pc = "answered", !.query = q,
                                   !.list = list, !.age = age]
<1>1. NewRequest \in Request
  BY NewRequestOK DEF RequestOK
<1>2. /\ a \in Request /\ a.pc = "answered" /\ a.query = q
      /\ a.list = list /\ a.age = age
  BY <1>1 DEF Request, Steps
<1> QED
  BY <1>2 DEF RequestOK, Filling

\* Onward keeps a request that is not answered in order.
LEMMA OnwardOK ==
    ASSUME NEW q \in Request, q.age <= Fill, q.list.area = Nil
    PROVE  RequestOK(Onward(q))
<1>1. /\ Onward(q) \in Request /\ Onward(q).pc \in {"locate", "set", "day", "lots"}
      /\ Onward(q).age = q.age /\ Onward(q).list = q.list
  BY DEF Onward, Request, Steps, Filling
<1> QED
  BY <1>1 DEF RequestOK, Filling

\* A lot put on the list leaves the rest of the request as it was.
LEMMA ListedFact ==
    ASSUME NEW q \in Request, NEW d \in Lots, NEW place \in Places
    PROVE  /\ Listed(q, d, place) \in Request
           /\ Listed(q, d, place).age = q.age
           /\ Listed(q, d, place).list.area = q.list.area
           /\ Listed(q, d, place).pc = q.pc
<1> DEFINE old == q.list.at
           new == [e \in DOMAIN old \cup {d} |-> IF e = d THEN place ELSE old[e]]
<1>1. old \in Ats
  BY DEF Request, Lists, Ats
<1>2. DOMAIN old \cup {d} \in SUBSET Lots /\ \A e \in DOMAIN old : old[e] \in Places
  BY <1>1, AtsDomain
<1>3. new \in [DOMAIN old \cup {d} -> Places]
  BY <1>2
<1>4. new \in Ats
  BY <1>2, <1>3, AtsFact
<1> HIDE DEF new
<1>5. [q.list EXCEPT !.at = new] \in Lists
  BY <1>4 DEF Request, Lists, Ats
<1>6. Listed(q, d, place) = [q EXCEPT !.left = @ \ {d}, !.list = [q.list EXCEPT !.at = new]]
  BY DEF Listed, new, Request, Lists
<1>7. [q.list EXCEPT !.at = new].area = q.list.area
  BY DEF Request, Lists
<1> QED
  BY <1>5, <1>6, <1>7 DEF Request

\* The filter yields a list for the key of the query.
LEMMA FilteredFact ==
    ASSUME NEW q \in Queries, NEW list \in Lists, list.area = Nil
    PROVE  Filtered(list, q) \in Lists /\ Filtered(list, q).area = q
<1>1. CASE q \in Areas
  <2> DEFINE near == {d \in DOMAIN list.at : d \in Near[q] /\ list.at[d] = "own"}
             new == [d \in near |-> "own"]
  <2>1. list.at \in Ats
    BY DEF Lists, Ats
  <2>2. near \in SUBSET Lots
    BY <2>1, AtsDomain
  <2>3. new \in [near -> Places]
    BY DEF Places
  <2>4. new \in Ats
    BY <2>2, <2>3, AtsFact
  <2> HIDE DEF new
  <2>5. Filtered(list, q) = [list EXCEPT !.area = q, !.at = new]
    BY <1>1 DEF Filtered, new
  <2> QED
    BY <2>4, <2>5 DEF Lists, Ats
<1>2. CASE q \notin Areas
  BY <1>2 DEF Filtered, Queries
<1> QED
  BY <1>1, <1>2

\* A step that changes one request, to a record in order, keeps the invariant.
LEMMA BecomeOK ==
    ASSUME StatusInv, NEW r \in Reqs, NEW q, RequestOK(q), Become(r, q),
           UNCHANGED <<known, heard, cache, location>>
    PROVE  StatusInv'
<1>1. q \in Request
  BY DEF RequestOK
<1>2. req' \in [Reqs -> Request] /\ \A s \in Reqs : req'[s] = IF s = r THEN q ELSE req[s]
  BY <1>1 DEF StatusInv, Become
<1>3. \A s \in Reqs : RequestOK(req'[s])
  BY <1>2 DEF StatusInv
<1> QED
  BY <1>2, <1>3 DEF StatusInv

-----------------------------------------------------------------------------
(* The invariant                                                           *)

LEMMA StatusInvInit == StatusInit => StatusInv
<1> SUFFICES ASSUME StatusInit PROVE StatusInv
  OBVIOUS
<1>1. req \in [Reqs -> Request] /\ \A r \in Reqs : RequestOK(req[r])
  BY NewRequestOK DEF StatusInit, RequestOK
<1>2. location \in [Lots -> 0..LocationTTL]
  BY StatusAssumption DEF StatusInit
<1>3. cache \in [Keys -> Entry \cup {Nil}] /\ \A k \in Keys : cache[k] = Nil
  BY DEF StatusInit
<1> QED
  BY <1>1, <1>2, <1>3 DEF StatusInv, StatusInit

\* A hit answers with an entry, which is in order.
LEMMA HitKeepsInv ==
    ASSUME StatusInv, NEW r \in Reqs, GetHit(r)
    PROVE  StatusInv'
<1>1. PICK q \in Queries :
         cache[Key(q)] # Nil /\ Answer(r, q, cache[Key(q)].list, cache[Key(q)].age)
  BY DEF GetHit
<1>2. Key(q) \in Keys
  BY DEF Key, Keys
<1>3. EntryOK(Key(q), cache[Key(q)])
  BY <1>1, <1>2 DEF StatusInv
<1> DEFINE e == cache[Key(q)]
<1>4. e.list \in Lists /\ e.age \in Nat /\ Key(e.list.area) = Key(q)
  BY <1>3 DEF EntryOK, Entry
<1>5. e.age < TTL + Fill
  BY <1>3, <1>4, StatusAssumption DEF EntryOK, Entry
<1> HIDE DEF e
<1>6. RequestOK([NewRequest EXCEPT !.pc = "answered", !.query = q,
                                   !.list = e.list, !.age = e.age])
  BY <1>4, <1>5, AnsweredOK
<1>7. UNCHANGED <<known, heard, cache, location>>
  BY DEF GetHit
<1> QED
  BY <1>1, <1>6, <1>7, BecomeOK DEF Answer, e

\* Every other step of a request but the store changes its record only.
LEMMA FillKeepsInv ==
    ASSUME StatusInv, NEW r \in Reqs,
           \/ GetMiss(r) \/ Query(r) \/ QueryBadGateway(r) \/ QueryRetryFails(r)
           \/ LocationHit(r) \/ LocationMiss(r) \/ LocationStored(r)
           \/ LocationUnknown(r) \/ Estimate(r) \/ CallFails(r)
    PROVE  StatusInv'
<1>0. req[r] \in Request /\ RequestOK(req[r])
  BY DEF StatusInv
<1>1. CASE GetMiss(r)
  <2>1. PICK q \in Queries : Become(r, [NewRequest EXCEPT !.pc = "hour", !.query = q])
    BY <1>1 DEF GetMiss
  <2>2. RequestOK([NewRequest EXCEPT !.pc = "hour", !.query = q])
    BY NewRequestOK DEF RequestOK, Request, NewRequest, Steps, Filling
  <2> QED
    BY <1>1, <2>1, <2>2, BecomeOK DEF GetMiss
<1>2. ASSUME NEW records \in SUBSET Lots, req[r].pc \in {"hour", "day"}
      PROVE  RequestOK(WithRecords(r, records))
  <2> DEFINE q == [req[r] EXCEPT !.range = req[r].pc, !.left = records,
                                 !.retried = FALSE, !.age = 0]
  <2>1. q \in Request /\ q.age = 0 /\ q.list = req[r].list
    BY <1>0, <1>2 DEF Request
  <2>2. req[r].list.area = Nil
    BY <1>0, <1>2 DEF RequestOK
  <2> HIDE DEF q
  <2>3. RequestOK(Onward(q))
    BY <2>1, <2>2, OnwardOK, StatusAssumption
  <2> QED
    BY <2>3 DEF WithRecords, q
<1>3. CASE Query(r)
  <2>1. Records(req[r].pc) \in SUBSET Lots
    BY DEF Records
  <2> QED
    BY <1>2, <1>3, <2>1, BecomeOK DEF Query
<1>4. CASE QueryBadGateway(r)
  <2>1. RequestOK([req[r] EXCEPT !.retried = TRUE])
    BY <1>0 DEF RequestOK, Request
  <2> QED
    BY <1>4, <2>1, BecomeOK DEF QueryBadGateway
<1>5. CASE QueryRetryFails(r)
  BY <1>2, <1>5, BecomeOK DEF QueryRetryFails
<1>6. req[r].pc \in Filling => req[r].age <= Fill /\ req[r].list.area = Nil
  BY <1>0 DEF RequestOK, Filling
<1>7. CASE LocationHit(r)
  <2>1. PICK d \in req[r].left : Become(r, Onward(Listed(req[r], d, "origin")))
    BY <1>7 DEF LocationHit
  <2>2. d \in Lots /\ "origin" \in Places
    BY <1>0 DEF Request, Places
  <2>3. RequestOK(Onward(Listed(req[r], d, "origin")))
    BY <1>0, <1>6, <1>7, <2>2, ListedFact, OnwardOK DEF LocationHit, At, Filling
  <2> QED
    BY <1>7, <2>1, <2>3, BecomeOK DEF LocationHit
<1>8. CASE LocationMiss(r)
  <2>1. PICK d \in req[r].left :
           Become(r, [Listed(req[r], d, "own") EXCEPT !.pc = "store", !.lot = d])
    BY <1>8 DEF LocationMiss
  <2>2. d \in Lots /\ "own" \in Places
    BY <1>0 DEF Request, Places
  <2> DEFINE l == Listed(req[r], d, "own")
  <2>3. l \in Request /\ l.age = req[r].age /\ l.list.area = req[r].list.area
    BY <1>0, <2>2, ListedFact
  <2>4. l.age <= Fill /\ l.list.area = Nil
    BY <1>6, <1>8, <2>3 DEF LocationMiss, At, Filling
  <2> HIDE DEF l
  <2>5. RequestOK([l EXCEPT !.pc = "store", !.lot = d])
    BY <2>2, <2>3, <2>4 DEF RequestOK, Request, Steps, Filling
  <2> QED
    BY <1>8, <2>1, <2>5, BecomeOK DEF LocationMiss, l
<1>9. CASE LocationStored(r)
  <2> DEFINE q == [req[r] EXCEPT !.lot = Nil]
  <2>1. q \in Request /\ q.age = req[r].age /\ q.list = req[r].list
    BY <1>0 DEF Request
  <2>2. q.age <= Fill /\ q.list.area = Nil
    BY <1>6, <1>9, <2>1 DEF LocationStored, At, Filling
  <2> HIDE DEF q
  <2>3. RequestOK(Onward(q))
    BY <2>1, <2>2, OnwardOK
  <2>4. /\ Become(r, Onward(q)) /\ UNCHANGED <<known, heard, cache>>
        /\ location' = [location EXCEPT ![req[r].lot] = LocationTTL]
    BY <1>9 DEF LocationStored, q
  <2>5. location' \in [Lots -> 0..LocationTTL]
    <3>1. location' = [d \in Lots |-> IF d = req[r].lot THEN LocationTTL ELSE location[d]]
      BY <2>4 DEF StatusInv
    <3>2. LocationTTL \in 0..LocationTTL
      BY StatusAssumption
    <3> QED
      BY <3>1, <3>2 DEF StatusInv
  <2>6. Onward(q) \in Request
    BY <2>3 DEF RequestOK
  <2>7. /\ req' \in [Reqs -> Request]
        /\ \A s \in Reqs : req'[s] = IF s = r THEN Onward(q) ELSE req[s]
    BY <2>4, <2>6 DEF StatusInv, Become
  <2>8. \A s \in Reqs : RequestOK(req'[s])
    BY <2>3, <2>7 DEF StatusInv
  <2> QED
    BY <2>4, <2>5, <2>7, <2>8 DEF StatusInv
<1>10. CASE LocationUnknown(r)
  <2>1. PICK d \in req[r].left : Become(r, Onward([req[r] EXCEPT !.left = @ \ {d}]))
    BY <1>10 DEF LocationUnknown
  <2> DEFINE q == [req[r] EXCEPT !.left = @ \ {d}]
  <2>2. q \in Request /\ q.age = req[r].age /\ q.list = req[r].list
    BY <1>0 DEF Request
  <2>3. q.age <= Fill /\ q.list.area = Nil
    BY <1>6, <1>10, <2>2 DEF LocationUnknown, At, Filling
  <2> HIDE DEF q
  <2>4. RequestOK(Onward(q))
    BY <2>2, <2>3, OnwardOK
  <2> QED
    BY <1>10, <2>1, <2>4, BecomeOK DEF LocationUnknown, q
<1>11. CASE Estimate(r)
  <2> DEFINE new == [d \in known |-> "own"]
             list == [req[r].list EXCEPT !.source = "estimate", !.at = new]
             q == [req[r] EXCEPT !.pc = "set", !.list = list]
  <2>1. new \in [known -> Places] /\ known \in SUBSET Lots
    BY DEF Places, StatusInv
  <2>2. new \in Ats
    BY <2>1, AtsFact
  <2>3. [req[r] EXCEPT !.pc = "set", !.list.source = "estimate", !.list.at = new] = q
    BY <1>0 DEF Request, Lists
  <2> HIDE DEF new
  <2>4. list \in Lists /\ list.area = req[r].list.area
    BY <1>0, <2>2 DEF Request, Lists, Ats
  <2> HIDE DEF list
  <2>5. q \in Request /\ q.age = req[r].age /\ q.list = list /\ q.pc = "set"
    BY <1>0, <2>4 DEF Request, Steps, Filling
  <2>6. RequestOK(q)
    BY <1>6, <1>11, <2>4, <2>5 DEF RequestOK, Estimate, At, Filling
  <2> QED
    BY <1>11, <2>3, <2>6, BecomeOK DEF Estimate, new
<1>12. CASE CallFails(r)
  BY <1>12, NewRequestOK, BecomeOK DEF CallFails
<1> QED
  BY <1>1, <1>3, <1>4, <1>5, <1>7, <1>8, <1>9, <1>10, <1>11, <1>12

\* What a request stores fits its key and has Fill ticks behind it at most.
LEMMA SetKeepsInv ==
    ASSUME StatusInv, NEW r \in Reqs, Set(r)
    PROVE  StatusInv'
<1> DEFINE q == req[r].query
           age == req[r].age
           list == Filtered(req[r].list, q)
           e == NewEntry(list, age)
<1>1. req[r] \in Request /\ RequestOK(req[r]) /\ req[r].pc = "set"
  BY DEF StatusInv, Set, At
<1>2. q \in Queries /\ req[r].list \in Lists /\ req[r].list.area = Nil
      /\ age \in Nat /\ age <= Fill
  BY <1>1 DEF RequestOK, Request, Filling
<1>3. list \in Lists /\ list.area = q
  BY <1>2, FilteredFact
<1>4. Key(q) \in Keys
  BY DEF Key, Keys
<1>5. /\ cache' = [cache EXCEPT ![Key(q)] = e]
      /\ Answer(r, q, list, age)
      /\ UNCHANGED <<known, heard, location>>
  BY DEF Set
<1> HIDE DEF list, age, q
<1>6. EntryOK(Key(q), e)
  BY <1>2, <1>3, StatusAssumption DEF EntryOK, Entry, NewEntry
<1>7. e \in Entry
  BY <1>6 DEF EntryOK
<1> HIDE DEF e
<1>8. /\ cache' \in [Keys -> Entry \cup {Nil}]
      /\ \A k \in Keys : cache'[k] = IF k = Key(q) THEN e ELSE cache[k]
  BY <1>4, <1>5, <1>7 DEF StatusInv
<1>9. \A k \in Keys : cache'[k] # Nil => EntryOK(k, cache'[k])
  BY <1>6, <1>8 DEF StatusInv
<1> DEFINE a == [NewRequest EXCEPT !.pc = "answered", !.query = q,
                                   !.list = list, !.age = age]
<1>10. RequestOK(a)
  <2>1. age < TTL + Fill
    BY <1>2, StatusAssumption
  <2> QED
    BY <1>2, <1>3, <2>1, AnsweredOK
<1>11. req' = [req EXCEPT ![r] = a]
  BY <1>5 DEF Answer, Become
<1> HIDE DEF a
<1>12. a \in Request
  BY <1>10 DEF RequestOK
<1>13. /\ req' \in [Reqs -> Request]
       /\ \A s \in Reqs : req'[s] = IF s = r THEN a ELSE req[s]
  BY <1>11, <1>12 DEF StatusInv
<1>14. \A s \in Reqs : RequestOK(req'[s])
  BY <1>10, <1>13 DEF StatusInv
<1> QED
  BY <1>5, <1>8, <1>9, <1>13, <1>14 DEF StatusInv

\* A tick takes from an entry's life what it adds to its age.
LEMMA TickKeepsInv ==
    ASSUME StatusInv, Tick
    PROVE  StatusInv'
<1>1. ASSUME NEW k \in Keys
      PROVE  /\ Aged(cache[k]) \in Entry \cup {Nil}
             /\ Aged(cache[k]) # Nil => EntryOK(k, Aged(cache[k]))
  <2>1. CASE cache[k] = Nil \/ cache[k].life = 1
    BY <2>1 DEF Aged
  <2>2. CASE cache[k] # Nil /\ cache[k].life # 1
    <3> DEFINE e == cache[k]
               f == [e EXCEPT !.life = @ - 1, !.age = @ + 1]
    <3>1. EntryOK(k, e)
      BY <2>2 DEF StatusInv
    <3>2. /\ e \in Entry /\ e.life \in 1..TTL /\ e.age + e.life <= TTL + Fill
          /\ Key(e.list.area) = k /\ e.life # 1
      BY <2>2, <3>1 DEF EntryOK
    <3>3. Aged(cache[k]) = f
      BY <2>2 DEF Aged
    <3> HIDE DEF e
    <3>4. e.life \in Nat /\ e.life - 1 \in Nat /\ e.age \in Nat /\ e.age + 1 \in Nat
      BY <3>2, StatusAssumption DEF Entry
    <3>5. f.list = e.list /\ f.life = e.life - 1 /\ f.age = e.age + 1
      BY <3>2 DEF Entry
    <3>6. f.life \in 1..TTL /\ f.age + f.life <= TTL + Fill
      BY <3>2, <3>4, <3>5, StatusAssumption
    <3>7. f \in Entry
      BY <3>2, <3>4 DEF Entry
    <3>8. EntryOK(k, f)
      BY <3>2, <3>4, <3>6, <3>7 DEF EntryOK
    <3> QED
      BY <3>3, <3>7, <3>8
  <2> QED
    BY <2>1, <2>2
<1>2. /\ cache' \in [Keys -> Entry \cup {Nil}]
      /\ \A k \in Keys : cache'[k] # Nil => EntryOK(k, cache'[k])
  <2>1. cache' = [k \in Keys |-> Aged(cache[k])]
    BY DEF Tick
  <2> QED
    BY <1>1, <2>1
<1>3. location' \in [Lots -> 0..LocationTTL]
  BY StatusAssumption DEF Tick, StatusInv
<1>4. ASSUME NEW r \in Reqs
      PROVE  req'[r] \in Request /\ RequestOK(req'[r])
  <2>1. req[r] \in Request /\ RequestOK(req[r])
    BY DEF StatusInv
  <2>2. CASE req[r].pc \in Filling
    <3>1. req'[r] = [req[r] EXCEPT !.age = @ + 1] /\ req[r].age < Fill
      BY <2>2 DEF Tick
    <3> QED
      BY <2>1, <2>2, <3>1, StatusAssumption DEF RequestOK, Request, Filling
  <2>3. CASE req[r].pc \notin Filling
    <3>1. req'[r] = req[r]
      BY <2>3 DEF Tick
    <3> QED
      BY <2>1, <3>1
  <2> QED
    BY <2>2, <2>3
<1>5. req' \in [Reqs -> Request]
  <2>1. req' = [r \in Reqs |-> req'[r]]
    BY DEF Tick
  <2> QED
    BY <1>4, <2>1
<1> QED
  BY <1>2, <1>3, <1>4, <1>5 DEF Tick, StatusInv

\* A deletion of a key, and readings that come or stop.
LEMMA AroundKeepsInv ==
    ASSUME StatusInv, Invalidate \/ \E d \in Lots : Reading(d) \/ Silence(d)
    PROVE  StatusInv'
<1>1. CASE Invalidate
  <2>1. /\ cache' \in [Keys -> Entry \cup {Nil}]
        /\ \A k \in Keys : cache'[k] \in {Nil, cache[k]}
    BY <1>1 DEF Invalidate, StatusInv
  <2> QED
    BY <1>1, <2>1 DEF Invalidate, StatusInv
<1>2. ASSUME NEW d \in Lots, Reading(d) \/ Silence(d)
      PROVE  StatusInv'
  <2>1. heard' \in [Lots -> Heard]
    BY <1>2 DEF Reading, Silence, StatusInv, Heard
  <2>2. UNCHANGED <<known, cache, location, req>>
    BY <1>2 DEF Reading, Silence
  <2> QED
    BY <2>1, <2>2 DEF StatusInv
<1> QED
  BY <1>1, <1>2

\* Every step keeps the invariant.
LEMMA StatusInvStep == StatusInv /\ [StatusNext]_vars => StatusInv'
<1> SUFFICES ASSUME StatusInv, [StatusNext]_vars PROVE StatusInv'
  OBVIOUS
<1>1. CASE UNCHANGED vars
  BY <1>1 DEF vars, StatusInv
<1>2. ASSUME NEW r \in Reqs, GetHit(r) \/ GetMiss(r) \/ HandlerStep(r)
      PROVE  StatusInv'
  BY <1>2, HitKeepsInv, FillKeepsInv, SetKeepsInv DEF HandlerStep
<1>3. CASE Tick
  BY <1>3, TickKeepsInv
<1>4. CASE Invalidate \/ \E d \in Lots : Reading(d) \/ Silence(d)
  BY <1>4, AroundKeepsInv
<1> QED
  BY <1>1, <1>2, <1>3, <1>4 DEF StatusNext

LEMMA StatusInvariant == StatusSpec => []StatusInv
BY StatusInvInit, StatusInvStep, PTL DEF StatusSpec

-----------------------------------------------------------------------------
(* Theorems                                                                *)

\* Entries, locations and request records stay well-typed, whatever calls
\* fail and however fills overlap.
THEOREM StatusTypeCorrect == StatusSpec => []StatusTypeOK
<1>1. StatusInv => StatusTypeOK
  BY DEF StatusInv, StatusTypeOK, Entry
<1> QED
  BY <1>1, StatusInvariant, PTL

\* No answer of the status endpoint rests on a query TTL + Fill ticks old or
\* older, for all lifetimes and any number of fills of one key at once.
THEOREM AnswersAreFresh == StatusSpec => []AnswerFresh
<1>1. StatusInv => AnswerFresh
  BY DEF StatusInv, AnswerFresh, RequestOK, Answered
<1> QED
  BY <1>1, StatusInvariant, PTL

\* A client with coordinates gets a list filtered for its own key, a client
\* without them one that is not filtered.
THEOREM AnswersFitQueries == StatusSpec => []AnswerFitsQuery
<1>1. ASSUME StatusInv, NEW r \in Reqs, Answered(r)
      PROVE  \/ req[r].list.area = req[r].query
             \/ /\ {req[r].list.area, req[r].query} \subseteq Areas
                /\ Rounded[req[r].list.area] = Rounded[req[r].query]
  <2>1. Key(req[r].list.area) = Key(req[r].query)
    BY <1>1 DEF StatusInv, RequestOK, Answered
  <2>2. req[r].list.area \in Areas \cup {Nil} /\ req[r].query \in Areas \cup {Nil}
    BY <1>1 DEF StatusInv, Request, Lists, Queries
  <2> QED
    BY <2>1, <2>2, StatusAssumption DEF Key
<1>2. StatusInv => AnswerFitsQuery
  BY <1>1 DEF AnswerFitsQuery
<1> QED
  BY <1>2, StatusInvariant, PTL
=============================================================================
