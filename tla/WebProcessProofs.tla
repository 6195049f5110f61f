--------------------------- MODULE WebProcessProofs ---------------------------
(* Reads of one web process see its settled writes, a key has one load that    *)
(* may be stored, and the admission counts its leases: for any number of       *)
(* users, calls, entries and limits, and for every TTL.                        *)
EXTENDS WebProcess, FiniteSetTheorems, FunctionTheorems, SequenceTheorems, TLAPS

Steps == {"idle", "entered", "admitted", "load", "loaded", "join", "settle",
          "done", "failed"}

CallRecord == [op : {"read", "auth", "write"}, key : Keys \union {None}, at : Steps,
               value : Nat, fenced : BOOLEAN, floor : Nat, on : Calls \union {None}]

CacheTypes ==
  /\ time \in Nat
  /\ version \in [Keys -> Nat] /\ settled \in [Keys -> Nat]
  /\ entry \in [Keys -> {None} \union [value : Nat, expires : Nat]]
  /\ flight \in [Keys -> Calls \union {None}]
  /\ call \in [Calls -> CallRecord]

\* Nothing settled is newer than the database, nothing cached older than that.
Fresh ==
  \A k \in Keys :
    /\ settled[k] <= version[k]
    /\ Kind(k) = "accounts" /\ entry[k] # None => entry[k].value >= settled[k]

IsLoading(p) == call[p].op = "read" /\ call[p].at \in {"load", "loaded"}

Flights ==
  \A k \in Keys : flight[k] # None => IsLoading(flight[k]) /\ call[flight[k]].key = k

\* A load that may still be stored is the flight of its key, and is not stale.
LoadHolds(p) ==
  LET k == call[p].key IN
  /\ k \in Keys /\ Kind(k) = "accounts"
  /\ call[p].floor <= settled[k]
  /\ ~call[p].fenced => flight[k] = p
  /\ call[p].at = "loaded" =>
       /\ call[p].floor <= call[p].value
       /\ ~call[p].fenced => settled[k] <= call[p].value
Loads == \A p \in Calls : IsLoading(p) => LoadHolds(p)

\* What a read waits for will be new enough for it.
JoinHolds(p) ==
  LET q == call[p].on IN
  /\ q \in Calls /\ call[q].op = "read"
  /\ call[q].at \in {"load", "loaded", "done", "failed"}
  /\ call[q].at = "load" => call[p].floor <= settled[call[q].key]
  /\ call[q].at \in {"loaded", "done"} => call[p].floor <= call[q].value
Joins == \A p \in Calls : call[p].at = "join" => JoinHolds(p)

\* What a call under way is about.
UnderWay ==
  \A p \in Calls :
    /\ call[p].at \in {"entered", "admitted", "load", "loaded", "settle"} =>
         call[p].key \in Keys
    /\ call[p].op = "write" /\ call[p].at = "settle" =>
         call[p].value <= version[call[p].key]

IInv == CacheTypes /\ Fresh /\ Flights /\ Loads /\ Joins /\ UnderWay /\ ReadYourWrites

-------------------------------------------------------------------------------
(* What the steps of the cache do to its entries                               *)

EntryType == [Keys -> {None} \union [value : Nat, expires : Nat]]

\* A read and an invalidation only take entries away.
LEMMA InvalidateKeeps ==
  ASSUME entry \in EntryType, NEW user, Invalidate(user)
  PROVE  /\ entry' \in EntryType
         /\ \A j \in Keys : entry'[j] = (IF Owner(j) = user THEN None ELSE entry[j])
BY DEF Invalidate, EntryType

LEMMA ReadKeeps ==
  ASSUME entry \in EntryType, NEW k \in Keys, Read(k)
  PROVE  /\ entry' \in EntryType
         /\ \A j \in Keys : entry'[j] = None \/ entry'[j] = entry[j]
BY DEF Read, EntryType

\* A store adds the value under its key, and may evict another entry.
LEMMA StoreKeeps ==
  ASSUME entry \in EntryType, time \in Nat,
         NEW k \in Keys, NEW value \in Nat, Store(k, value)
  PROVE  /\ entry' \in EntryType
         /\ \A j \in Keys :
              \/ entry'[j] = None \/ entry'[j] = entry[j]
              \/ j = k /\ entry'[j].value = value
<1> DEFINE new == [value |-> value, expires |-> time + TTL]
<1>1. new \in [value : Nat, expires : Nat] /\ new.value = value
  BY ReadCacheAssumption
<1> HIDE DEF new
<1>2. \A j \in Keys : entry'[j] = None \/ entry'[j] = (IF j = k THEN new ELSE entry[j])
  BY DEF Store, new
<1>3. entry' = [j \in Keys |-> entry'[j]]
  BY DEF Store
<1> QED BY <1>1, <1>2, <1>3 DEF EntryType

-------------------------------------------------------------------------------
THEOREM InitIInv == Init => IInv
<1> SUFFICES ASSUME CacheInit PROVE IInv
  BY DEF Init
<1> USE DEF CacheInit
<1>0. Idle \in CallRecord /\ Idle.at = "idle"
  BY DEF Idle, CallRecord, Steps
<1>1. CacheTypes
  BY <1>0 DEF CacheTypes
<1>2. Fresh /\ Flights
  BY DEF Fresh, Flights
<1>3. \A p \in Calls : call[p].at = "idle"
  BY <1>0
<1>4. Loads /\ Joins /\ UnderWay /\ ReadYourWrites
  BY <1>3 DEF Loads, Joins, UnderWay, ReadYourWrites, IsLoading
<1> QED BY <1>1, <1>2, <1>4 DEF IInv

-------------------------------------------------------------------------------
(* Steps that leave the cache alone                                            *)

LEMMA Quiet ==
  ASSUME IInv, time' \in Nat, UNCHANGED <<version, cache, call, settled>>
  PROVE  IInv'
<1> USE DEF IInv, cache
<1>1. CacheTypes'
  BY DEF CacheTypes
<1>2. Fresh' /\ Flights'
  BY DEF Fresh, Flights, IsLoading
<1>3. Loads'
  BY DEF Loads, LoadHolds, IsLoading
<1>4. Joins' /\ UnderWay' /\ ReadYourWrites'
  BY DEF Joins, JoinHolds, UnderWay, ReadYourWrites
<1> QED BY <1>1, <1>2, <1>3, <1>4

\* A call nobody waits for goes to a step that says nothing about the cache.
LEMMA Parked ==
  ASSUME IInv, NEW p \in Calls, ~IsLoading(p), ~Shared(p),
         NEW rec \in CallRecord, rec.at \in {"idle", "entered", "admitted"},
         rec.at # "idle" => rec.key \in Keys,
         call' = [call EXCEPT ![p] = rec],
         UNCHANGED <<time, version, cache, settled>>
  PROVE  IInv'
<1> USE DEF cache
<1>1. CacheTypes'
  BY DEF CacheTypes, IInv
<1>2. \A q \in Calls : call'[q] = (IF q = p THEN rec ELSE call[q])
  BY DEF IInv, CacheTypes
<1>3. Fresh'
  BY DEF Fresh, IInv
<1>4. Flights'
  BY <1>2 DEF Flights, IsLoading, IInv, CacheTypes
<1>5. Loads'
  BY <1>2 DEF Loads, LoadHolds, IsLoading, IInv
<1>6. Joins'
  <2>1. \A q \in Calls : call[q].at = "join" => call[q].on # p
    BY DEF Shared
  <2> QED BY <1>2, <2>1 DEF Joins, JoinHolds, IInv
<1>7. UnderWay' /\ ReadYourWrites'
  BY <1>2 DEF UnderWay, ReadYourWrites, IInv
<1> QED BY <1>1, <1>3, <1>4, <1>5, <1>6, <1>7 DEF IInv

\* Nobody waits for a call that neither loads nor has just ended.
LEMMA Alone ==
  ASSUME IInv, NEW p \in Calls, call[p].at \in {"idle", "entered", "admitted"}
  PROVE  ~IsLoading(p) /\ ~Shared(p)
<1>1. ~IsLoading(p)
  BY DEF IsLoading
<1>2. ~Shared(p)
  BY DEF Shared, IInv, Joins, JoinHolds
<1> QED BY <1>1, <1>2

-------------------------------------------------------------------------------
(* Steps of reads                                                              *)

LEMMA RememberStep ==
  ASSUME IInv, NEW p \in Calls, NEW k \in Keys, Remember(p, k),
         call[p].at \in {"idle", "entered", "admitted"}
  PROVE  IInv'
<1> DEFINE r == [Started("read", k) EXCEPT !.at = "done", !.value = entry[k].value]
           w == [Started("read", k) EXCEPT !.at = "join", !.on = flight[k]]
           l == [Started("read", k) EXCEPT !.at = "load"]
<1>1. CacheTypes /\ Kind(k) = "accounts" /\ ~IsLoading(p) /\ ~Shared(p)
  BY Alone DEF IInv, Remember
<1>2. /\ entry' \in EntryType
      /\ \A j \in Keys : entry'[j] = None \/ entry'[j] = entry[j]
  BY <1>1, ReadKeeps DEF Remember, CacheTypes, EntryType
<1>3. /\ w \in CallRecord /\ w.op = "read" /\ w.at = "join" /\ w.on = flight[k]
      /\ w.floor = settled[k]
      /\ l \in CallRecord /\ l.op = "read" /\ l.at = "load" /\ l.key = k
      /\ l.floor = settled[k] /\ ~l.fenced
  BY <1>1 DEF Started, Idle, CallRecord, Steps, CacheTypes
<1>4. ASSUME Live(k)
      PROVE  r \in CallRecord /\ r.op = "read" /\ r.at = "done"
             /\ r.value >= settled[k] /\ r.floor = settled[k]
  <2>1. entry[k] \in [value : Nat, expires : Nat] /\ entry[k].value >= settled[k]
    BY <1>1, <1>4 DEF Live, IInv, Fresh, CacheTypes
  <2> QED BY <2>1, <1>1 DEF Started, Idle, CallRecord, Steps, CacheTypes
<1> HIDE DEF r, w, l
<1>5. Fresh'
  BY <1>1, <1>2 DEF Remember, Fresh, IInv
<1>6. CASE Live(k) /\ call' = [call EXCEPT ![p] = r] /\ UNCHANGED flight
  <2>1. \A q \in Calls : call'[q] = (IF q = p THEN r ELSE call[q])
    BY <1>6, <1>1 DEF CacheTypes
  <2>2. CacheTypes'
    BY <1>6, <1>4, <1>1, <1>2 DEF CacheTypes, Remember, EntryType
  <2>3. Flights'
    BY <1>6, <1>1, <2>1 DEF Flights, IsLoading, IInv, CacheTypes
  <2>4. Loads'
    BY <1>6, <1>4, <2>1 DEF Remember, Loads, LoadHolds, IsLoading, IInv
  <2>5. Joins'
    BY <1>6, <1>4, <1>1, <2>1 DEF Remember, Joins, JoinHolds, Shared, IInv
  <2>6. UnderWay' /\ ReadYourWrites'
    BY <1>6, <1>4, <2>1 DEF Remember, UnderWay, ReadYourWrites, IInv
  <2> QED BY <2>2, <2>3, <2>4, <2>5, <2>6, <1>5 DEF IInv
<1>7. CASE Joinable(k) /\ call' = [call EXCEPT ![p] = w] /\ UNCHANGED flight
  <2>1. \A q \in Calls : call'[q] = (IF q = p THEN w ELSE call[q])
    BY <1>7, <1>1 DEF CacheTypes
  <2>2. CacheTypes'
    BY <1>7, <1>3, <1>1, <1>2 DEF CacheTypes, Remember, EntryType
  <2>3. Flights'
    BY <1>7, <1>1, <2>1 DEF Flights, IsLoading, IInv, CacheTypes
  <2>4. Loads'
    BY <1>7, <1>3, <2>1 DEF Remember, Loads, LoadHolds, IsLoading, IInv
  <2>5. Joins'
    <3>1. flight[k] \in Calls /\ flight[k] # p /\ IsLoading(flight[k])
          /\ call[flight[k]].key = k /\ ~call[flight[k]].fenced
      BY <1>7, <1>1 DEF Joinable, IInv, Flights, CacheTypes
    <3>2. call[flight[k]].at = "loaded" => settled[k] <= call[flight[k]].value
      BY <3>1 DEF IInv, Loads, LoadHolds
    <3>3. JoinHolds(p)'
      BY <3>1, <3>2, <1>1, <1>3, <2>1 DEF JoinHolds, IsLoading, Remember, CacheTypes
    <3> QED BY <3>3, <1>7, <1>1, <2>1 DEF Remember, Joins, JoinHolds, Shared, IInv
  <2>6. UnderWay' /\ ReadYourWrites'
    BY <1>7, <1>3, <2>1 DEF Remember, UnderWay, ReadYourWrites, IInv
  <2> QED BY <2>2, <2>3, <2>4, <2>5, <2>6, <1>5 DEF IInv
<1>8. CASE ~Joinable(k) /\ call' = [call EXCEPT ![p] = l]
           /\ flight' = [flight EXCEPT ![k] = p]
  <2>1. \A q \in Calls : call'[q] = (IF q = p THEN l ELSE call[q])
    BY <1>8, <1>1 DEF CacheTypes
  <2>2. \A j \in Keys : flight'[j] = (IF j = k THEN p ELSE flight[j])
    BY <1>8, <1>1 DEF CacheTypes
  <2>3. CacheTypes'
    BY <1>8, <1>3, <1>1, <1>2 DEF CacheTypes, Remember, EntryType
  <2>4. Flights'
    BY <1>3, <1>1, <2>1, <2>2, ReadCacheAssumption DEF Flights, IsLoading, IInv, CacheTypes
  <2>5. Loads'
    <3>1. LoadHolds(p)'
      BY <1>3, <1>1, <2>1, <2>2 DEF Remember, LoadHolds, CacheTypes
    <3>2. ASSUME NEW q \in Calls, q # p, IsLoading(q) PROVE LoadHolds(q)'
      <4>1. LoadHolds(q) /\ call'[q] = call[q]
        BY <3>2, <2>1 DEF IInv, Loads
      <4>2. ~call[q].fenced => call[q].key # k
        BY <4>1, <1>8, <3>2, ReadCacheAssumption DEF LoadHolds, Joinable
      <4>3. ~call[q].fenced => flight'[call[q].key] = q
        BY <4>1, <4>2, <2>2 DEF LoadHolds
      <4> QED BY <4>1, <4>3 DEF LoadHolds, Remember
    <3> QED BY <3>1, <3>2, <2>1 DEF Loads, IsLoading
  <2>6. Joins'
    BY <1>8, <1>3, <1>1, <2>1 DEF Remember, Joins, JoinHolds, Shared, IInv
  <2>7. UnderWay' /\ ReadYourWrites'
    BY <1>8, <1>3, <2>1 DEF Remember, UnderWay, ReadYourWrites, IInv
  <2> QED BY <2>3, <2>4, <2>5, <2>6, <2>7, <1>5 DEF IInv
<1> QED BY <1>6, <1>7, <1>8 DEF Remember, r, w, l

LEMMA QueryStep ==
  ASSUME IInv, NEW p \in Calls, Query(p)
  PROVE  IInv'
<1> DEFINE rec == [call[p] EXCEPT !.at = "loaded", !.value = version[call[p].key]]
<1> USE DEF cache
<1>1. CacheTypes /\ call[p].at = "load" /\ call[p].key \in Keys
  BY DEF IInv, Query, UnderWay
<1>2. /\ rec \in CallRecord /\ rec.op = call[p].op /\ rec.key = call[p].key
      /\ rec.at = "loaded" /\ rec.value = version[call[p].key]
      /\ rec.fenced = call[p].fenced /\ rec.floor = call[p].floor
  BY <1>1 DEF CallRecord, Steps, CacheTypes
<1>3. call' = [call EXCEPT ![p] = rec]
  BY <1>1 DEF Query, CacheTypes, CallRecord
<1> HIDE DEF rec
<1>4. \A q \in Calls : call'[q] = (IF q = p THEN rec ELSE call[q])
  BY <1>1, <1>3 DEF CacheTypes
<1>5. CacheTypes'
  BY <1>1, <1>2, <1>3 DEF CacheTypes, Query
<1>6. Fresh' /\ Flights'
  BY <1>1, <1>2, <1>4 DEF Query, Fresh, Flights, IsLoading, IInv, CacheTypes
<1>7. Loads'
  <2>1. ASSUME IsLoading(p) PROVE LoadHolds(p)'
    <3>1. settled[call[p].key] <= version[call[p].key]
          /\ call[p].floor <= settled[call[p].key]
      BY <2>1, <1>1 DEF IInv, Fresh, Loads, LoadHolds
    <3>2. /\ settled[call[p].key] \in Nat /\ version[call[p].key] \in Nat
          /\ call[p].floor \in Nat
      BY <1>1 DEF CacheTypes, CallRecord
    <3>3. call[p].floor <= version[call[p].key]
      BY <3>1, <3>2
    <3>4. LoadHolds(p)
      BY <2>1 DEF IInv, Loads
    <3> QED BY <3>1, <3>3, <3>4, <1>2, <1>4 DEF LoadHolds, Query
  <2>2. ASSUME NEW q \in Calls, q # p, IsLoading(q) PROVE LoadHolds(q)'
    <3>1. LoadHolds(q) /\ call'[q] = call[q]
      BY <2>2, <1>4 DEF IInv, Loads
    <3> QED BY <3>1 DEF LoadHolds, Query
  <2> QED BY <2>1, <2>2, <1>1, <1>2, <1>4 DEF Loads, IsLoading
<1>8. Joins'
  <2>1. ASSUME NEW q \in Calls, call'[q].at = "join" PROVE JoinHolds(q)'
    <3>1. q # p /\ call'[q] = call[q] /\ JoinHolds(q)
      BY <2>1, <1>2, <1>4 DEF IInv, Joins
    <3>2. CASE call[q].on # p
      BY <3>1, <3>2, <1>4 DEF JoinHolds, Query
    <3>3. CASE call[q].on = p
      <4>1. call[q].floor <= settled[call[p].key] /\ call[p].op = "read"
        BY <3>1, <3>3, <1>1 DEF JoinHolds
      <4>2. settled[call[p].key] <= version[call[p].key]
        BY <1>1 DEF IInv, Fresh
      <4>3. /\ settled[call[p].key] \in Nat /\ version[call[p].key] \in Nat
            /\ call[q].floor \in Nat
        BY <1>1 DEF CacheTypes, CallRecord
      <4>4. call[q].floor <= version[call[p].key]
        BY <4>1, <4>2, <4>3
      <4> QED BY <4>1, <4>4, <3>1, <3>3, <1>2, <1>4 DEF JoinHolds
    <3> QED BY <3>2, <3>3
  <2> QED BY <2>1 DEF Joins
<1>9. UnderWay' /\ ReadYourWrites'
  <2>1. UnderWay'
    BY <1>1, <1>2, <1>4 DEF UnderWay, Query, IInv
  <2>2. ReadYourWrites'
    BY <1>1, <1>2, <1>4 DEF ReadYourWrites, Query, IInv
  <2> QED BY <2>1, <2>2
<1> QED BY <1>5, <1>6, <1>7, <1>8, <1>9 DEF IInv

LEMMA LoadStep ==
  ASSUME IInv, NEW p \in Calls, Load(p)
  PROVE  IInv'
<1> DEFINE rec == [call[p] EXCEPT !.at = "done", !.fenced = FALSE]
           k == call[p].key
<1>1. CacheTypes /\ IsLoading(p) /\ call[p].at = "loaded" /\ k \in Keys
  BY DEF IInv, Load, UnderWay, IsLoading
<1>2. /\ rec \in CallRecord /\ rec.op = "read" /\ rec.key = k /\ rec.at = "done"
      /\ rec.value = call[p].value /\ rec.floor = call[p].floor
  BY <1>1 DEF CallRecord, Steps, CacheTypes, Load
<1>3. call' = [call EXCEPT ![p] = rec]
  BY <1>1 DEF Load, CacheTypes, CallRecord
<1> HIDE DEF rec
<1>4. \A q \in Calls : call'[q] = (IF q = p THEN rec ELSE call[q])
  BY <1>1, <1>3 DEF CacheTypes
<1>5. \A j \in Keys : flight'[j] = (IF flight[j] = p THEN None ELSE flight[j])
  BY DEF Load, Landed
<1>6. /\ call[p].floor <= call[p].value
      /\ ~call[p].fenced => settled[k] <= call[p].value
      /\ call[p].value \in Nat /\ settled[k] \in Nat
  BY <1>1 DEF IInv, Loads, LoadHolds, CacheTypes, CallRecord
<1>7. /\ entry' \in EntryType
      /\ \A j \in Keys :
           \/ entry'[j] = None \/ entry'[j] = entry[j]
           \/ j = k /\ entry'[j].value = call[p].value /\ ~call[p].fenced
  <2>1. CASE call[p].fenced
    BY <2>1, <1>1 DEF Load, CacheTypes, EntryType
  <2>2. CASE ~call[p].fenced
    <3>1. Store(k, call[p].value)
      BY <2>2 DEF Load
    <3>2. entry \in EntryType /\ time \in Nat
      BY <1>1 DEF CacheTypes, EntryType
    <3>3. /\ entry' \in EntryType
          /\ \A j \in Keys :
               \/ entry'[j] = None \/ entry'[j] = entry[j]
               \/ j = k /\ entry'[j].value = call[p].value
      BY <3>1, <3>2, <1>1, <1>6, StoreKeeps
    <3> QED BY <3>3, <2>2
  <2> QED BY <2>1, <2>2
<1>8. CacheTypes'
  <2>1. flight' \in [Keys -> Calls \union {None}]
    BY <1>1 DEF Load, Landed, CacheTypes
  <2> QED BY <2>1, <1>1, <1>2, <1>3, <1>7 DEF CacheTypes, Load, EntryType
<1>9. Fresh'
  BY <1>6, <1>7 DEF Fresh, Load, IInv
<1>10. Flights'
  BY <1>1, <1>4, <1>5, ReadCacheAssumption DEF Flights, IsLoading, IInv, CacheTypes
<1>11. Loads'
  <2>1. ASSUME NEW q \in Calls, IsLoading(q)' PROVE LoadHolds(q)'
    <3>1. q # p /\ call'[q] = call[q] /\ LoadHolds(q)
      BY <2>1, <1>2, <1>4 DEF IInv, Loads, IsLoading
    <3>2. UNCHANGED settled /\ (~call[q].fenced => flight'[call[q].key] = q)
      BY <3>1, <1>5 DEF LoadHolds, Load
    <3> QED BY <3>1, <3>2 DEF LoadHolds
  <2> QED BY <2>1 DEF Loads
<1>12. Joins'
  <2>1. ASSUME NEW q \in Calls, call'[q].at = "join" PROVE JoinHolds(q)'
    <3>1. q # p /\ call'[q] = call[q] /\ JoinHolds(q)
      BY <2>1, <1>2, <1>4 DEF IInv, Joins
    <3> QED BY <3>1, <1>1, <1>2, <1>4 DEF JoinHolds, Load
  <2> QED BY <2>1 DEF Joins
<1>13. UnderWay' /\ ReadYourWrites'
  <2>1. UnderWay'
    BY <1>1, <1>2, <1>4, <1>6 DEF UnderWay, Load, IInv
  <2>2. ReadYourWrites'
    BY <1>1, <1>2, <1>4, <1>6 DEF ReadYourWrites, Load, IInv
  <2> QED BY <2>1, <2>2
<1> QED BY <1>8, <1>9, <1>10, <1>11, <1>12, <1>13 DEF IInv

LEMMA LoadFailsStep ==
  ASSUME IInv, NEW p \in Calls, LoadFails(p)
  PROVE  IInv'
<1> DEFINE rec == [Idle EXCEPT !.at = "failed"]
<1>1. CacheTypes /\ call[p].at = "load"
  BY DEF IInv, LoadFails
<1>2. rec \in CallRecord /\ rec.op = "read" /\ rec.at = "failed"
  BY DEF CallRecord, Steps, Idle
<1>3. call' = [call EXCEPT ![p] = rec]
  BY DEF LoadFails, Ends
<1> HIDE DEF rec
<1>4. \A q \in Calls : call'[q] = (IF q = p THEN rec ELSE call[q])
  BY <1>1, <1>3 DEF CacheTypes
<1>5. \A j \in Keys : flight'[j] = (IF flight[j] = p THEN None ELSE flight[j])
  BY DEF LoadFails, Landed
<1>6. CacheTypes' /\ Fresh'
  <2>1. flight' \in [Keys -> Calls \union {None}]
    BY <1>1 DEF LoadFails, Landed, CacheTypes
  <2> QED BY <2>1, <1>1, <1>2, <1>3 DEF CacheTypes, Fresh, LoadFails, IInv
<1>7. Flights'
  BY <1>1, <1>4, <1>5, ReadCacheAssumption DEF Flights, IsLoading, IInv, CacheTypes
<1>8. Loads'
  <2>1. ASSUME NEW q \in Calls, IsLoading(q)' PROVE LoadHolds(q)'
    <3>1. q # p /\ call'[q] = call[q] /\ LoadHolds(q)
      BY <2>1, <1>2, <1>4 DEF IInv, Loads, IsLoading
    <3>2. UNCHANGED settled /\ (~call[q].fenced => flight'[call[q].key] = q)
      BY <3>1, <1>5 DEF LoadHolds, LoadFails
    <3> QED BY <3>1, <3>2 DEF LoadHolds
  <2> QED BY <2>1 DEF Loads
<1>9. Joins'
  <2>1. ASSUME NEW q \in Calls, call'[q].at = "join" PROVE JoinHolds(q)'
    <3>1. q # p /\ call'[q] = call[q] /\ JoinHolds(q)
      BY <2>1, <1>2, <1>4 DEF IInv, Joins
    <3> QED BY <3>1, <1>1, <1>2, <1>4 DEF JoinHolds, LoadFails
  <2> QED BY <2>1 DEF Joins
<1>10. UnderWay' /\ ReadYourWrites'
  BY <1>1, <1>2, <1>4 DEF UnderWay, ReadYourWrites, LoadFails, IInv
<1> QED BY <1>6, <1>7, <1>8, <1>9, <1>10 DEF IInv

LEMMA ShareStep ==
  ASSUME IInv, NEW p \in Calls, Share(p)
  PROVE  IInv'
<1> DEFINE on == call[p].on
           rec == [call[p] EXCEPT !.at = call[on].at, !.on = None, !.value = call[on].value]
<1> USE DEF cache
<1>1. /\ CacheTypes /\ call[p].at = "join" /\ on \in Calls
      /\ call[on].at \in {"done", "failed"}
      /\ call[on].at = "done" => call[p].floor <= call[on].value
  BY DEF IInv, Share, Joins, JoinHolds
<1>2. /\ rec \in CallRecord /\ rec.at = call[on].at
      /\ rec.value = call[on].value /\ rec.floor = call[p].floor
  BY <1>1 DEF CallRecord, Steps, CacheTypes
<1>3. call' = [call EXCEPT ![p] = rec]
  BY <1>1 DEF Share, CacheTypes, CallRecord
<1> HIDE DEF rec
<1>4. \A q \in Calls : call'[q] = (IF q = p THEN rec ELSE call[q])
  BY <1>1, <1>3 DEF CacheTypes
<1>5. CacheTypes' /\ Fresh'
  <2>1. CacheTypes'
    BY <1>1, <1>2, <1>3 DEF CacheTypes, Share
  <2>2. Fresh'
    BY <1>1 DEF CacheTypes, Fresh, Share, IInv
  <2> QED BY <2>1, <2>2
<1>6. Flights'
  BY <1>1, <1>4 DEF Flights, IsLoading, IInv, CacheTypes, Share
<1>7. Loads'
  <2>1. ASSUME NEW q \in Calls, IsLoading(q)' PROVE LoadHolds(q)'
    <3>1. q # p /\ call'[q] = call[q] /\ LoadHolds(q)
      BY <2>1, <1>1, <1>2, <1>4 DEF IInv, Loads, IsLoading
    <3> QED BY <3>1 DEF LoadHolds, Share
  <2> QED BY <2>1 DEF Loads
<1>8. Joins'
  <2>1. ASSUME NEW q \in Calls, call'[q].at = "join" PROVE JoinHolds(q)'
    <3>1. q # p /\ call'[q] = call[q] /\ JoinHolds(q)
      BY <2>1, <1>1, <1>2, <1>4 DEF IInv, Joins
    <3> QED BY <3>1, <1>1, <1>4 DEF JoinHolds, Share
  <2> QED BY <2>1 DEF Joins
<1>9. UnderWay' /\ ReadYourWrites'
  BY <1>1, <1>2, <1>4 DEF UnderWay, ReadYourWrites, Share, IInv, CacheTypes, CallRecord
<1> QED BY <1>5, <1>6, <1>7, <1>8, <1>9 DEF IInv

-------------------------------------------------------------------------------
(* Steps of writes                                                             *)

LEMMA CommitStep ==
  ASSUME IInv, NEW p \in Calls, NEW k \in Keys, Commit(p, k)
  PROVE  IInv'
<1> DEFINE rec == [Idle EXCEPT !.op = "write", !.key = k, !.at = "settle",
                               !.value = version'[k]]
<1> USE DEF cache
<1>1. CacheTypes /\ ~IsLoading(p) /\ ~Shared(p)
  BY Alone DEF IInv, Commit
<1>2. /\ version' \in [Keys -> Nat]
      /\ \A j \in Keys : version[j] <= version'[j]
  BY <1>1 DEF Commit, CacheTypes
<1>3. /\ rec \in CallRecord /\ rec.op = "write" /\ rec.at = "settle" /\ rec.key = k
      /\ rec.value = version'[k]
  BY <1>2 DEF CallRecord, Steps, Idle
<1>4. call' = [call EXCEPT ![p] = rec]
  BY DEF Commit
<1> HIDE DEF rec
<1>5. \A q \in Calls : call'[q] = (IF q = p THEN rec ELSE call[q])
  BY <1>1, <1>4 DEF CacheTypes
<1>6. CacheTypes'
  BY <1>1, <1>2, <1>3, <1>4 DEF CacheTypes, Commit
<1>7. Fresh'
  <2>1. \A j \in Keys : settled[j] <= version[j] /\ settled[j] \in Nat
                        /\ version[j] \in Nat /\ version'[j] \in Nat
    BY <1>1, <1>2 DEF IInv, Fresh, CacheTypes
  <2>2. \A j \in Keys : settled[j] <= version'[j]
    BY <2>1, <1>2
  <2> QED BY <2>2 DEF Fresh, IInv, Commit
<1>8. Flights'
  BY <1>1, <1>5 DEF Flights, IsLoading, IInv, CacheTypes, Commit
<1>9. Loads'
  <2>1. ASSUME NEW q \in Calls, IsLoading(q)' PROVE LoadHolds(q)'
    <3>1. q # p /\ call'[q] = call[q] /\ LoadHolds(q)
      BY <2>1, <1>3, <1>5 DEF IInv, Loads, IsLoading
    <3> QED BY <3>1 DEF LoadHolds, Commit
  <2> QED BY <2>1 DEF Loads
<1>10. Joins'
  <2>1. ASSUME NEW q \in Calls, call'[q].at = "join" PROVE JoinHolds(q)'
    <3>1. q # p /\ call'[q] = call[q] /\ JoinHolds(q) /\ call[q].on # p
      BY <2>1, <1>1, <1>3, <1>5 DEF IInv, Joins, Shared
    <3> QED BY <3>1, <1>5 DEF JoinHolds, Commit
  <2> QED BY <2>1 DEF Joins
<1>11. UnderWay' /\ ReadYourWrites'
  <2>1. ASSUME NEW q \in Calls, call'[q].op = "write", call'[q].at = "settle"
        PROVE  call'[q].value <= version'[call'[q].key]
    <3>1. CASE q = p
      BY <3>1, <1>2, <1>3, <1>5
    <3>2. CASE q # p
      <4>1. /\ call'[q] = call[q] /\ call[q].key \in Keys
            /\ call[q].value <= version[call[q].key]
            /\ call[q].value \in Nat
        BY <3>2, <2>1, <1>1, <1>5 DEF IInv, UnderWay, CacheTypes, CallRecord
      <4> QED BY <4>1, <1>1, <1>2 DEF CacheTypes
    <3> QED BY <3>1, <3>2
  <2> QED BY <2>1, <1>3, <1>5 DEF UnderWay, ReadYourWrites, Commit, IInv
<1> QED BY <1>6, <1>7, <1>8, <1>9, <1>10, <1>11 DEF IInv

\* A write settles: its owner's entries go, and the loads in flight are fenced.
LEMMA SettleStep ==
  ASSUME IInv, NEW p \in Calls, Settle(p)
  PROVE  IInv'
<1> DEFINE k == call[p].key
           user == Owner(k)
           gone == {j \in Keys : Owner(j) = user}
           Fenced(q) == [call[q] EXCEPT !.fenced = TRUE]
<1>1. /\ CacheTypes /\ call[p].op = "write" /\ call[p].at = "settle" /\ k \in Keys
      /\ k \in gone /\ call[p].value <= version[k] /\ call[p].value \in Nat
      /\ ~IsLoading(p)
  BY DEF IInv, Settle, UnderWay, CacheTypes, CallRecord, IsLoading
<1>2. ~Shared(p)
  BY <1>1 DEF Shared, IInv, Joins, JoinHolds
<1>3. /\ entry' \in EntryType
      /\ \A j \in Keys : entry'[j] = (IF j \in gone THEN None ELSE entry[j])
  <2>1. Invalidate(user) /\ entry \in EntryType
    BY <1>1 DEF Settle, CacheTypes, EntryType
  <2> QED BY <2>1, InvalidateKeeps
<1>4. \A j \in Keys : settled'[j] = (IF j = k /\ settled[k] < call[p].value
                                     THEN call[p].value ELSE settled[j])
  BY <1>1 DEF Settle, CacheTypes
<1>5. settled' \in [Keys -> Nat] /\ \A j \in Keys : settled'[j] <= version[j]
                                                    /\ settled[j] <= settled'[j]
  <2>1. \A j \in Keys : settled[j] \in Nat /\ settled[j] <= version[j]
    BY <1>1 DEF IInv, Fresh, CacheTypes
  <2>2. \A j \in Keys : settled'[j] \in Nat /\ settled'[j] <= version[j]
                        /\ settled[j] <= settled'[j]
    BY <2>1, <1>1, <1>4
  <2> QED BY <2>2, <1>1 DEF Settle, CacheTypes
<1>6. \A q \in Calls : /\ Fenced(q) \in CallRecord /\ Fenced(q).fenced
                       /\ Fenced(q).op = call[q].op /\ Fenced(q).key = call[q].key
                       /\ Fenced(q).at = call[q].at /\ Fenced(q).value = call[q].value
                       /\ Fenced(q).floor = call[q].floor /\ Fenced(q).on = call[q].on
  BY <1>1 DEF CacheTypes, CallRecord
<1>7. Idle \in CallRecord /\ Idle.at = "idle" /\ Idle.op = "read"
  BY DEF Idle, CallRecord, Steps
<1>8. call' = [q \in Calls |-> IF q = p THEN Idle
                 ELSE IF q \in InFlight(user) THEN Fenced(q) ELSE call[q]]
  BY DEF Settle
<1> HIDE DEF Fenced
<1>9. CacheTypes'
  <2>1. call' \in [Calls -> CallRecord]
    BY <1>1, <1>6, <1>7, <1>8 DEF CacheTypes
  <2> QED BY <2>1, <1>1, <1>3, <1>5 DEF CacheTypes, Settle, EntryType
\* What a step by another call is about is as it was, but for the fence.
<1>10. \A q \in Calls : q # p =>
         /\ call'[q].op = call[q].op /\ call'[q].key = call[q].key
         /\ call'[q].at = call[q].at /\ call'[q].value = call[q].value
         /\ call'[q].floor = call[q].floor /\ call'[q].on = call[q].on
         /\ call[q].fenced => call'[q].fenced
         /\ q \in InFlight(user) => call'[q].fenced
  BY <1>6, <1>8
<1>11. Fresh'
  BY <1>3, <1>4, <1>5, <1>1 DEF Fresh, Settle, IInv, CacheTypes
<1>12. Flights'
  BY <1>1, <1>10 DEF Flights, IsLoading, IInv, CacheTypes, Settle
<1>13. Loads'
  <2>1. ASSUME NEW q \in Calls, IsLoading(q)' PROVE LoadHolds(q)'
    <3>1. q # p
      BY <2>1, <1>7, <1>8 DEF IsLoading
    <3>2. IsLoading(q) /\ LoadHolds(q)
      BY <3>1, <2>1, <1>10 DEF IInv, Loads, IsLoading
    <3> DEFINE j == call[q].key
    <3>3. j \in Keys /\ Kind(j) = "accounts" /\ call[q].floor <= settled[j]
          /\ call[q].floor \in Nat /\ settled[j] \in Nat /\ settled'[j] \in Nat
      BY <3>2, <1>1, <1>5 DEF LoadHolds, CacheTypes, CallRecord
    <3>4. call[q].floor <= settled'[j]
      BY <3>3, <1>5
    <3>5. CASE j \in gone
      <4>1. ~call[q].fenced => flight[j] = q /\ q \in InFlight(user)
        BY <3>2, <3>3, <3>5, ReadCacheAssumption DEF LoadHolds, InFlight
      <4>2. call'[q].fenced
        BY <4>1, <3>1, <1>10, <1>9, <1>1 DEF CacheTypes, CallRecord
      <4> QED BY <4>2, <3>1, <3>2, <3>3, <3>4, <1>10 DEF LoadHolds
    <3>6. CASE j \notin gone
      <4>1. settled'[j] = settled[j]
        BY <3>3, <3>6, <1>1, <1>4
      <4>2. ~call'[q].fenced => ~call[q].fenced
        BY <3>1, <1>10
      <4>3. /\ ~call'[q].fenced => flight'[j] = q
            /\ call'[q].at = "loaded" =>
                 /\ call'[q].floor <= call'[q].value
                 /\ ~call'[q].fenced => settled'[j] <= call'[q].value
        BY <4>1, <4>2, <3>1, <3>2, <1>10 DEF LoadHolds, Settle
      <4> QED BY <4>3, <3>1, <3>3, <3>4, <1>10 DEF LoadHolds
    <3> QED BY <3>5, <3>6
  <2> QED BY <2>1 DEF Loads
<1>14. Joins'
  <2>1. ASSUME NEW q \in Calls, call'[q].at = "join" PROVE JoinHolds(q)'
    <3> DEFINE on == call[q].on
    <3>1. q # p /\ JoinHolds(q) /\ call'[q].floor = call[q].floor /\ call'[q].on = on
      BY <2>1, <1>7, <1>8, <1>10 DEF IInv, Joins
    <3>2. on \in Calls /\ on # p
      BY <3>1, <2>1, <1>1, <1>2, <1>10 DEF JoinHolds, Shared
    <3>3. /\ call'[on].op = call[on].op /\ call'[on].at = call[on].at
          /\ call'[on].key = call[on].key /\ call'[on].value = call[on].value
      BY <3>2, <1>10
    <3>4. call[on].at = "load" => call[q].floor <= settled'[call[on].key]
      <4> SUFFICES ASSUME call[on].at = "load"
                   PROVE  call[q].floor <= settled'[call[on].key]
        OBVIOUS
      <4>1. call[on].key \in Keys /\ call[q].floor \in Nat
            /\ call[q].floor <= settled[call[on].key]
        BY <3>1, <3>2, <1>1 DEF JoinHolds, IInv, UnderWay, CacheTypes, CallRecord
      <4> QED BY <4>1, <1>1, <1>5 DEF CacheTypes
    <3> QED BY <3>1, <3>2, <3>3, <3>4 DEF JoinHolds
  <2> QED BY <2>1 DEF Joins
<1>15. UnderWay' /\ ReadYourWrites'
  BY <1>1, <1>7, <1>8, <1>10 DEF UnderWay, ReadYourWrites, Settle, IInv
<1> QED BY <1>9, <1>11, <1>12, <1>13, <1>14, <1>15 DEF IInv

-------------------------------------------------------------------------------
(* The whole process                                                           *)

LEMMA FinishStep ==
  ASSUME IInv, NEW p \in Calls, Finish(p)
  PROVE  IInv'
BY QueryStep, LoadStep, LoadFailsStep, ShareStep, SettleStep DEF Finish

LEMMA ReturnStep ==
  ASSUME IInv, NEW p \in Calls, Return(p)
  PROVE  IInv'
<1>1. ~IsLoading(p) /\ ~Shared(p)
  BY DEF Return, IsLoading
<1>2. [Idle EXCEPT !.at = "idle"] \in CallRecord
      /\ [Idle EXCEPT !.at = "idle"].at = "idle"
  BY DEF Idle, CallRecord, Steps
<1> QED BY <1>1, <1>2, Parked DEF Return, Ends

\* A chat is counted, then admitted or sent away: it reads nothing yet.
LEMMA GateStep ==
  ASSUME IInv, NEW p \in Calls, (\E u \in Users : Enter(p, u)) \/ Admit(p)
  PROVE  IInv'
<1>1. CASE \E u \in Users : Enter(p, u)
  <2>1. PICK u \in Users : Enter(p, u)
    BY <1>1
  <2>2. UNCHANGED <<version, cache, settled>> /\ time' = time /\ call[p].at = "idle"
    BY <2>1 DEF Enter, G!Consume
  <2> DEFINE rec == [Idle EXCEPT !.key = <<"accounts", u>>, !.at = "entered"]
  <2>3. rec \in CallRecord /\ rec.at = "entered" /\ rec.key \in Keys
    BY DEF Idle, CallRecord, Steps, Keys
  <2> HIDE DEF rec
  <2>4. UNCHANGED call \/ call' = [call EXCEPT ![p] = rec]
    BY <2>1 DEF Enter, rec
  <2>5. time' \in Nat
    BY <2>2 DEF IInv, CacheTypes
  <2>6. CASE UNCHANGED call
    BY <2>2, <2>5, <2>6, Quiet
  <2>7. CASE call' = [call EXCEPT ![p] = rec]
    <3>1. ~IsLoading(p) /\ ~Shared(p)
      BY <2>2, Alone
    <3> QED BY <3>1, <2>2, <2>3, <2>7, Parked
  <2> QED BY <2>4, <2>6, <2>7
<1>2. CASE Admit(p)
  <2>1. UNCHANGED <<time, version, cache, settled>> /\ call[p].at = "entered"
    BY <1>2 DEF Admit, G!Acquire
  <2>2. ~IsLoading(p) /\ ~Shared(p)
    BY <2>1, Alone
  <2> DEFINE in == [call[p] EXCEPT !.at = "admitted"]
             out == [Idle EXCEPT !.at = "idle"]
  <2>3. /\ in \in CallRecord /\ in.at = "admitted" /\ in.key \in Keys
        /\ out \in CallRecord /\ out.at = "idle"
    BY <2>1 DEF Idle, CallRecord, Steps, IInv, CacheTypes, UnderWay
  <2>4. call' = [call EXCEPT ![p] = in] \/ call' = [call EXCEPT ![p] = out]
    BY <1>2 DEF Admit, Ends, IInv, CacheTypes
  <2> HIDE DEF in, out
  <2> QED BY <2>1, <2>2, <2>3, <2>4, Parked
<1> QED BY <1>1, <1>2

THEOREM NextIInv == IInv /\ [Next]_vars => IInv'
<1> SUFFICES ASSUME IInv, [Next]_vars PROVE IInv'
  OBVIOUS
<1>1. CASE UNCHANGED vars
  <2>1. time' \in Nat /\ UNCHANGED <<version, cache, call, settled>>
    BY <1>1 DEF vars, cacheVars, IInv, CacheTypes
  <2> QED BY <2>1, Quiet
<1>2. CASE Pass
  <2>1. time' \in Nat /\ UNCHANGED <<version, cache, call, settled>>
    BY <1>2 DEF Pass, Tick, IInv, CacheTypes
  <2> QED BY <2>1, Quiet
<1>3. ASSUME NEW p \in Calls, (\E u \in Users : Enter(p, u)) \/ Admit(p) PROVE IInv'
  BY <1>3, GateStep
<1>4. ASSUME NEW p \in Calls, NEW k \in Keys, View(p, k) PROVE IInv'
  BY <1>4, RememberStep DEF View
<1>5. ASSUME NEW p \in Calls, NEW k \in Keys, Write(p, k) PROVE IInv'
  BY <1>5, CommitStep DEF Write
<1>6. ASSUME NEW p \in Calls, Ask(p) PROVE IInv'
  <2>1. PICK k \in Keys : k = call[p].key
    BY <1>6 DEF Ask, IInv, UnderWay
  <2> QED BY <1>6, <2>1, RememberStep DEF Ask
<1>7. ASSUME NEW p \in Calls, Run(p) PROVE IInv'
  BY <1>7, FinishStep DEF Run
<1>8. ASSUME NEW p \in Calls, Leave(p) PROVE IInv'
  BY <1>8, ReturnStep DEF Leave
<1> QED BY <1>1, <1>2, <1>3, <1>4, <1>5, <1>6, <1>7, <1>8 DEF Next

\* The inductive invariant holds throughout.
THEOREM Inductive == Spec => []IInv
<1> QED BY InitIInv, NextIInv, PTL DEF Spec

\* A read that starts after a write of this process has settled sees it, from
\* the cache, from a load it joined or from its own: for any number of users,
\* calls and entries, whatever the TTL, the limits and the interleaving
\* (cache.ts:88-137).
THEOREM ReadsSeeWrites == Spec => []ReadYourWrites
<1>1. IInv => ReadYourWrites
  BY DEF IInv
<1> QED BY <1>1, Inductive, PTL

\* No two loads of a key that may both still be stored (cache.ts:96-122).
THEOREM OneFlight == Spec => []SingleFlight
<1>1. IInv => SingleFlight
  <2> SUFFICES ASSUME IInv, NEW p \in Calls, NEW q \in Calls,
                      {call[p].op, call[q].op} = {"read"}, call[p].key = call[q].key,
                      {call[p].at, call[q].at} \subseteq {"load", "loaded"},
                      ~call[p].fenced, ~call[q].fenced
               PROVE  p = q
    BY DEF SingleFlight
  <2>1. IsLoading(p) /\ IsLoading(q)
    BY DEF IsLoading
  <2> QED BY <2>1 DEF IInv, Loads, LoadHolds
<1> QED BY <1>1, Inductive, PTL

-------------------------------------------------------------------------------
(* The leases of the admission                                                 *)

HeldBy(o) == {r \in Calls : lease[r] = o}
Held == {r \in Calls : lease[r] # None}

GateInv ==
  /\ lease \in [Calls -> Users \union {None}]
  /\ running \in [Users -> Nat] /\ total \in Nat /\ remembered \subseteq Users
  /\ LeasesCounted

\* A request that takes a lease enters the held ones and its owner's.
LEMMA AcquireStep ==
  ASSUME GateInv, NEW p \in Calls, NEW u \in Users, G!Acquire(p, u)
  PROVE  GateInv'
<1>1. /\ lease \in [Calls -> Users \union {None}] /\ lease[p] = None
      /\ running \in [Users -> Nat] /\ total \in Nat /\ remembered \subseteq Users
      /\ u # None /\ IsFiniteSet(Calls)
  BY ReadCacheAssumption DEF GateInv, G!Acquire
<1>2. /\ total = Cardinality(Held) /\ total <= TotalLimit
      /\ \A o \in Users : /\ running[o] = Cardinality(HeldBy(o))
                          /\ running[o] <= OwnerLimit
                          /\ running[o] > 0 => o \in remembered
  BY DEF GateInv, LeasesCounted, Held, HeldBy
<1>3. \A o \in Users : running[o] > 0 => o \in G!Kept
  BY <1>2 DEF G!Kept
<1>4. G!Kept \subseteq Users
  BY <1>1 DEF G!Kept
<1>5. CASE ~G!Admissible(u)
  <2>1. /\ remembered' = G!Kept /\ UNCHANGED <<running, total, lease>>
    BY <1>5 DEF G!Acquire
  <2>2. LeasesCounted'
    BY <2>1, <1>2, <1>3 DEF LeasesCounted, Held, HeldBy
  <2> QED BY <2>1, <2>2, <1>1, <1>4 DEF GateInv
<1>6. CASE G!Admissible(u)
  <2>1. /\ remembered' = G!Kept \union {u} /\ total' = total + 1
        /\ running' = [running EXCEPT ![u] = @ + 1]
        /\ lease' = [lease EXCEPT ![p] = u]
        /\ total < TotalLimit /\ running[u] < OwnerLimit
    BY <1>6 DEF G!Acquire, G!Admissible
  <2>2. /\ IsFiniteSet(Held) /\ p \notin Held
        /\ \A o \in Users : IsFiniteSet(HeldBy(o)) /\ p \notin HeldBy(o)
    BY <1>1, FS_Subset, ReadCacheAssumption DEF Held, HeldBy
  <2>0. \A r \in Calls : lease'[r] = (IF r = p THEN u ELSE lease[r])
    BY <1>1, <2>1
  <2>3. /\ Held' = Held \union {p} /\ {r \in Calls : lease'[r] = u} = HeldBy(u) \union {p}
        /\ \A o \in Users : o # u => HeldBy(o)' = HeldBy(o)
    <3>1. Held' = Held \union {p}
      BY <1>1, <2>0 DEF Held
    <3>2. {r \in Calls : lease'[r] = u} = HeldBy(u) \union {p}
      BY <1>1, <2>0 DEF HeldBy
    <3>3. ASSUME NEW o \in Users, o # u PROVE HeldBy(o)' = HeldBy(o)
      BY <1>1, <2>0, <3>3, ReadCacheAssumption DEF HeldBy
    <3> QED BY <3>1, <3>2, <3>3
  <2>4. /\ Cardinality(Held') = total + 1
        /\ Cardinality({r \in Calls : lease'[r] = u}) = running[u] + 1
    BY <2>2, <2>3, <1>2, FS_AddElement
  <2>5. \A o \in Users : running'[o] = (IF o = u THEN running[u] + 1 ELSE running[o])
    BY <1>1, <2>1
  <2>6. total' <= TotalLimit
    BY <2>1, <1>1, WebProcessAssumption
  <2>7. \A o \in Users : running'[o] = Cardinality({r \in Calls : lease'[r] = o})
    <3>1. ASSUME NEW o \in Users, o # u
          PROVE  running'[o] = Cardinality({r \in Calls : lease'[r] = o})
      BY <3>1, <2>3, <2>5, <1>2 DEF HeldBy
    <3> QED BY <3>1, <2>4, <2>5
  <2>8. \A o \in Users : running'[o] <= OwnerLimit
    BY <2>5, <2>1, <1>1, <1>2, WebProcessAssumption
  <2>9. \A o \in Users : running'[o] > 0 => o \in remembered'
    BY <2>5, <2>1, <1>3
  <2>10. LeasesCounted'
    BY <2>1, <2>4, <2>6, <2>7, <2>8, <2>9 DEF LeasesCounted, Held, HeldBy
  <2> QED BY <2>1, <2>10, <1>1, <1>4 DEF GateInv
<1> QED BY <1>5, <1>6

\* A released lease leaves both counts: neither can fall below zero.
LEMMA ReleaseStep ==
  ASSUME GateInv, NEW p \in Calls, G!Release(p)
  PROVE  GateInv'
<1> DEFINE u == lease[p]
<1>1. /\ lease \in [Calls -> Users \union {None}] /\ u \in Users
      /\ running \in [Users -> Nat] /\ total \in Nat /\ remembered \subseteq Users
      /\ None \notin Users /\ IsFiniteSet(Calls)
  BY ReadCacheAssumption DEF GateInv, G!Release
<1>2. /\ total = Cardinality(Held) /\ total <= TotalLimit
      /\ \A o \in Users : /\ running[o] = Cardinality(HeldBy(o))
                          /\ running[o] <= OwnerLimit
                          /\ running[o] > 0 => o \in remembered
  BY DEF GateInv, LeasesCounted, Held, HeldBy
<1>3. /\ total' = total - 1 /\ running' = [running EXCEPT ![u] = @ - 1]
      /\ lease' = [lease EXCEPT ![p] = None] /\ UNCHANGED remembered
  BY DEF G!Release
<1>4. /\ IsFiniteSet(Held) /\ p \in Held /\ IsFiniteSet(HeldBy(u)) /\ p \in HeldBy(u)
  BY <1>1, FS_Subset DEF Held, HeldBy
<1>5. /\ Held' = Held \ {p}
      /\ {r \in Calls : lease'[r] = u} = HeldBy(u) \ {p}
      /\ \A o \in Users : o # u => HeldBy(o)' = HeldBy(o)
  <2>0. \A r \in Calls : lease'[r] = (IF r = p THEN None ELSE lease[r])
    BY <1>1, <1>3
  <2>1. Held' = Held \ {p}
    BY <1>1, <2>0 DEF Held
  <2>2. {r \in Calls : lease'[r] = u} = HeldBy(u) \ {p}
    BY <1>1, <2>0 DEF HeldBy
  <2>3. ASSUME NEW o \in Users, o # u PROVE HeldBy(o)' = HeldBy(o)
    BY <1>1, <2>0, <2>3 DEF HeldBy
  <2> QED BY <2>1, <2>2, <2>3
<1>6. /\ Cardinality(Held') = total - 1
      /\ Cardinality({r \in Calls : lease'[r] = u}) = running[u] - 1
      /\ Cardinality(Held') \in Nat
      /\ Cardinality({r \in Calls : lease'[r] = u}) \in Nat
  <2>1. /\ Cardinality(Held \ {p}) = Cardinality(Held) - 1
        /\ Cardinality(HeldBy(u) \ {p}) = Cardinality(HeldBy(u)) - 1
    BY <1>4, FS_RemoveElement
  <2>2. /\ IsFiniteSet(Held \ {p}) /\ IsFiniteSet(HeldBy(u) \ {p})
    BY <1>4, FS_RemoveElement
  <2>3. /\ Cardinality(Held \ {p}) \in Nat /\ Cardinality(HeldBy(u) \ {p}) \in Nat
    BY <2>2, FS_CardinalityType
  <2>4. Cardinality(Held) = total /\ Cardinality(HeldBy(u)) = running[u]
    BY <1>1, <1>2
  <2> QED BY <2>1, <2>3, <2>4, <1>5
<1>7. \A o \in Users : running'[o] = (IF o = u THEN running[u] - 1 ELSE running[o])
  BY <1>1, <1>3
<1>8. \A o \in Users : running'[o] \in Nat
  BY <1>1, <1>6, <1>7
<1>9. total' <= TotalLimit /\ total' \in Nat
  BY <1>1, <1>2, <1>3, <1>6, WebProcessAssumption
<1>10. \A o \in Users : running'[o] = Cardinality({r \in Calls : lease'[r] = o})
  <2>1. ASSUME NEW o \in Users, o # u
        PROVE  running'[o] = Cardinality({r \in Calls : lease'[r] = o})
    BY <2>1, <1>2, <1>5, <1>7 DEF HeldBy
  <2> QED BY <2>1, <1>6, <1>7
<1>11. \A o \in Users : running'[o] <= OwnerLimit /\ running'[o] <= running[o]
  BY <1>1, <1>2, <1>7, WebProcessAssumption
<1>12. \A o \in Users : running'[o] > 0 => o \in remembered'
  BY <1>1, <1>2, <1>3, <1>8, <1>11
<1>13. LeasesCounted'
  BY <1>3, <1>6, <1>9, <1>10, <1>11, <1>12
     DEF LeasesCounted, Held, HeldBy
<1>14. running' \in [Users -> Nat] /\ lease' \in [Calls -> Users \union {None}]
  BY <1>1, <1>3, <1>8
<1> QED BY <1>1, <1>3, <1>9, <1>13, <1>14 DEF GateInv

LEMMA GateFrame ==
  ASSUME GateInv, UNCHANGED <<remembered, running, total, lease>>
  PROVE  GateInv'
BY DEF GateInv, LeasesCounted

\* The counters are the leases held and never exceed their limits, whatever
\* owners were forgotten meanwhile (admission.ts:11-39).
THEOREM LeasesAreCounted == Spec => []LeasesCounted
<1>1. Init => GateInv
  <2> SUFFICES ASSUME G!GateInit PROVE GateInv
    BY DEF Init
  <2>1. /\ lease = [r \in Calls |-> None] /\ running = [o \in Users |-> 0]
        /\ total = 0 /\ remembered = {}
    BY DEF G!GateInit
  <2>2. {r \in Calls : lease[r] # None} = {}
        /\ \A o \in Users : {r \in Calls : lease[r] = o} = {}
    BY <2>1, ReadCacheAssumption
  <2>3. Cardinality({}) = 0
    BY FS_EmptySet
  <2>4. LeasesCounted
    BY <2>1, <2>2, <2>3, WebProcessAssumption DEF LeasesCounted
  <2> QED BY <2>1, <2>4 DEF GateInv
<1>2. IInv /\ GateInv /\ [Next]_vars => GateInv'
  <2> SUFFICES ASSUME IInv, GateInv, [Next]_vars PROVE GateInv'
    OBVIOUS
  <2>1. CASE UNCHANGED vars
    BY <2>1, GateFrame DEF vars, gate
  <2>2. CASE Pass
    BY <2>2, GateFrame DEF Pass, gate
  <2>3. ASSUME NEW p \in Calls, NEW u \in Users, Enter(p, u) PROVE GateInv'
    BY <2>3, GateFrame DEF Enter, G!Consume, G!admission
  <2>4. ASSUME NEW p \in Calls, NEW k \in Keys, View(p, k) \/ Write(p, k) PROVE GateInv'
    BY <2>4, GateFrame DEF View, Write, gate
  <2>5. ASSUME NEW p \in Calls, Ask(p) \/ Run(p) PROVE GateInv'
    BY <2>5, GateFrame DEF Ask, Run, gate
  <2>6. ASSUME NEW p \in Calls, Admit(p) PROVE GateInv'
    <3>1. Owner(call[p].key) \in Users
      <4>1. call[p].key \in Keys
        BY <2>6 DEF Admit, IInv, UnderWay
      <4> QED BY <4>1 DEF Keys, Owner
    <3> QED BY <2>6, <3>1, AcquireStep DEF Admit
  <2>7. ASSUME NEW p \in Calls, Leave(p) PROVE GateInv'
    <3>1. G!Release(p) \/ UNCHANGED gate
      BY <2>7 DEF Leave
    <3> QED BY <3>1, ReleaseStep, GateFrame DEF gate
  <2> QED BY <2>1, <2>2, <2>3, <2>4, <2>5, <2>6, <2>7 DEF Next
<1>3. GateInv => LeasesCounted
  BY DEF GateInv
<1> QED BY <1>1, <1>2, <1>3, Inductive, PTL DEF Spec

-------------------------------------------------------------------------------
(* The order of recency: every entry once                                      *)

\* A function on 1..n is a sequence of length n.
LEMMA IsSequence ==
  ASSUME NEW S, NEW n \in Nat, NEW s \in [1..n -> S]
  PROVE  s \in Seq(S) /\ Len(s) = n /\ DOMAIN s = 1..n
<1>1. s \in Seq(S)
  BY SeqDef
<1>2. DOMAIN s = 1..n /\ DOMAIN s = 1..Len(s) /\ Len(s) \in Nat
  BY <1>1, LenProperties
<1> QED BY <1>1, <1>2

Enumerates(order, S) ==
  /\ order \in Seq(Keys)
  /\ \A i, j \in DOMAIN order : order[i] = order[j] => i = j
  /\ \A k \in Keys : (\E i \in DOMAIN order : order[i] = k) <=> k \in S

\* An enumeration counts what it enumerates.
LEMMA EnumeratesAll ==
  ASSUME NEW order, NEW S \in SUBSET Keys, Enumerates(order, S)
  PROVE  IsFiniteSet(S) /\ Len(order) = Cardinality(S)
<1>1. /\ Len(order) \in Nat /\ DOMAIN order = 1..Len(order)
      /\ order \in [1..Len(order) -> Keys]
  BY LenProperties DEF Enumerates
<1>2. order \in [1..Len(order) -> S]
  BY <1>1 DEF Enumerates
<1>3. \A k \in S : \E i \in 1..Len(order) : order[i] = k
  BY <1>1 DEF Enumerates
<1>4. order \in Bijection(1..Len(order), S)
  <2>1. \A i, j \in 1..Len(order) : order[i] = order[j] => i = j
    BY <1>1 DEF Enumerates
  <2> QED BY <1>2, <1>3, <2>1 DEF Bijection, Injection, Surjection, IsInjective
<1>5. ExistsBijection(1..Len(order), S)
  BY <1>4 DEF ExistsBijection
<1>6. IsFiniteSet(1..Len(order)) /\ Cardinality(1..Len(order)) = Len(order)
  <2> DEFINE n == Len(order)
  <2>1. n \in Nat /\ n \in Int /\ 1 \in Int
    BY <1>1
  <2> HIDE DEF n
  <2>2. IsFiniteSet(1..n) /\ Cardinality(1..n) = (IF 1 > n THEN 0 ELSE n - 1 + 1)
    BY <2>1, FS_Interval, Zenon
  <2>3. IsFiniteSet(1..n) /\ Cardinality(1..n) = n
    BY <2>1, <2>2
  <2> QED BY <2>3 DEF n
<1> QED BY <1>5, <1>6, FS_Bijection

\* Deleting a key leaves the others enumerated.
LEMMA RemovedEnumerates ==
  ASSUME NEW order, NEW S \in SUBSET Keys, Enumerates(order, S), NEW k \in Keys
  PROVE  /\ Enumerates(Removed(order, k), S \ {k})
         /\ Len(Removed(order, k)) <= Len(order)
         /\ k \in S => Len(Removed(order, k)) = Len(order) - 1
<1>1. Len(order) \in Nat /\ DOMAIN order = 1..Len(order) /\ order \in [1..Len(order) -> Keys]
  BY LenProperties DEF Enumerates
<1>2. CASE k \notin S
  <2>1. Removed(order, k) = order
    BY <1>2 DEF Removed, Enumerates
  <2>2. S \ {k} = S
    BY <1>2
  <2>3. Enumerates(Removed(order, k), S \ {k})
    BY <2>1, <2>2, Zenon
  <2>4. Len(Removed(order, k)) <= Len(order)
    BY <1>1, <2>1
  <2> QED BY <1>2, <2>3, <2>4
<1>3. CASE k \in S
  <2> DEFINE n == Len(order)
             at == CHOOSE i \in DOMAIN order : order[i] = k
             new == [j \in 1..(n - 1) |-> order[IF j < at THEN j ELSE j + 1]]
  <2>1. at \in 1..n /\ order[at] = k
    BY <1>1, <1>3 DEF Enumerates
  <2>2. Removed(order, k) = new
    BY <1>3 DEF Removed, Enumerates
  <2> HIDE DEF at
  <2>3. new \in [1..(n - 1) -> Keys] /\ n - 1 \in Nat
    BY <1>1, <2>1
  <2>4. /\ \A j \in 1..(n - 1) : new[j] = order[IF j < at THEN j ELSE j + 1]
        /\ new \in Seq(Keys) /\ Len(new) = n - 1 /\ DOMAIN new = 1..(n - 1)
    BY <2>3, IsSequence
  <2> HIDE DEF new
  <2>5. \A i, j \in 1..n : order[i] = order[j] => i = j
    BY <1>1 DEF Enumerates
  <2>6. \A i, j \in DOMAIN new : new[i] = new[j] => i = j
    BY <1>1, <2>1, <2>4, <2>5
  <2>7. ASSUME NEW j \in Keys
        PROVE  (\E i \in DOMAIN new : new[i] = j) <=> j \in S \ {k}
    <3>1. ASSUME NEW i \in DOMAIN new, new[i] = j PROVE j \in S \ {k}
      <4> DEFINE old == IF i < at THEN i ELSE i + 1
      <4>1. old \in 1..n /\ old # at /\ order[old] = j
        BY <1>1, <2>1, <2>4, <3>1
      <4> HIDE DEF old
      <4>2. j \in S /\ j # k
        BY <1>1, <2>1, <2>5, <4>1 DEF Enumerates
      <4> QED BY <4>2
    <3>2. ASSUME j \in S \ {k} PROVE \E i \in DOMAIN new : new[i] = j
      <4>1. PICK i \in 1..n : order[i] = j
        BY <1>1, <3>2 DEF Enumerates
      <4>2. i # at
        BY <2>1, <3>2, <4>1
      <4>3. CASE i < at
        BY <1>1, <2>1, <2>4, <4>1, <4>3
      <4>4. CASE i > at
        <5>1. i - 1 \in 1..(n - 1) /\ ~(i - 1 < at) /\ (i - 1) + 1 = i
          BY <1>1, <2>1, <4>4
        <5>2. new[i - 1] = order[i]
          BY <2>4, <5>1
        <5> QED BY <2>4, <4>1, <5>1, <5>2
      <4> QED BY <1>1, <2>1, <4>2, <4>3, <4>4
    <3> QED BY <3>1, <3>2
  <2>8. Enumerates(new, S \ {k})
    BY <2>4, <2>6, <2>7 DEF Enumerates
  <2> QED BY <1>1, <2>2, <2>4, <2>8
<1> QED BY <1>2, <1>3

\* Setting a new key enumerates it last.
LEMMA AppendedEnumerates ==
  ASSUME NEW order, NEW S \in SUBSET Keys, Enumerates(order, S), NEW k \in Keys \ S
  PROVE  /\ Enumerates(Append(order, k), S \union {k})
         /\ Len(Append(order, k)) = Len(order) + 1
<1> DEFINE n == Len(order)
           new == Append(order, k)
<1>1. n \in Nat /\ DOMAIN order = 1..n /\ order \in Seq(Keys)
  BY LenProperties DEF Enumerates
<1>2. /\ new \in Seq(Keys) /\ Len(new) = n + 1 /\ DOMAIN new = 1..(n + 1)
      /\ \A i \in 1..n : new[i] = order[i]
      /\ new[n + 1] = k
  BY <1>1, AppendProperties, LenProperties
<1> HIDE DEF new
<1>3. \A i \in 1..n : order[i] # k
  BY <1>1 DEF Enumerates
<1>4. \A i, j \in DOMAIN new : new[i] = new[j] => i = j
  <2>1. \A i, j \in 1..n : order[i] = order[j] => i = j
    BY <1>1 DEF Enumerates
  <2>2. \A i \in DOMAIN new : i \in 1..n \/ i = n + 1
    BY <1>1, <1>2
  <2> QED BY <1>2, <1>3, <2>1, <2>2
<1>5. ASSUME NEW j \in Keys
      PROVE  (\E i \in DOMAIN new : new[i] = j) <=> j \in S \union {k}
  <2>1. \A i \in DOMAIN new : i \in 1..n \/ i = n + 1
    BY <1>1, <1>2
  <2>2. n + 1 \in DOMAIN new /\ \A i \in 1..n : i \in DOMAIN new
    BY <1>1, <1>2
  <2>3. (\E i \in 1..n : order[i] = j) <=> j \in S
    BY <1>1 DEF Enumerates
  <2> QED BY <1>2, <2>1, <2>2, <2>3
<1>6. Enumerates(new, S \union {k})
  BY <1>2, <1>4, <1>5 DEF Enumerates
<1> QED BY <1>2, <1>6 DEF new

\* Evicting the least recently used leaves the others enumerated.
LEMMA TailEnumerates ==
  ASSUME NEW order, NEW S \in SUBSET Keys, Enumerates(order, S), Len(order) > 0
  PROVE  /\ Enumerates(Tail(order), S \ {Head(order)})
         /\ Len(Tail(order)) = Len(order) - 1 /\ Head(order) \in S
<1> DEFINE n == Len(order)
           new == Tail(order)
<1>1. /\ n \in Nat \ {0} /\ DOMAIN order = 1..n /\ order \in Seq(Keys)
      /\ order # <<>>
  BY LenProperties, EmptySeq DEF Enumerates
<1>2. /\ new \in Seq(Keys) /\ Len(new) = n - 1 /\ DOMAIN new = 1..(n - 1)
      /\ \A i \in 1..(n - 1) : new[i] = order[i + 1]
      /\ Head(order) = order[1]
  BY <1>1, HeadTailProperties, LenProperties
<1> HIDE DEF new
<1>3. \A i, j \in 1..n : order[i] = order[j] => i = j
  BY <1>1 DEF Enumerates
<1>4. \A i, j \in DOMAIN new : new[i] = new[j] => i = j
  <2>1. \A i \in 1..(n - 1) : i + 1 \in 1..n /\ i \in Nat
    BY <1>1
  <2> QED BY <1>2, <1>3, <2>1
<1>5. ASSUME NEW j \in Keys
      PROVE  (\E i \in DOMAIN new : new[i] = j) <=> j \in S \ {Head(order)}
  <2>1. (\E i \in 1..n : order[i] = j) <=> j \in S
    BY <1>1 DEF Enumerates
  <2>2. ASSUME NEW i \in 1..(n - 1), new[i] = j PROVE j \in S \ {Head(order)}
    <3>1. i + 1 \in 1..n /\ 1 \in 1..n /\ i + 1 # 1
      BY <1>1
    <3> QED BY <1>2, <1>3, <2>1, <2>2, <3>1
  <2>3. ASSUME NEW i \in 1..n, order[i] = j, i # 1 PROVE \E x \in 1..(n - 1) : new[x] = j
    <3>1. i - 1 \in 1..(n - 1) /\ (i - 1) + 1 = i
      BY <1>1, <2>3
    <3> QED BY <1>2, <2>3, <3>1
  <2> QED BY <1>2, <2>1, <2>2, <2>3
<1>6. Enumerates(new, S \ {Head(order)})
  BY <1>2, <1>4, <1>5 DEF Enumerates
<1>7. Head(order) \in S
  <2>1. 1 \in DOMAIN order /\ order[1] \in Keys
    BY <1>1, ElementOfSeq
  <2> QED BY <1>2, <2>1 DEF Enumerates
<1> QED BY <1>2, <1>6, <1>7 DEF new

HeldKeys == {k \in Keys : entry[k] # None}

OrderInv == Enumerates(recency, HeldKeys) /\ Len(recency) <= MaxEntries

\* Removing an entry that may be there.
LEMMA DroppedOrder ==
  ASSUME entry \in EntryType, OrderInv, NEW k \in Keys,
         recency' = Removed(recency, k), entry' = [entry EXCEPT ![k] = None]
  PROVE  OrderInv'
<1>1. HeldKeys \in SUBSET Keys /\ HeldKeys' = HeldKeys \ {k}
  BY DEF HeldKeys, EntryType
<1>2. /\ Enumerates(Removed(recency, k), HeldKeys \ {k})
      /\ Len(Removed(recency, k)) <= Len(recency)
  BY <1>1, RemovedEnumerates DEF OrderInv
<1>3. Enumerates(recency', HeldKeys')
  BY <1>1, <1>2, Zenon
<1>4. Len(recency') <= MaxEntries
  <2>1. recency \in Seq(Keys) /\ Removed(recency, k) \in Seq(Keys)
    BY <1>2 DEF OrderInv, Enumerates
  <2>2. Len(recency) \in Nat /\ Len(Removed(recency, k)) \in Nat
    BY <2>1, LenProperties
  <2> QED BY <1>2, <2>2, ReadCacheAssumption DEF OrderInv
<1>5. Enumerates(recency, HeldKeys)' <=> Enumerates(recency', HeldKeys')
  BY DEF Enumerates
<1> QED BY <1>3, <1>4, <1>5 DEF OrderInv

\* The most recent key is enumerated once more or for the first time.
LEMMA RenewedEnumerates ==
  ASSUME OrderInv, NEW k \in Keys
  PROVE  /\ Enumerates(Renewed(k), HeldKeys \union {k})
         /\ Len(Renewed(k)) \in Nat /\ Len(Renewed(k)) <= MaxEntries + 1
         /\ Len(Renewed(k)) > 0
         /\ k \in HeldKeys => Len(Renewed(k)) <= MaxEntries
<1> DEFINE rest == Removed(recency, k)
           others == HeldKeys \ {k}
<1>1. HeldKeys \in SUBSET Keys /\ others \in SUBSET Keys /\ k \in Keys \ others
  BY DEF HeldKeys
<1>2. /\ Enumerates(rest, others) /\ Len(rest) <= Len(recency)
      /\ k \in HeldKeys => Len(rest) = Len(recency) - 1
  BY <1>1, RemovedEnumerates DEF OrderInv
<1>3. Len(recency) \in Nat /\ Len(rest) \in Nat
  BY <1>2, LenProperties DEF OrderInv, Enumerates
<1>4. others \union {k} = HeldKeys \union {k}
  OBVIOUS
<1> HIDE DEF rest, others
<1>5. /\ Enumerates(Append(rest, k), others \union {k})
      /\ Len(Append(rest, k)) = Len(rest) + 1
  BY <1>1, <1>2, AppendedEnumerates
<1>6. Renewed(k) = Append(rest, k)
  BY DEF Renewed, rest
<1>7. Enumerates(Renewed(k), HeldKeys \union {k})
  BY <1>4, <1>5, <1>6, Zenon
<1>8. Len(Renewed(k)) = Len(rest) + 1
  BY <1>5, <1>6
<1>9. Len(recency) <= MaxEntries /\ MaxEntries \in Nat
  BY ReadCacheAssumption DEF OrderInv
<1> QED BY <1>2, <1>3, <1>7, <1>8, <1>9

LEMMA ReadOrder ==
  ASSUME entry \in EntryType, OrderInv, NEW k \in Keys, Read(k)
  PROVE  OrderInv'
<1>1. CASE Live(k)
  <2>1. recency' = Renewed(k) /\ entry' = entry
    BY <1>1 DEF Read
  <2>2. k \in HeldKeys /\ HeldKeys' = HeldKeys /\ HeldKeys \union {k} = HeldKeys
    BY <1>1, <2>1 DEF Live, HeldKeys
  <2>3. Enumerates(recency', HeldKeys')
    BY <2>1, <2>2, RenewedEnumerates, Zenon
  <2>4. Len(recency') <= MaxEntries
    BY <2>1, <2>2, RenewedEnumerates
  <2>5. Enumerates(recency, HeldKeys)' <=> Enumerates(recency', HeldKeys')
    BY DEF Enumerates
  <2> QED BY <2>3, <2>4, <2>5 DEF OrderInv
<1>2. CASE ~Live(k)
  BY <1>2, DroppedOrder DEF Read
<1> QED BY <1>1, <1>2

LEMMA StoreOrder ==
  ASSUME entry \in EntryType, OrderInv, NEW k \in Keys, NEW value \in Nat, Store(k, value),
         time \in Nat
  PROVE  OrderInv'
<1> DEFINE order == Renewed(k)
           new == [value |-> value, expires |-> time + TTL]
           held == HeldKeys \union {k}
<1>1. /\ Enumerates(order, held) /\ Len(order) \in Nat /\ Len(order) <= MaxEntries + 1
      /\ Len(order) > 0 /\ held \in SUBSET Keys
  BY RenewedEnumerates DEF HeldKeys
<1>2. new # None
  BY ReadCacheAssumption
<1>3. MaxEntries \in Nat \ {0}
  BY ReadCacheAssumption
<1>4. Enumerates(recency, HeldKeys)' <=> Enumerates(recency', HeldKeys')
  BY DEF Enumerates
<1>5. CASE Len(order) > MaxEntries
  <2>1. /\ recency' = Tail(order)
        /\ entry' = [j \in Keys |-> IF j = Head(order) THEN None
                                    ELSE IF j = k THEN new ELSE entry[j]]
    BY <1>5 DEF Store
  <2> HIDE DEF order, new, held
  <2>2. HeldKeys' = held \ {Head(order)}
    BY <1>2, <2>1 DEF HeldKeys, held
  <2>3. Enumerates(Tail(order), held \ {Head(order)}) /\ Len(Tail(order)) = Len(order) - 1
    BY <1>1, TailEnumerates
  <2>4. Enumerates(recency', HeldKeys')
    BY <2>1, <2>2, <2>3, Zenon
  <2>5. Len(recency') <= MaxEntries
    BY <1>1, <1>3, <2>1, <2>3
  <2> QED BY <1>4, <2>4, <2>5 DEF OrderInv
<1>6. CASE ~(Len(order) > MaxEntries)
  <2>1. /\ recency' = order
        /\ entry' = [j \in Keys |-> IF j = k THEN new ELSE entry[j]]
    BY <1>6 DEF Store
  <2> HIDE DEF order, new, held
  <2>2. HeldKeys' = held
    BY <1>2, <2>1 DEF HeldKeys, held
  <2>3. Enumerates(recency', HeldKeys')
    BY <1>1, <2>1, <2>2, Zenon
  <2>4. Len(recency') <= MaxEntries
    BY <1>1, <1>3, <1>6, <2>1
  <2> QED BY <1>4, <2>3, <2>4 DEF OrderInv
<1> QED BY <1>5, <1>6

LEMMA InvalidateOrder ==
  ASSUME entry \in EntryType, OrderInv, NEW user \in Users, Invalidate(user)
  PROVE  OrderInv'
<1> DEFINE a == <<"accounts", user>>
           b == <<"auth", user>>
           once == Removed(recency, a)
<1>1. a \in Keys /\ b \in Keys /\ \A k \in Keys : Owner(k) = user <=> k = a \/ k = b
  BY DEF Keys, Owner
<1>2. HeldKeys' = (HeldKeys \ {a}) \ {b} /\ HeldKeys \in SUBSET Keys
      /\ HeldKeys \ {a} \in SUBSET Keys
  BY <1>1 DEF Invalidate, HeldKeys
<1> HIDE DEF a, b
<1>3. Enumerates(once, HeldKeys \ {a}) /\ Len(once) <= Len(recency)
  BY <1>1, <1>2, RemovedEnumerates DEF OrderInv
<1> HIDE DEF once
<1>4. Enumerates(Removed(once, b), (HeldKeys \ {a}) \ {b})
      /\ Len(Removed(once, b)) <= Len(once)
  BY <1>1, <1>2, <1>3, RemovedEnumerates
<1>5. recency' = Removed(once, b)
  BY DEF Invalidate, once, a, b
<1>6. Enumerates(recency', HeldKeys')
  BY <1>2, <1>4, <1>5, Zenon
<1>7. Enumerates(recency, HeldKeys)' <=> Enumerates(recency', HeldKeys')
  BY DEF Enumerates
<1>8. Len(recency') <= MaxEntries
  <2>1. Len(recency) \in Nat /\ Len(once) \in Nat /\ Len(recency') \in Nat
    BY <1>3, <1>4, <1>5, LenProperties DEF OrderInv, Enumerates
  <2> QED BY <1>3, <1>4, <1>5, <2>1, ReadCacheAssumption DEF OrderInv
<1> QED BY <1>6, <1>7, <1>8 DEF OrderInv

LEMMA OrderFrame ==
  ASSUME OrderInv, UNCHANGED <<entry, recency>>
  PROVE  OrderInv'
BY DEF OrderInv, HeldKeys, Enumerates

LEMMA OrderStep ==
  ASSUME IInv, OrderInv, [Next]_vars
  PROVE  OrderInv'
<1>0. entry \in EntryType /\ time \in Nat
  BY DEF IInv, CacheTypes, EntryType
<1>1. ASSUME NEW p \in Calls, NEW k \in Keys, Remember(p, k) PROVE OrderInv'
  BY <1>0, <1>1, ReadOrder DEF Remember
<1>2. ASSUME NEW p \in Calls, Load(p) PROVE OrderInv'
  <2>1. call[p].key \in Keys /\ call[p].value \in Nat
    BY <1>2 DEF Load, IInv, CacheTypes, CallRecord, UnderWay
  <2>2. Store(call[p].key, call[p].value) \/ UNCHANGED <<entry, recency>>
    BY <1>2 DEF Load
  <2> QED BY <1>0, <2>1, <2>2, StoreOrder, OrderFrame
<1>3. ASSUME NEW p \in Calls, Settle(p) PROVE OrderInv'
  <2>1. call[p].key \in Keys
    BY <1>3 DEF Settle, IInv, UnderWay
  <2>2. Owner(call[p].key) \in Users /\ Invalidate(Owner(call[p].key))
    BY <1>3, <2>1 DEF Settle, Keys, Owner
  <2> QED BY <1>0, <2>2, InvalidateOrder
<1>4. ASSUME NEW p \in Calls, Run(p) PROVE OrderInv'
  <2>1. CASE Query(p) \/ LoadFails(p) \/ Share(p)
    BY <2>1, OrderFrame DEF Query, LoadFails, Share, cache
  <2> QED BY <1>2, <1>3, <1>4, <2>1 DEF Run, Finish
<1>5. CASE UNCHANGED vars \/ Pass
  BY <1>5, OrderFrame DEF vars, cacheVars, cache, Pass, Tick
<1>6. ASSUME NEW p \in Calls, NEW u \in Users, Enter(p, u) PROVE OrderInv'
  BY <1>6, OrderFrame DEF Enter, cache
<1>7. ASSUME NEW p \in Calls, NEW k \in Keys, View(p, k) PROVE OrderInv'
  BY <1>1, <1>7 DEF View
<1>8. ASSUME NEW p \in Calls, NEW k \in Keys, Write(p, k) PROVE OrderInv'
  BY <1>8, OrderFrame DEF Write, Commit, cache
<1>9. ASSUME NEW p \in Calls, Ask(p) PROVE OrderInv'
  BY <1>1, <1>9 DEF Ask, IInv, UnderWay
<1>10. ASSUME NEW p \in Calls, Admit(p) \/ Leave(p) PROVE OrderInv'
  BY <1>10, OrderFrame DEF Admit, Leave, Return, cache
<1> QED BY <1>4, <1>5, <1>6, <1>7, <1>8, <1>9, <1>10 DEF Next

\* The bounds of the instance, and the owners the admission remembers.
Bounded == time \in 0..MaxTime /\ version \in [Keys -> 0..MaxVersion]

LEMMA BoundedStep ==
  ASSUME Bounded, [Next]_vars
  PROVE  Bounded'
<1>1. CASE UNCHANGED vars
  BY <1>1 DEF Bounded, vars, cacheVars
<1>2. CASE Pass
  BY <1>2, ReadCacheAssumption DEF Bounded, Pass, Tick
<1>3. ASSUME NEW p \in Calls, NEW k \in Keys, Commit(p, k) PROVE Bounded'
  <2>1. CASE UNCHANGED version
    BY <1>3, <2>1 DEF Bounded, Commit
  <2>2. CASE Changes(k) /\ version' = [version EXCEPT ![k] = @ + 1]
    <3>1. version[k] < MaxVersion /\ version[k] \in 0..MaxVersion
      BY <2>2, ReadCacheAssumption DEF Changes, Bounded
    <3>2. version[k] + 1 \in 0..MaxVersion
      BY <3>1, ReadCacheAssumption
    <3> QED BY <1>3, <2>2, <3>2 DEF Bounded, Commit
  <2> QED BY <1>3, <2>1, <2>2 DEF Commit
<1>4. ASSUME NEW p \in Calls, Run(p) PROVE Bounded'
  BY <1>4 DEF Bounded, Run, Finish, Query, Load, LoadFails, Share, Settle
<1>5. ASSUME NEW p \in Calls, NEW u \in Users, Enter(p, u) PROVE Bounded'
  BY <1>5 DEF Bounded, Enter, G!Consume
<1>6. ASSUME NEW p \in Calls, NEW k \in Keys, View(p, k) PROVE Bounded'
  BY <1>6 DEF Bounded, View, Remember
<1>7. ASSUME NEW p \in Calls, Ask(p) \/ Leave(p) PROVE Bounded'
  BY <1>7 DEF Bounded, Ask, Remember, Leave, Return
<1>8. ASSUME NEW p \in Calls, Admit(p) PROVE Bounded'
  BY <1>8 DEF Bounded, Admit, G!Acquire
<1> QED BY <1>1, <1>2, <1>3, <1>4, <1>5, <1>6, <1>7, <1>8 DEF Next, Write

\* The gate's instance of Cardinality is Cardinality.
LEMMA OneCardinality == \A S : G!Cardinality(S) = Cardinality(S)
BY DEF G!Cardinality, Cardinality

Remembering ==
  remembered \subseteq Users /\ IsFiniteSet(remembered) /\ Cardinality(remembered) <= Capacity

LEMMA RememberingStep ==
  ASSUME Remembering, NEW p \in Calls, NEW u \in Users, G!Acquire(p, u)
  PROVE  Remembering'
<1>1. /\ G!Kept \in SUBSET remembered /\ IsFiniteSet(G!Kept) /\ G!Kept \subseteq Users
      /\ Cardinality(G!Kept) <= Capacity /\ Cardinality(G!Kept) \in Nat
  <2>1. G!Kept \in SUBSET remembered
    BY DEF G!Kept
  <2>2. IsFiniteSet(G!Kept) /\ Cardinality(G!Kept) <= Cardinality(remembered)
    BY <2>1, FS_Subset DEF Remembering
  <2>3. Cardinality(G!Kept) \in Nat /\ Cardinality(remembered) \in Nat
    BY <2>2, FS_CardinalityType DEF Remembering
  <2> QED BY <2>1, <2>2, <2>3, WebProcessAssumption DEF Remembering
<1>2. CASE ~G!Admissible(u)
  BY <1>1, <1>2 DEF G!Acquire, Remembering
<1>3. CASE G!Admissible(u)
  <2>1. remembered' = G!Kept \union {u}
    BY <1>3 DEF G!Acquire
  <2>2. u \in G!Kept \/ Cardinality(G!Kept) < Capacity
    BY <1>3, OneCardinality, Zenon DEF G!Admissible
  <2>3. /\ IsFiniteSet(G!Kept \union {u})
        /\ Cardinality(G!Kept \union {u}) =
             IF u \in G!Kept THEN Cardinality(G!Kept) ELSE Cardinality(G!Kept) + 1
    BY <1>1, FS_AddElement
  <2> QED BY <1>1, <2>1, <2>2, <2>3, WebProcessAssumption DEF Remembering
<1> QED BY <1>2, <1>3

-------------------------------------------------------------------------------
(* The windows: what was pruned, swept or forgotten no longer counts           *)

\* What is kept of a log of passes is its end, and the rest is out of the window.
EndOf(times, log, t) ==
  LET lost == Len(log) - Len(times) IN
  /\ times \in Seq(Nat) /\ lost \in Nat
  /\ \A i \in DOMAIN times : times[i] = log[lost + i]
  /\ \A i \in 1..lost : log[i] <= t - Window

\* A log ascends up to now and has no burst.
Logged(log, limit, t) ==
  /\ log \in Seq(Nat)
  /\ \A i, j \in DOMAIN log : i <= j => log[i] <= log[j]
  /\ \A i \in DOMAIN log : log[i] <= t
  /\ G!Spaced(log, limit)

\* Pruning loses what is out of the window, and nothing else.
LEMMA RecentKept ==
  ASSUME time \in Nat, NEW times, NEW log, NEW limit, Logged(log, limit, time), EndOf(times, log, time)
  PROVE  EndOf(G!Recent(times), log, time)
<1> DEFINE n == Len(times)
           lost == Len(log) - n
           out == {i \in DOMAIN times : times[i] <= time - Window}
           old == Cardinality(out)
           new == [i \in 1..(n - old) |-> times[old + i]]
<1>1. /\ n \in Nat /\ DOMAIN times = 1..n /\ times \in [1..n -> Nat]
      /\ Len(log) \in Nat /\ DOMAIN log = 1..Len(log) /\ lost \in Nat
      /\ Window \in Nat
  BY LenProperties, WebProcessAssumption DEF EndOf, Logged
<1>2. G!Recent(times) = new
  BY OneCardinality DEF G!Recent
<1>3. out \in SUBSET (1..n) /\ IsFiniteSet(1..n) /\ Cardinality(1..n) = n
  <2>1. out \in SUBSET (1..n)
    BY <1>1
  <2>2. IsFiniteSet(1..n) /\ Cardinality(1..n) = n
    <3>1. 1 \in Int /\ n \in Int /\ n \in Nat
      BY <1>1
    <3> HIDE DEF n
    <3>2. IsFiniteSet(1..n) /\ Cardinality(1..n) = (IF 1 > n THEN 0 ELSE n - 1 + 1)
      BY <3>1, FS_Interval, Zenon
    <3> QED BY <3>1, <3>2
  <2> QED BY <2>1, <2>2
<1>4. old \in Nat /\ old <= n /\ IsFiniteSet(out)
  BY <1>3, FS_Subset, FS_CardinalityType
<1>5. \A i, j \in 1..n : i <= j => times[i] <= times[j]
  <2> SUFFICES ASSUME NEW i \in 1..n, NEW j \in 1..n, i <= j PROVE times[i] <= times[j]
    OBVIOUS
  <2>1. lost + i \in DOMAIN log /\ lost + j \in DOMAIN log /\ lost + i <= lost + j
    BY <1>1
  <2>2. log[lost + i] <= log[lost + j]
    BY <2>1 DEF Logged
  <2>3. times[i] = log[lost + i] /\ times[j] = log[lost + j]
    BY <1>1 DEF EndOf
  <2> QED BY <2>2, <2>3
<1>6. ASSUME NEW i \in 1..n, i \in out PROVE i <= old
  <2>1. 1..i \in SUBSET out
    BY <1>1, <1>5, <1>6
  <2>2. Cardinality(1..i) = i
    BY FS_Interval
  <2> QED BY <1>4, <2>1, <2>2, FS_Subset
<1>7. ASSUME NEW i \in 1..n, i \notin out PROVE old < i
  <2>1. out \in SUBSET (1..(i - 1))
    <3> SUFFICES ASSUME NEW j \in out, j >= i PROVE FALSE
      BY <1>3
    <3>1. times[i] <= times[j] /\ times[j] <= time - Window
      BY <1>1, <1>3, <1>5
    <3> QED BY <1>1, <1>7, <3>1
  <2>2. IsFiniteSet(1..(i - 1)) /\ Cardinality(1..(i - 1)) = i - 1
    BY FS_Interval
  <2>3. old <= i - 1
    BY <2>1, <2>2, FS_Subset
  <2> QED BY <1>4, <2>3
<1> HIDE DEF old, out
<1>8. new \in [1..(n - old) -> Nat] /\ n - old \in Nat
  BY <1>1, <1>4
<1>9. new \in Seq(Nat) /\ Len(new) = n - old /\ DOMAIN new = 1..(n - old)
  BY <1>8, IsSequence
<1>10. \A i \in 1..(n - old) : new[i] = times[old + i]
  OBVIOUS
<1> HIDE DEF new
<1>11. Len(log) - Len(new) = lost + old
  BY <1>1, <1>4, <1>9
<1>a. n \in Nat /\ lost \in Nat /\ DOMAIN new = 1..(n - old) /\ old \in Nat
  BY <1>1, <1>4, <1>9
<1>12. ASSUME NEW i \in DOMAIN new PROVE new[i] = log[lost + old + i]
  <2>1. i \in 1..(n - old) /\ old + i \in 1..n /\ lost + (old + i) = lost + old + i
    <3> HIDE DEF n, lost
    <3> QED BY <1>a
  <2>2. times[old + i] = log[lost + (old + i)]
    BY <1>1, <2>1 DEF EndOf
  <2> QED BY <1>10, <2>1, <2>2
<1>13. ASSUME NEW i \in 1..(lost + old) PROVE log[i] <= time - Window
  <2>1. CASE i <= lost
    BY <1>1, <2>1 DEF EndOf
  <2>2. CASE i > lost
    <3> DEFINE j == i - lost
    <3>1. j \in 1..n /\ j <= old /\ lost + j = i
      BY <1>1, <1>4, <2>2
    <3>2. j \in out
      BY <1>4, <1>7, <3>1
    <3>3. times[j] <= time - Window /\ times[j] = log[lost + j]
      BY <1>1, <3>1, <3>2 DEF out, EndOf
    <3> QED BY <3>1, <3>3
  <2> QED BY <1>1, <2>1, <2>2
<1>14. EndOf(new, log, time)
  BY <1>1, <1>4, <1>9, <1>11, <1>12, <1>13 DEF EndOf
<1> QED BY <1>2, <1>14

\* A pass below the limit makes no burst: what it is too near to was kept.
LEMMA PassLogged ==
  ASSUME time \in Nat, NEW times, NEW log, NEW limit \in Nat,
         Logged(log, limit, time), EndOf(times, log, time), Len(times) < limit
  PROVE  Logged(Append(log, time), limit, time) /\ EndOf(Append(times, time), Append(log, time), time)
<1> DEFINE n == Len(times)
           m == Len(log)
           lost == m - n
           more == Append(log, time)
           last == Append(times, time)
<1>1. /\ n \in Nat /\ m \in Nat /\ lost \in Nat /\ DOMAIN log = 1..m /\ DOMAIN times = 1..n
      /\ log \in Seq(Nat) /\ times \in Seq(Nat) /\ n < limit
      /\ log \in [1..m -> Nat] /\ Window \in Nat
  BY LenProperties, WebProcessAssumption DEF EndOf, Logged
<1>2. /\ more \in Seq(Nat) /\ Len(more) = m + 1 /\ DOMAIN more = 1..(m + 1)
      /\ \A i \in 1..m : more[i] = log[i]
      /\ more[m + 1] = time
  BY <1>1, AppendProperties, LenProperties
<1>3. /\ last \in Seq(Nat) /\ Len(last) = n + 1 /\ DOMAIN last = 1..(n + 1)
      /\ \A i \in 1..n : last[i] = times[i]
      /\ last[n + 1] = time
  BY <1>1, AppendProperties, LenProperties
<1>a. /\ \A i, j \in 1..m : i <= j => log[i] <= log[j]
      /\ \A i \in 1..m : log[i] <= time
      /\ \A i \in 1..m : i + limit <= m => log[i + limit] - log[i] >= Window
  BY <1>1 DEF Logged, G!Spaced
<1>b. /\ \A i \in 1..n : times[i] = log[lost + i]
      /\ \A i \in 1..lost : log[i] <= time - Window
  BY <1>1 DEF EndOf
<1>c. lost = m - n
  OBVIOUS
<1> HIDE DEF more, last, n, m, lost
<1>4. \A i \in DOMAIN more : i \in 1..m \/ i = m + 1
  BY <1>1, <1>2
<1>5. \A i \in DOMAIN more : more[i] <= time
  BY <1>2, <1>4, <1>a
<1>6. ASSUME NEW i \in DOMAIN more, NEW j \in DOMAIN more, i <= j PROVE more[i] <= more[j]
  <2>1. CASE j \in 1..m
    <3>1. i \in 1..m
      BY <1>1, <1>4, <1>6, <2>1
    <3> QED BY <1>2, <1>6, <1>a, <2>1, <3>1
  <2>2. CASE j = m + 1
    BY <1>2, <1>5, <2>2
  <2> QED BY <1>4, <2>1, <2>2
<1>7. G!Spaced(more, limit)
  <2> SUFFICES ASSUME NEW i \in DOMAIN more, i + limit <= Len(more)
               PROVE  more[i + limit] - more[i] >= Window
    BY DEF G!Spaced
  <2>0. i \in 1..(m + 1) /\ i + limit <= m + 1 /\ m \in Nat
    BY <1>1, <1>2
  <2>1. CASE i + limit <= m
    <3>1. i \in 1..m /\ i + limit \in 1..m
      BY <2>0, <2>1
    <3>2. log[i + limit] - log[i] >= Window
      BY <1>a, <2>1, <3>1
    <3> QED BY <1>2, <3>1, <3>2
  <2>2. CASE i + limit = m + 1
    <3>1. i \in 1..lost /\ i \in 1..m
      BY <1>1, <1>c, <2>0, <2>2
    <3>2. log[i] <= time - Window
      BY <1>b, <3>1
    <3>3. log[i] \in Nat
      BY <1>1, <3>1
    <3>4. more[i + limit] = time /\ more[i] = log[i]
      BY <1>2, <2>2, <3>1
    <3> QED BY <1>1, <3>2, <3>3, <3>4
  <2> QED BY <2>0, <2>1, <2>2
<1>8. Logged(more, limit, time)
  BY <1>2, <1>5, <1>6, <1>7 DEF Logged
<1>9. Len(more) - Len(last) = lost
  BY <1>1, <1>2, <1>3, <1>c
<1>10. ASSUME NEW i \in DOMAIN last PROVE last[i] = more[lost + i]
  <2>1. CASE i \in 1..n
    <3>1. lost + i \in 1..m
      BY <1>1, <1>c, <2>1
    <3> QED BY <1>2, <1>3, <1>b, <2>1, <3>1
  <2>2. CASE i = n + 1
    <3>1. lost + i = m + 1
      BY <1>1, <1>c, <2>2
    <3> QED BY <1>2, <1>3, <2>2, <3>1
  <2> QED BY <1>1, <1>3, <2>1, <2>2
<1>11. \A i \in 1..lost : more[i] <= time - Window
  <2>1. \A i \in 1..lost : i \in 1..m
    BY <1>1, <1>c
  <2> QED BY <1>2, <1>b, <2>1
<1>12. EndOf(last, more, time)
  BY <1>1, <1>3, <1>9, <1>10, <1>11 DEF EndOf
<1> QED BY <1>8, <1>12 DEF more, last

Windows(kept, log, limit, t) ==
  /\ kept \in [Users -> Seq(Nat)] /\ log \in [Users -> Seq(Nat)]
  /\ \A o \in Users : Logged(log[o], limit, t) /\ EndOf(kept[o], log[o], t)

WindowInv ==
  /\ Windows(hits, passed, RateLimit, time)
  /\ Windows(admissions, admitted, ChatLimit, time)

\* Time that goes on only takes more out of the window.
LEMMA LaterWindows ==
  ASSUME NEW t1 \in Nat, NEW t2 \in Nat, t1 <= t2,
         NEW kept, NEW log, NEW limit, Windows(kept, log, limit, t1)
  PROVE  Windows(kept, log, limit, t2)
<1> SUFFICES ASSUME NEW o \in Users
             PROVE  Logged(log[o], limit, t2) /\ EndOf(kept[o], log[o], t2)
  BY DEF Windows
<1> DEFINE lost == Len(log[o]) - Len(kept[o])
<1>1. Logged(log[o], limit, t1) /\ EndOf(kept[o], log[o], t1)
  BY DEF Windows
<1>2. /\ Len(log[o]) \in Nat /\ DOMAIN log[o] = 1..Len(log[o])
      /\ log[o] \in [1..Len(log[o]) -> Nat]
      /\ Len(kept[o]) \in Nat /\ Window \in Nat
  BY <1>1, LenProperties, WebProcessAssumption DEF Logged, EndOf
<1>3. ASSUME NEW i \in DOMAIN log[o] PROVE log[o][i] <= t2
  <2>1. log[o][i] <= t1 /\ log[o][i] \in Nat
    BY <1>1, <1>2, <1>3 DEF Logged
  <2> QED BY <2>1
<1>4. ASSUME NEW i \in 1..lost PROVE log[o][i] <= t2 - Window
  <2>1. i \in 1..Len(log[o]) /\ log[o][i] <= t1 - Window
    BY <1>1, <1>2, <1>4 DEF EndOf
  <2>2. log[o][i] \in Nat
    BY <1>2, <2>1
  <2> QED BY <1>2, <2>1, <2>2
<1> QED BY <1>1, <1>3, <1>4 DEF Logged, EndOf

\* Nothing is kept of an owner whose window is empty.
LEMMA EmptyKept ==
  ASSUME time \in Nat, NEW times, NEW log, NEW limit, Logged(log, limit, time), EndOf(times, log, time),
         times = <<>> \/ times[Len(times)] <= time - Window
  PROVE  EndOf(<<>>, log, time)
<1> DEFINE n == Len(times)
           m == Len(log)
           lost == m - n
<1>1. /\ n \in Nat /\ m \in Nat /\ lost \in Nat /\ DOMAIN log = 1..m /\ DOMAIN times = 1..n
      /\ log \in [1..m -> Nat] /\ Window \in Nat
  BY LenProperties, WebProcessAssumption DEF EndOf, Logged
<1>2. <<>> \in Seq(Nat) /\ Len(<<>>) = 0 /\ DOMAIN <<>> = {}
  BY EmptySeq
<1>3. ASSUME NEW i \in 1..m PROVE log[i] <= time - Window
  <2>1. CASE i <= lost
    BY <1>1, <2>1 DEF EndOf
  <2>2. CASE i > lost
    <3>1. n > 0 /\ n \in DOMAIN times /\ lost + n = m /\ m \in DOMAIN log /\ i \in DOMAIN log
      BY <1>1, <2>2
    <3>2. times # <<>>
      BY <1>2, <3>1
    <3>3. times[n] <= time - Window /\ times[n] = log[m]
      BY <3>1, <3>2 DEF EndOf
    <3>4. log[i] <= log[m]
      BY <1>1, <3>1 DEF Logged
    <3>5. log[i] \in Nat /\ log[m] \in Nat
      BY <1>1, <3>1
    <3> QED BY <1>1, <3>3, <3>4, <3>5
  <2> QED BY <1>1, <2>1, <2>2
<1>4. m - Len(<<>>) = m
  BY <1>1, <1>2
<1> QED BY <1>1, <1>2, <1>3, <1>4 DEF EndOf

\* consume: sweep, prune, and count a request that passes.
LEMMA ConsumeStep ==
  ASSUME time \in Nat, time' = time, NEW o \in Users, G!Consume(o),
         Windows(hits, passed, RateLimit, time)
  PROVE  Windows(hits, passed, RateLimit, time)'
<1> DEFINE swept == G!SweptHits
           recent == G!Recent(swept[o])
<1>1. swept \in [Users -> Seq(Nat)] /\ \A u \in Users : EndOf(swept[u], passed[u], time)
  <2>1. CASE swept = hits
    BY <2>1 DEF Windows
  <2>2. CASE swept = [u \in Users |-> IF hits[u] = <<>> \/ hits[u][Len(hits[u])] <= time - Window
                                      THEN <<>> ELSE hits[u]]
    <3>1. <<>> \in Seq(Nat)
      BY EmptySeq
    <3>2. swept \in [Users -> Seq(Nat)]
      BY <2>2, <3>1 DEF Windows
    <3>3. ASSUME NEW u \in Users PROVE EndOf(swept[u], passed[u], time)
      <4>1. Logged(passed[u], RateLimit, time) /\ EndOf(hits[u], passed[u], time)
        BY DEF Windows
      <4>2. CASE hits[u] = <<>> \/ hits[u][Len(hits[u])] <= time - Window
        <5>1. swept[u] = <<>>
          BY <2>2, <4>2
        <5>2. EndOf(<<>>, passed[u], time)
          BY <4>1, <4>2, EmptyKept
        <5> QED BY <5>1, <5>2
      <4>3. CASE ~(hits[u] = <<>> \/ hits[u][Len(hits[u])] <= time - Window)
        <5>1. swept[u] = hits[u]
          BY <2>2, <4>3
        <5> QED BY <4>1, <5>1
      <4> QED BY <4>2, <4>3
    <3> QED BY <3>2, <3>3
  <2> QED BY <2>1, <2>2 DEF G!SweptHits
<1>2. Logged(passed[o], RateLimit, time) /\ EndOf(swept[o], passed[o], time)
  BY <1>1 DEF Windows
<1> HIDE DEF swept
<1>3. EndOf(recent, passed[o], time) /\ recent \in Seq(Nat)
  <2>1. EndOf(recent, passed[o], time)
    BY <1>2, RecentKept
  <2> QED BY <2>1 DEF EndOf
<1>4. ASSUME Len(recent) < RateLimit, hits' = [swept EXCEPT ![o] = Append(recent, time)],
             passed' = [passed EXCEPT ![o] = Append(@, time)]
      PROVE  Windows(hits, passed, RateLimit, time)'
  <2> HIDE DEF recent
  <2>1. /\ Logged(Append(passed[o], time), RateLimit, time)
        /\ EndOf(Append(recent, time), Append(passed[o], time), time)
    BY <1>2, <1>3, <1>4, PassLogged, WebProcessAssumption
  <2>2. Append(passed[o], time) \in Seq(Nat) /\ Append(recent, time) \in Seq(Nat)
    BY <2>1 DEF Logged, EndOf
  <2>3. /\ hits' \in [Users -> Seq(Nat)] /\ passed' \in [Users -> Seq(Nat)]
        /\ hits'[o] = Append(recent, time) /\ passed'[o] = Append(passed[o], time)
        /\ \A u \in Users : u # o => hits'[u] = swept[u] /\ passed'[u] = passed[u]
    BY <1>1, <1>4, <2>2 DEF Windows
  <2>4. ASSUME NEW u \in Users PROVE Logged(passed'[u], RateLimit, time) /\ EndOf(hits'[u], passed'[u], time)
    BY <1>1, <2>1, <2>3 DEF Windows
  <2> QED BY <2>3, <2>4 DEF Windows, Logged, EndOf, G!Spaced
<1>5. ASSUME hits' = [swept EXCEPT ![o] = recent], passed' = passed
      PROVE  Windows(hits, passed, RateLimit, time)'
  <2> HIDE DEF recent
  <2>1. /\ hits' \in [Users -> Seq(Nat)] /\ hits'[o] = recent
        /\ \A u \in Users : u # o => hits'[u] = swept[u]
    BY <1>1, <1>3, <1>5 DEF Windows
  <2>2. ASSUME NEW u \in Users PROVE Logged(passed'[u], RateLimit, time) /\ EndOf(hits'[u], passed'[u], time)
    BY <1>1, <1>3, <1>5, <2>1 DEF Windows
  <2> QED BY <1>5, <2>1, <2>2 DEF Windows, Logged, EndOf, G!Spaced
<1> QED BY <1>4, <1>5 DEF G!Consume, swept

\* An owner that is forgotten has no window.
Forgotten == \A u \in Users \ remembered : admissions[u] = <<>>

\* acquire: prune every window, forget idle owners, and count an admission.
LEMMA AcquireWindows ==
  ASSUME time \in Nat, time' = time, NEW p \in Calls, NEW o \in Users, G!Acquire(p, o),
         remembered \subseteq Users, Forgotten, Windows(admissions, admitted, ChatLimit, time)
  PROVE  Windows(admissions, admitted, ChatLimit, time)' /\ Forgotten'
<1> DEFINE pruned == [u \in Users |-> IF u \in G!Kept THEN G!Recent(admissions[u]) ELSE <<>>]
<1>1. ASSUME NEW u \in Users
      PROVE  EndOf(G!Recent(admissions[u]), admitted[u], time)
             /\ G!Recent(admissions[u]) \in Seq(Nat)
  <2>1. EndOf(G!Recent(admissions[u]), admitted[u], time)
    BY RecentKept DEF Windows
  <2> QED BY <2>1 DEF EndOf
<1>2. ASSUME NEW u \in Users
      PROVE  /\ EndOf(pruned[u], admitted[u], time) /\ pruned[u] \in Seq(Nat)
             /\ u \notin G!Kept => pruned[u] = <<>>
  <2>1. CASE u \in G!Kept
    <3>1. pruned[u] = G!Recent(admissions[u])
      BY <2>1
    <3> QED BY <1>1, <2>1, <3>1
  <2>2. CASE u \in remembered /\ u \notin G!Kept
    <3>1. G!Recent(admissions[u]) = <<>> /\ pruned[u] = <<>>
      BY <2>2 DEF G!Kept
    <3> QED BY <1>1, <3>1
  <2>3. CASE u \notin remembered
    <3>1. u \notin G!Kept
      BY <2>3 DEF G!Kept
    <3>2. admissions[u] = <<>> /\ pruned[u] = <<>>
      BY <2>3, <3>1 DEF Forgotten
    <3>3. EndOf(admissions[u], admitted[u], time) /\ admissions[u] \in Seq(Nat)
      BY DEF Windows
    <3> QED BY <3>2, <3>3
  <2> QED BY <2>1, <2>2, <2>3
<1>3. pruned \in [Users -> Seq(Nat)] /\ DOMAIN pruned = Users
  BY <1>2
<1>4. CASE G!Admissible(o)
  <2>1. Len(G!Recent(admissions[o])) < ChatLimit
    BY <1>4, Zenon DEF G!Admissible
  <2>2. /\ remembered' = G!Kept \union {o}
        /\ admissions' = [pruned EXCEPT ![o] = Append(@, time)]
        /\ admitted' = [admitted EXCEPT ![o] = Append(@, time)]
    BY <1>4 DEF G!Acquire
  <2>3. Len(pruned[o]) < ChatLimit
    <3>1. CASE o \in G!Kept
      BY <2>1, <3>1
    <3>2. CASE o \notin G!Kept
      <4>1. Len(pruned[o]) = 0
        BY <1>2, <3>2, EmptySeq
      <4>2. Len(G!Recent(admissions[o])) \in Nat
        BY <1>1, LenProperties
      <4> QED BY <2>1, <4>1, <4>2, WebProcessAssumption
    <3> QED BY <3>1, <3>2
  <2> HIDE DEF pruned
  <2>4. /\ Logged(Append(admitted[o], time), ChatLimit, time)
        /\ EndOf(Append(pruned[o], time), Append(admitted[o], time), time)
    <3>1. Logged(admitted[o], ChatLimit, time)
      BY DEF Windows
    <3> QED BY <1>2, <2>3, <3>1, PassLogged, WebProcessAssumption
  <2>5. Append(admitted[o], time) \in Seq(Nat) /\ Append(pruned[o], time) \in Seq(Nat)
    BY <2>4 DEF Logged, EndOf
  <2>6. /\ admissions' \in [Users -> Seq(Nat)] /\ admitted' \in [Users -> Seq(Nat)]
        /\ admissions'[o] = Append(pruned[o], time) /\ admitted'[o] = Append(admitted[o], time)
        /\ \A u \in Users : u # o => admissions'[u] = pruned[u] /\ admitted'[u] = admitted[u]
    BY <1>3, <2>2, <2>5 DEF Windows
  <2>7. ASSUME NEW u \in Users
        PROVE  Logged(admitted'[u], ChatLimit, time) /\ EndOf(admissions'[u], admitted'[u], time)
    BY <1>2, <2>4, <2>6 DEF Windows
  <2>8. Forgotten'
    BY <1>2, <2>2, <2>6 DEF Forgotten
  <2> QED BY <2>6, <2>7, <2>8 DEF Windows, Logged, EndOf, G!Spaced
<1>5. CASE ~G!Admissible(o)
  <2>1. remembered' = G!Kept /\ admissions' = pruned /\ admitted' = admitted
    BY <1>5 DEF G!Acquire
  <2> HIDE DEF pruned
  <2>2. ASSUME NEW u \in Users
        PROVE  Logged(admitted'[u], ChatLimit, time) /\ EndOf(admissions'[u], admitted'[u], time)
    BY <1>2, <2>1 DEF Windows
  <2>3. Forgotten'
    BY <1>2, <2>1 DEF Forgotten
  <2> QED BY <1>3, <2>1, <2>2, <2>3 DEF Windows, Logged, EndOf, G!Spaced
<1> QED BY <1>4, <1>5

LEMMA WindowInvFrame ==
  ASSUME time \in Nat, time' \in Nat, time <= time', WindowInv
  PROVE  /\ UNCHANGED <<hits, passed>> => Windows(hits, passed, RateLimit, time)'
         /\ UNCHANGED <<admissions, admitted>> =>
              Windows(admissions, admitted, ChatLimit, time)'
<1>1. /\ Windows(hits, passed, RateLimit, time')
      /\ Windows(admissions, admitted, ChatLimit, time')
  BY LaterWindows DEF WindowInv
<1>2. ASSUME UNCHANGED <<hits, passed>> PROVE Windows(hits, passed, RateLimit, time)'
  <2>1. Windows(hits', passed', RateLimit, time')
    BY <1>1, <1>2
  <2> QED BY <2>1 DEF Windows, Logged, EndOf, G!Spaced
<1>3. ASSUME UNCHANGED <<admissions, admitted>>
      PROVE  Windows(admissions, admitted, ChatLimit, time)'
  <2>1. Windows(admissions', admitted', ChatLimit, time')
    BY <1>1, <1>3
  <2> QED BY <2>1 DEF Windows, Logged, EndOf, G!Spaced
<1> QED BY <1>2, <1>3

LEMMA WindowStep ==
  ASSUME IInv, WindowInv, Forgotten, Remembering, [Next]_vars
  PROVE  WindowInv' /\ Forgotten' /\ Remembering'
<1>0. time \in Nat /\ time' \in Nat /\ time <= time'
  <2>1. time \in Nat
    BY DEF IInv, CacheTypes
  <2>2. time' = time \/ time' = time + 1
    <3>1. CASE Pass \/ UNCHANGED vars
      BY <3>1 DEF Pass, Tick, vars, cacheVars
    <3>2. ASSUME NEW p \in Calls, Run(p) PROVE time' = time
      BY <3>2 DEF Run, Finish, Query, Load, LoadFails, Share, Settle
    <3>3. ASSUME NEW p \in Calls, Admit(p) \/ \E u \in Users : Enter(p, u) PROVE time' = time
      BY <3>3 DEF Admit, G!Acquire, Enter, G!Consume
    <3>4. ASSUME NEW p \in Calls, NEW k \in Keys, View(p, k) \/ Write(p, k) PROVE time' = time
      BY <3>4 DEF View, Remember, Write, Commit
    <3>5. ASSUME NEW p \in Calls, Ask(p) \/ Leave(p) PROVE time' = time
      BY <3>5 DEF Ask, Remember, Leave, Return
    <3> QED BY <3>1, <3>2, <3>3, <3>4, <3>5 DEF Next
  <2> QED BY <2>1, <2>2
<1>1. CASE UNCHANGED <<hits, passed, admissions, admitted, remembered>>
  BY <1>0, <1>1, WindowInvFrame DEF WindowInv, Forgotten, Remembering
<1>2. ASSUME NEW p \in Calls, NEW u \in Users, Enter(p, u)
      PROVE  WindowInv' /\ Forgotten' /\ Remembering'
  <2>1. G!Consume(u) /\ time' = time /\ UNCHANGED <<admissions, admitted, remembered>>
    BY <1>2 DEF Enter, G!Consume, G!admission
  <2> QED BY <1>0, <2>1, ConsumeStep, WindowInvFrame DEF WindowInv, Forgotten, Remembering
<1>3. ASSUME NEW p \in Calls, Admit(p) PROVE WindowInv' /\ Forgotten' /\ Remembering'
  <2>1. Owner(call[p].key) \in Users
    <3>1. call[p].key \in Keys
      BY <1>3 DEF Admit, IInv, UnderWay
    <3> QED BY <3>1 DEF Keys, Owner
  <2>2. /\ G!Acquire(p, Owner(call[p].key)) /\ time' = time /\ UNCHANGED <<hits, passed>>
    BY <1>3 DEF Admit, G!Acquire, G!limiter
  <2>3. Windows(admissions, admitted, ChatLimit, time)' /\ Forgotten'
    BY <1>0, <2>1, <2>2, AcquireWindows DEF WindowInv, Remembering
  <2>4. Remembering'
    BY <2>1, <2>2, RememberingStep
  <2> QED BY <1>0, <2>2, <2>3, <2>4, WindowInvFrame DEF WindowInv
<1>4. ASSUME NEW p \in Calls, Leave(p)
      PROVE  UNCHANGED <<hits, passed, admissions, admitted, remembered>>
  BY <1>4 DEF Leave, gate, G!Release, G!limiter
<1>5. ASSUME Pass \/ UNCHANGED vars \/ \E p \in Calls : Ask(p) \/ Run(p) \/
               \E k \in Keys : View(p, k) \/ Write(p, k)
      PROVE  UNCHANGED <<hits, passed, admissions, admitted, remembered>>
  BY <1>5 DEF Pass, Ask, Run, View, Write, gate, vars
<1> QED BY <1>1, <1>2, <1>3, <1>4, <1>5 DEF Next

\* The bounds, the order of the cache and the windows hold in the initial state.
LEMMA GateInit ==
  ASSUME Init
  PROVE  OrderInv /\ Bounded /\ WindowInv /\ Forgotten /\ Remembering
<1>1. OrderInv
  <2>1. /\ recency = <<>> /\ HeldKeys = {}
    BY DEF Init, CacheInit, HeldKeys
  <2>2. <<>> \in Seq(Keys) /\ Len(<<>>) = 0 /\ DOMAIN <<>> = {}
    BY EmptySeq
  <2> QED BY <2>1, <2>2, ReadCacheAssumption DEF OrderInv, Enumerates
<1>2. Bounded
  BY ReadCacheAssumption DEF Init, CacheInit, Bounded
<1>3. Forgotten /\ Remembering
  <2>1. IsFiniteSet({}) /\ Cardinality({}) = 0
    BY FS_EmptySet
  <2> QED BY <2>1, WebProcessAssumption DEF Init, G!GateInit, Forgotten, Remembering
<1>4. WindowInv
  <2>1. /\ <<>> \in Seq(Nat) /\ Len(<<>>) = 0 /\ DOMAIN <<>> = {} /\ time \in Nat
        /\ Len(<<>>) - Len(<<>>) = 0 /\ 1..0 = {}
    BY EmptySeq DEF Init, CacheInit
  <2>2. \A limit : Logged(<<>>, limit, time) /\ EndOf(<<>>, <<>>, time)
    BY <2>1 DEF Logged, EndOf, G!Spaced
  <2>3. /\ hits = [o \in Users |-> <<>>] /\ passed = [o \in Users |-> <<>>]
        /\ admissions = [o \in Users |-> <<>>] /\ admitted = [o \in Users |-> <<>>]
    BY DEF Init, G!GateInit
  <2> QED BY <2>1, <2>2, <2>3 DEF WindowInv, Windows
<1> QED BY <1>1, <1>2, <1>3, <1>4

\* The cache holds each key once and no more than it may, the admission
\* remembers no more owners than it may, and no owner gets more than the limit
\* into any window: for every number of users, entries and calls, every window
\* and limit, whatever was pruned, swept, evicted or forgotten
\* (cache.ts:124-163, rate-limit.ts:44-80, admission.ts:11-32).
THEOREM WebProcessInv == Spec => []Inv
<1> DEFINE J == OrderInv /\ Bounded /\ WindowInv /\ Forgotten /\ Remembering
<1>1. Init => J
  BY GateInit
<1>2. IInv /\ J /\ [Next]_vars => J'
  BY OrderStep, BoundedStep, WindowStep
<1>3. IInv /\ J => Inv
  <2> SUFFICES ASSUME IInv, J PROVE Inv
    OBVIOUS
  <2>1. /\ \A k \in Keys : (\E i \in DOMAIN recency : recency[i] = k) <=> entry[k] # None
        /\ Len(recency) <= MaxEntries
    BY DEF OrderInv, Enumerates, HeldKeys
  <2>2. Len(recency) = Cardinality({k \in Keys : entry[k] # None})
    <3>1. HeldKeys \in SUBSET Keys
      BY DEF HeldKeys
    <3> QED BY <3>1, EnumeratesAll DEF OrderInv, HeldKeys
  <2>3. TypeOK
    BY <2>1, <2>2 DEF IInv, CacheTypes, Bounded, Remembering, TypeOK
  <2>4. NoBurst
    BY DEF WindowInv, Windows, Logged, NoBurst, G!NoBurst
  <2> QED BY <2>3, <2>4 DEF Inv
<1> QED BY <1>1, <1>2, <1>3, Inductive, PTL DEF Spec

===============================================================================
