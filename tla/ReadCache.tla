------------------------------- MODULE ReadCache -------------------------------
(* The in-process cache of the web server: InMemoryCache, the reads that go    *)
(* through `remember`, the writes that invalidate, and the authentications     *)
(* that get, look up and set.                                                  *)
(*                                                                             *)
(* The database is a version per key: how many commits changed what the key    *)
(* shows. A token has two, live (0) and revoked (1). A cached value is the     *)
(* oldest version its loader saw. JavaScript runs between two awaits without   *)
(* interruption: each action is such a stretch.                                *)
EXTENDS Integers, Sequences, FiniteSets

CONSTANTS
  Users,
  Calls,       \* concurrent calls; each is used again and again
  TTL,
  MaxEntries,
  MaxVersion, MaxTime, \* bounds
  None

ASSUME ReadCacheAssumption ==
  /\ {TTL, MaxEntries, MaxVersion} \subseteq Nat \ {0} /\ MaxTime \in Nat
  /\ None \notin Calls \union Users /\ IsFiniteSet(Calls)
  /\ None \notin [value : Nat, expires : Nat]

Keys == {"accounts", "auth"} \X Users
Kind(k) == k[1]
Owner(k) == k[2]    \* its tag, `user:<id>`

VARIABLES
  time,
  version,   \* the database
  entry,     \* [value, expires] or None, by key
  recency,   \* the keys of entry, least recently used first
  flight,    \* the call loading a key, or None
  call,
  settled    \* history: the newest version a settled write of this process made

cache == <<entry, recency, flight>>
cacheVars == <<time, version, cache, call, settled>>

Idle == [op |-> "read", key |-> None, at |-> "idle", value |-> 0, fenced |-> FALSE,
         floor |-> 0, on |-> None]

CacheInit ==
  /\ time = 0
  /\ version = [k \in Keys |-> 0]
  /\ entry = [k \in Keys |-> None] /\ recency = <<>>
  /\ flight = [k \in Keys |-> None]
  /\ call = [p \in Calls |-> Idle]
  /\ settled = [k \in Keys |-> 0]

-------------------------------------------------------------------------------
(* InMemoryCache                                                               *)

Live(k) == entry[k] # None /\ time < entry[k].expires

\* entries.delete: the order of the others stays.
Removed(order, k) ==
  IF \E i \in DOMAIN order : order[i] = k
  THEN LET at == CHOOSE i \in DOMAIN order : order[i] = k
       IN [j \in 1..(Len(order) - 1) |-> order[IF j < at THEN j ELSE j + 1]]
  ELSE order

\* entries.set: the key becomes the most recent.
Renewed(k) == Append(Removed(recency, k), k)

\* read: an expired entry goes, a live one becomes the most recent.
Read(k) ==
  IF Live(k) THEN recency' = Renewed(k) /\ UNCHANGED entry
  ELSE recency' = Removed(recency, k) /\ entry' = [entry EXCEPT ![k] = None]

\* write: the least recently used entry makes room.
Store(k, value) ==
  LET order == Renewed(k)
      over == Len(order) > MaxEntries
  IN /\ recency' = IF over THEN Tail(order) ELSE order
     /\ entry' = [j \in Keys |->
          IF over /\ j = Head(order) THEN None
          ELSE IF j = k THEN [value |-> value, expires |-> time + TTL] ELSE entry[j]]

\* invalidateTag: the keys of a user go one by one.
Invalidate(user) ==
  /\ recency' = Removed(Removed(recency, <<"accounts", user>>), <<"auth", user>>)
  /\ entry' = [k \in Keys |-> IF Owner(k) = user THEN None ELSE entry[k]]

\* mutant: an invalidation leaves the loads alone
InFlightNone(user) == {}

InFlight(user) == {flight[k] : k \in {j \in Keys : Owner(j) = user /\ flight[j] # None}}

-------------------------------------------------------------------------------
(* Reads: remember(key, loader)                                                *)

Started(op, k) == [Idle EXCEPT !.op = op, !.key = k, !.floor = settled[k]]

\* mutant: nobody joins a load
JoinableNever(k) == FALSE

Joinable(k) == flight[k] # None /\ ~call[flight[k]].fenced

\* Hit, join the load in flight, or start one. A fenced load is not joined.
Remember(p, k) ==
  /\ Kind(k) = "accounts"
  /\ Read(k)
  /\ \/ /\ Live(k)
        /\ call' = [call EXCEPT ![p] =
             [Started("read", k) EXCEPT !.at = "done", !.value = entry[k].value]]
        /\ UNCHANGED flight
     \/ /\ ~Live(k) /\ Joinable(k)
        /\ call' = [call EXCEPT ![p] =
             [Started("read", k) EXCEPT !.at = "join", !.on = flight[k]]]
        /\ UNCHANGED flight
     \/ /\ ~Live(k) /\ ~Joinable(k)
        /\ call' = [call EXCEPT ![p] = [Started("read", k) EXCEPT !.at = "load"]]
        /\ flight' = [flight EXCEPT ![k] = p]
  /\ UNCHANGED <<time, version, settled>>

\* The first query of the loader, or the token lookup, reads the database.
Query(p) ==
  /\ call[p].at = "load"
  /\ call' = [call EXCEPT ![p].at = "loaded", ![p].value = version[call[p].key]]
  /\ UNCHANGED <<time, version, cache, settled>>

Ends(p, at) == call' = [call EXCEPT ![p] = [Idle EXCEPT !.at = at]]

Landed(p) == [k \in Keys |-> IF flight[k] = p THEN None ELSE flight[k]]

\* The loader returns: stored unless an invalidation fenced it meanwhile.
Load(p) ==
  /\ call[p].op = "read" /\ call[p].at = "loaded"
  /\ IF call[p].fenced THEN UNCHANGED <<entry, recency>>
     ELSE Store(call[p].key, call[p].value)
  /\ flight' = Landed(p)
  /\ call' = [call EXCEPT ![p].at = "done", ![p].fenced = FALSE]
  /\ UNCHANGED <<time, version, settled>>

\* The loader or the lookup throws. Nothing is stored.
LoadFails(p) ==
  /\ call[p].at = "load"
  /\ flight' = Landed(p)
  /\ Ends(p, "failed")
  /\ UNCHANGED <<time, version, entry, recency, settled>>

\* Those who joined share the outcome.
Share(p) ==
  /\ call[p].at = "join" /\ call[call[p].on].at \in {"done", "failed"}
  /\ call' = [call EXCEPT ![p].at = call[call[p].on].at, ![p].on = None,
                          ![p].value = call[call[p].on].value]
  /\ UNCHANGED <<time, version, cache, settled>>

-------------------------------------------------------------------------------
(* Authentications: get, look up, set                                          *)

Authenticate(p, k) ==
  /\ call[p].at = "idle" /\ Kind(k) = "auth"
  /\ Read(k)
  /\ call' = [call EXCEPT ![p] =
       IF Live(k) THEN [Started("auth", k) EXCEPT !.at = "done", !.value = entry[k].value]
       ELSE [Started("auth", k) EXCEPT !.at = "load"]]
  /\ UNCHANGED <<time, version, flight, settled>>

\* A refusal is never cached, a success always.
Authenticated(p) ==
  /\ call[p].op = "auth" /\ call[p].at = "loaded"
  /\ IF call[p].value = 0 THEN Store(call[p].key, 0) ELSE UNCHANGED <<entry, recency>>
  /\ IF call[p].value = 0 THEN call' = [call EXCEPT ![p].at = "done"] ELSE Ends(p, "failed")
  /\ UNCHANGED <<time, version, flight, settled>>

-------------------------------------------------------------------------------
(* Writes                                                                      *)

Changes(k) == version[k] < (IF Kind(k) = "auth" THEN 1 ELSE MaxVersion)

\* A use case commits, or fails.
Commit(p, k) ==
  /\ call[p].at = "idle"
  /\ \/ Changes(k) /\ version' = [version EXCEPT ![k] = @ + 1]
     \/ UNCHANGED version
  /\ call' = [call EXCEPT ![p] =
       [Idle EXCEPT !.op = "write", !.key = k, !.at = "settle", !.value = version'[k]]]
  /\ UNCHANGED <<time, cache, settled>>

\* invalidateOnWrite (finally) -> invalidateTag
Settle(p) ==
  LET user == Owner(call[p].key) IN
  /\ call[p].op = "write" /\ call[p].at = "settle"
  /\ Invalidate(user)
  /\ call' = [q \in Calls |->
       IF q = p THEN Idle
       ELSE IF q \in InFlight(user) THEN [call[q] EXCEPT !.fenced = TRUE] ELSE call[q]]
  /\ settled' = [settled EXCEPT ![call[p].key] =
       IF @ < call[p].value THEN call[p].value ELSE @]
  /\ UNCHANGED <<time, version, flight>>

\* A worker, another instance, or a COMMIT nobody answered: no invalidation.
CommitElsewhere(k) ==
  /\ Changes(k)
  /\ version' = [version EXCEPT ![k] = @ + 1]
  /\ UNCHANGED <<time, cache, call, settled>>

Shared(p) == \E q \in Calls : call[q].at = "join" /\ call[q].on = p

\* The answer is sent; the call's slot is free again.
Return(p) ==
  /\ call[p].at \in {"done", "failed"} /\ ~Shared(p)
  /\ Ends(p, "idle")
  /\ UNCHANGED <<time, version, cache, settled>>

Tick ==
  /\ time < MaxTime
  /\ time' = time + 1
  /\ UNCHANGED <<version, cache, call, settled>>

Finish(p) == Query(p) \/ Load(p) \/ LoadFails(p) \/ Share(p) \/ Settle(p)

CacheNext ==
  \/ Tick
  \/ \E k \in Keys : CommitElsewhere(k)
  \/ \E p \in Calls :
       \/ Finish(p) \/ Authenticated(p) \/ Return(p)
       \/ \E k \in Keys :
            \/ call[p].at = "idle" /\ Remember(p, k)
            \/ Authenticate(p, k) \/ Commit(p, k)

CacheSpec == CacheInit /\ [][CacheNext]_cacheVars

-------------------------------------------------------------------------------
(* What must hold                                                              *)

\* A read that starts after a write of this process has settled sees it, from
\* the cache, from a load it joined, or from its own (cache.ts:9-10).
ReadYourWrites ==
  \A p \in Calls :
    call[p].op = "read" /\ call[p].at = "done" => call[p].value >= call[p].floor

\* At most one load of a key that may still be stored, however many readers
\* ask for it while writes come and go (cache.ts:8).
SingleFlight ==
  \A p, q \in Calls :
    /\ {call[p].op, call[q].op} = {"read"} /\ call[p].key = call[q].key
    /\ {call[p].at, call[q].at} \subseteq {"load", "loaded"}
    /\ ~call[p].fenced /\ ~call[q].fenced
    => p = q

\* A token revoked through this process stops working immediately
\* (read-cache.ts:116-117).
RevokedAtOnce ==
  \A p \in Calls :
    call[p].op = "auth" /\ call[p].at = "done" => call[p].value >= call[p].floor
===============================================================================
