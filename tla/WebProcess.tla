------------------------------- MODULE WebProcess -------------------------------
(* One web process: chats pass the rate limiter and the admission, read        *)
(* through the cache, and give their lease back, while dashboards read and      *)
(* writers write. http.ts, assistant/chat/route.ts.                            *)
EXTENDS ReadCache

CONSTANTS Window, RateLimit, ChatLimit, OwnerLimit, TotalLimit, Capacity,
          Menu         \* bound: what each call may be

ASSUME WebProcessAssumption ==
  /\ {OwnerLimit, TotalLimit, Capacity} \subseteq Nat \ {0}
  /\ {Window, RateLimit, ChatLimit} \subseteq Nat

VARIABLES hits, lastSweep, remembered, running, admissions, total, lease,
          passed, admitted

G == INSTANCE RequestGate WITH Owners <- Users, Leases <- Calls, NoOwner <- None,
                               clock <- time

gate == <<hits, lastSweep, remembered, running, admissions, total, lease,
          passed, admitted>>
vars == <<cacheVars, gate>>

Init == CacheInit /\ G!GateInit

\* withAuthenticatedUser: the request is counted and passes, or is refused.
Enter(p, u) ==
  /\ <<"chat", u>> \in Menu[p] /\ call[p].at = "idle"
  /\ G!Consume(u)
  /\ IF passed' # passed
     THEN call' = [call EXCEPT ![p] = [Idle EXCEPT !.key = <<"accounts", u>>, !.at = "entered"]]
     ELSE UNCHANGED call
  /\ UNCHANGED <<version, cache, settled>>

\* POST /assistant/chat: a lease, or 429.
Admit(p) ==
  /\ call[p].at = "entered"
  /\ G!Acquire(p, Owner(call[p].key))
  /\ IF lease'[p] # None THEN call' = [call EXCEPT ![p].at = "admitted"] ELSE Ends(p, "idle")
  /\ UNCHANGED <<version, cache, settled>>

\* The chat reads the portfolio; so do dashboards, without a lease.
Ask(p) ==
  /\ call[p].at = "admitted"
  /\ Remember(p, call[p].key)
  /\ UNCHANGED gate

View(p, k) ==
  /\ <<"read", Owner(k)>> \in Menu[p] /\ call[p].at = "idle"
  /\ Remember(p, k)
  /\ UNCHANGED gate

Write(p, k) ==
  /\ <<"write", Owner(k)>> \in Menu[p] /\ Kind(k) = "accounts"
  /\ Commit(p, k)
  /\ UNCHANGED gate

\* mutant: the lease is released after an answer only
LeaveOnSuccess(p) ==
  /\ Return(p)
  /\ IF lease[p] # None /\ call[p].at = "done" THEN G!Release(p) ELSE UNCHANGED gate

\* The answer is sent; a chat releases its lease whatever happened (finally).
Leave(p) ==
  /\ Return(p)
  /\ IF lease[p] # None THEN G!Release(p) ELSE UNCHANGED gate

Pass == Tick /\ UNCHANGED gate

Run(p) == Finish(p) /\ UNCHANGED gate

Next ==
  \/ Pass
  \/ \E p \in Calls :
       \/ \E u \in Users : Enter(p, u)
       \/ \E k \in Keys : View(p, k) \/ Write(p, k)
       \/ Admit(p) \/ Ask(p) \/ Run(p) \/ Leave(p)

Spec == Init /\ [][Next]_vars

\* Promises settle, queries return or fail, the event loop goes on.
Fairness ==
  \A p \in Calls : WF_vars(Admit(p) \/ Ask(p) \/ Run(p) \/ Leave(p))

FairSpec == Spec /\ Fairness

-------------------------------------------------------------------------------
TypeOK ==
  /\ time \in 0..MaxTime
  /\ version \in [Keys -> 0..MaxVersion]
  /\ entry \in [Keys -> {None} \union [value : Nat, expires : Nat]]
  /\ \A k \in Keys : (\E i \in DOMAIN recency : recency[i] = k) <=> entry[k] # None
  /\ Len(recency) = Cardinality({k \in Keys : entry[k] # None})
  /\ Len(recency) <= MaxEntries
  /\ flight \in [Keys -> Calls \union {None}]
  /\ remembered \subseteq Users /\ Cardinality(remembered) <= Capacity

NoBurst == G!NoBurst

Inv == TypeOK /\ NoBurst

\* The counters are the leases held: none is lost, and none is released into
\* an owner that was forgotten meanwhile (admission.ts:13-18, 33-38).
LeasesCounted ==
  /\ total = Cardinality({p \in Calls : lease[p] # None}) /\ total <= TotalLimit
  /\ \A u \in Users :
       /\ running[u] = Cardinality({p \in Calls : lease[p] = u})
       /\ running[u] <= OwnerLimit
       /\ running[u] > 0 => u \in remembered

\* A chat that was admitted gives its lease back, also when the load it joined
\* fails or is fenced (route.ts:31-46).
Chats == {p \in Calls : \E u \in Users : <<"chat", u>> \in Menu[p]}
LeaseReturns == \A p \in Chats : lease[p] # None ~> lease[p] = None
=================================================================================
