------------------------------ MODULE RequestGate ------------------------------
(* Admission to the web process: InMemoryRateLimiter (a sliding window per     *)
(* limiter key) and AssistantAdmission (a window and a number of running       *)
(* chats per owner, a number of running chats and of owners in all).           *)
EXTENDS Integers, Sequences, FiniteSets

CONSTANTS
  Owners,       \* principals; one limiter key and one admission owner each
  Leases,       \* requests that can hold an admission
  Window,
  RateLimit,    \* requests per window and limiter key
  ChatLimit,    \* admissions per window and owner
  OwnerLimit,   \* running chats of one owner
  TotalLimit,   \* running chats
  Capacity,     \* owners remembered
  NoOwner

VARIABLES
  clock,
  hits, lastSweep,           \* the limiter
  remembered, running, admissions, total, \* the admission: owners, counters
  lease,                     \* the owner whose counters a request will release
  passed, admitted           \* history: when requests passed, chats were admitted

limiter == <<hits, lastSweep, passed>>
admission == <<remembered, running, admissions, total, lease, admitted>>
gateVars == <<clock, limiter, admission>>

GateInit ==
  /\ clock = 0 /\ lastSweep = 0
  /\ hits = [o \in Owners |-> <<>>] /\ passed = [o \in Owners |-> <<>>]
  /\ remembered = {} /\ total = 0
  /\ running = [o \in Owners |-> 0]
  /\ admissions = [o \in Owners |-> <<>>] /\ admitted = [o \in Owners |-> <<>>]
  /\ lease = [r \in Leases |-> NoOwner]

\* filter: times are appended as they pass, so what is too old is a prefix.
Recent(times) ==
  LET old == Cardinality({i \in DOMAIN times : times[i] <= clock - Window})
  IN [i \in 1..(Len(times) - old) |-> times[old + i]]

\* sweep: at most once per window, keys whose last hit is too old are deleted.
SweptHits ==
  IF clock - lastSweep < Window THEN hits
  ELSE [o \in Owners |->
    IF hits[o] = <<>> \/ hits[o][Len(hits[o])] <= clock - Window THEN <<>> ELSE hits[o]]

\* consume: a refused request is not counted.
Consume(o) ==
  LET recent == Recent(SweptHits[o]) IN
  /\ lastSweep' = IF clock - lastSweep < Window THEN lastSweep ELSE clock
  /\ IF Len(recent) < RateLimit
     THEN /\ hits' = [SweptHits EXCEPT ![o] = Append(recent, clock)]
          /\ passed' = [passed EXCEPT ![o] = Append(@, clock)]
     ELSE hits' = [SweptHits EXCEPT ![o] = recent] /\ UNCHANGED passed
  /\ UNCHANGED <<clock, admission>>

\* mutants: only windows, or only running chats, keep an owner
KeptByWindow == {o \in remembered : Recent(admissions[o]) # <<>>}
KeptByRunning == {o \in remembered : running[o] > 0}

\* acquire: windows are pruned and idle owners forgotten before the decision.
Kept == {o \in remembered : running[o] > 0 \/ Recent(admissions[o]) # <<>>}

Admissible(o) ==
  /\ Len(Recent(admissions[o])) < ChatLimit
  /\ total < TotalLimit /\ running[o] < OwnerLimit
  /\ o \in Kept \/ Cardinality(Kept) < Capacity

Acquire(r, o) ==
  LET pruned == [i \in Owners |-> IF i \in Kept THEN Recent(admissions[i]) ELSE <<>>] IN
  /\ lease[r] = NoOwner
  /\ IF Admissible(o)
     THEN /\ remembered' = Kept \union {o}
          /\ admissions' = [pruned EXCEPT ![o] = Append(@, clock)]
          /\ running' = [running EXCEPT ![o] = @ + 1]
          /\ total' = total + 1
          /\ lease' = [lease EXCEPT ![r] = o]
          /\ admitted' = [admitted EXCEPT ![o] = Append(@, clock)]
     ELSE /\ remembered' = Kept /\ admissions' = pruned
          /\ UNCHANGED <<running, total, lease, admitted>>
  /\ UNCHANGED <<clock, limiter>>

\* release, once per lease
Release(r) ==
  /\ lease[r] # NoOwner
  /\ running' = [running EXCEPT ![lease[r]] = @ - 1]
  /\ total' = total - 1
  /\ lease' = [lease EXCEPT ![r] = NoOwner]
  /\ UNCHANGED <<clock, limiter, remembered, admissions, admitted>>

-------------------------------------------------------------------------------
Spaced(times, limit) ==
  \A i \in DOMAIN times :
    i + limit <= Len(times) => times[i + limit] - times[i] >= Window

\* No owner gets more than the limit into any window, whatever was pruned,
\* swept or forgotten in between (rate-limit.ts:73-80, admission.ts:15-18).
NoBurst ==
  \A o \in Owners : Spaced(passed[o], RateLimit) /\ Spaced(admitted[o], ChatLimit)
===============================================================================
