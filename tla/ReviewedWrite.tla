--------------------------- MODULE ReviewedWrite ---------------------------
(***************************************************************************)
(* What a reviewed write promises the owner of the data, whatever the      *)
(* concurrent approvals, crashes and lost acknowledgements: it happens at  *)
(* most once; "done" is reported only when it happened, "void" only when   *)
(* it did not and never will; a report, once made, stays.  Only "unknown"  *)
(* leaves the owner to look.                                               *)
(***************************************************************************)
EXTENDS Naturals

CONSTANT Actions

VARIABLES
  writes,      \* writes[a]: how many writes of action a are in the data
  report       \* report[a]: what the journal says of action a

wvars == <<writes, report>>

Reports == {"open", "done", "void", "unknown"}

WriteTypeOK ==
  /\ writes \in [Actions -> {0, 1}]
  /\ report \in [Actions -> Reports]

WriteInit ==
  /\ writes = [a \in Actions |-> 0]
  /\ report = [a \in Actions |-> "open"]

(* The write commits; the report may be made in the same step. *)
Happen(a) ==
  /\ writes[a] = 0
  /\ report[a] \in {"open", "unknown"}
  /\ writes' = [writes EXCEPT ![a] = 1]
  /\ \/ UNCHANGED report
     \/ report[a] = "open" /\ report' = [report EXCEPT ![a] = "done"]

ReportDone(a) ==
  /\ report[a] = "open" /\ writes[a] = 1
  /\ report' = [report EXCEPT ![a] = "done"]
  /\ UNCHANGED writes

ReportVoid(S) ==
  /\ \A a \in S : report[a] = "open" /\ writes[a] = 0
  /\ report' = [a \in Actions |-> IF a \in S THEN "void" ELSE report[a]]
  /\ UNCHANGED writes

ReportUnknown(S) ==
  /\ \A a \in S : report[a] = "open"
  /\ report' = [a \in Actions |-> IF a \in S THEN "unknown" ELSE report[a]]
  /\ UNCHANGED writes

WriteNext ==
  \/ \E a \in Actions : Happen(a) \/ ReportDone(a)
  \/ \E S \in SUBSET Actions : ReportVoid(S) \/ ReportUnknown(S)

WriteSpec == WriteInit /\ [][WriteNext]_wvars
=============================================================================
