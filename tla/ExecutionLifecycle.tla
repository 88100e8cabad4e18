------------------------ MODULE ExecutionLifecycle ------------------------
(***************************************************************************)
(* What the system promises about one table of executions, without queue,  *)
(* workers, containers or clocks: an execution is submitted once, its code *)
(* runs at most once, a row goes back to the queue only while its code has *)
(* not run, "succeeded" is only said of code that ran, and a terminal      *)
(* status is final.                                                        *)
(***************************************************************************)
EXTENDS ExecutionRows

CONSTANT Exec

VARIABLES
  row,  \* executions.status
  ran   \* executions whose code was handed to a sandbox

Init == row = [e \in Exec |-> "none"] /\ ran = {}

Submit(e) == row[e] = "none" /\ row' = [row EXCEPT ![e] = "queued"] /\ UNCHANGED ran

Claim(e) == row[e] = "queued" /\ row' = [row EXCEPT ![e] = "running"] /\ UNCHANGED ran

\* Only a claim whose code never ran can be given back.
GiveBack(e) ==
  /\ row[e] = "running" /\ e \notin ran
  /\ row' = [row EXCEPT ![e] = "queued"] /\ UNCHANGED ran

\* The claimer runs the code, possibly after the row was failed under it.
RunCode(e) ==
  /\ row[e] \notin {"none", "queued"} /\ e \notin ran
  /\ ran' = ran \cup {e} /\ UNCHANGED row

Complete(e, s) ==
  /\ row[e] = "running" /\ (s = "succeeded" => e \in ran)
  /\ row' = [row EXCEPT ![e] = s] /\ UNCHANGED ran

\* A statement may fail several abandoned rows at once.
Abandon(S) ==
  /\ \A e \in S : row[e] \in {"queued", "running"}
  /\ row' = [e \in Exec |-> IF e \in S THEN "failed" ELSE row[e]]
  /\ UNCHANGED ran

Next ==
  \/ \E e \in Exec : Submit(e) \/ Claim(e) \/ GiveBack(e) \/ RunCode(e)
  \/ \E e \in Exec, s \in Terminal : Complete(e, s)
  \/ \E S \in SUBSET Exec : Abandon(S)

Spec == Init /\ [][Next]_<<row, ran>>
=============================================================================
