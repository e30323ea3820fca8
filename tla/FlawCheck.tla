----------------------------- MODULE FlawCheck -----------------------------
(***************************************************************************)
(* What the pipeline may rely on when it runs bin/syntax_valid on a file of *)
(* SQL: the flaw file is truncated before it is written, it is written all  *)
(* at once, and a run that reports success has written it.  The scripts     *)
(* ignore the exit status, so it is the truncated file that tells them of a *)
(* run that failed.                                                         *)
(***************************************************************************)
CONSTANTS
  Old,        \* what the flaw file held before the run, if it existed
  Truncated   \* an empty file, which is not JSON

VARIABLES
  verdict,    \* the messages whose SQL does not parse, with their errors
  file,       \* the flaw file
  status      \* "running", or how the run ended

vars == <<verdict, file, status>>

Init ==
  /\ file = Old
  /\ status = "running"

Truncate ==
  /\ status = "running"
  /\ file = Old
  /\ file' = Truncated
  /\ UNCHANGED <<verdict, status>>

Write ==
  /\ status = "running"
  /\ file = Truncated
  /\ file' = verdict
  /\ UNCHANGED <<verdict, status>>

Succeed ==
  /\ status = "running"
  /\ file = verdict
  /\ status' = "ok"
  /\ UNCHANGED <<verdict, file>>

\* A run that ends before it has truncated the file says so.
Fail ==
  /\ status = "running"
  /\ status' \in {"failed", "crashed", "killed"}
  /\ status' = "crashed" => file # Old
  /\ UNCHANGED <<verdict, file>>

Next == Truncate \/ Write \/ Succeed \/ Fail

Spec == Init /\ [][Next]_vars
=============================================================================
