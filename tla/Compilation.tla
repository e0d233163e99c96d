------------------------------ MODULE Compilation ------------------------------
(***************************************************************************)
(* What one call of the compiler promises to whoever started it, a shell,  *)
(* a build tool or the test runner: the exit status tells whether there is *)
(* a complete output, and no output is touched before the program has been *)
(* accepted.                                                               *)
(***************************************************************************)
VARIABLES
  status,   \* of the latest call
  target    \* its output: as it was, opened but incomplete, or complete

promiseVars == <<status, target>>

Working == {"running", "accepted"}

Init == status = "idle" /\ target = "old"

Begin ==
  /\ status \notin Working
  /\ status' = "running"
  /\ target' = "old"

\* No error is left that the front end would stop for.
Accept ==
  /\ status = "running"
  /\ status' = "accepted"
  /\ UNCHANGED target

OpenTarget ==
  /\ status = "accepted"
  /\ target = "old"
  /\ target' = "broken"
  /\ UNCHANGED status

\* Exit 0 and a complete output come in one step, and only together.
Succeed ==
  /\ status = "accepted"
  /\ status' = "compiled"
  /\ target' = "new"

Help ==
  /\ status = "running"
  /\ status' = "helped"
  /\ UNCHANGED target

Fail ==
  /\ status \in Working
  /\ status' = "failed"
  /\ UNCHANGED target

Next == Begin \/ Accept \/ OpenTarget \/ Succeed \/ Help \/ Fail

Spec == Init /\ [][Next]_promiseVars

\* A call that has begun comes to an end.
Ends == status \in Working ~> status \notin Working
================================================================================
