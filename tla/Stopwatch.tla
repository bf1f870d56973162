------------------------------- MODULE Stopwatch -------------------------------
(***************************************************************************)
(* What a playback clock promises: a time that moves only while the clock   *)
(* runs, that a pause and a resume leave where it was, and that jumps only  *)
(* when it is zeroed, set, opened or closed.                                *)
(***************************************************************************)
EXTENDS Integers

VARIABLES mode, shown

vars == <<mode, shown>>

Init == mode = "closed" /\ shown = 0

Open  == mode = "closed" /\ mode' = "held" /\ shown' = 0
Close == mode # "closed" /\ mode' = "closed" /\ shown' = 0
Run   == mode = "held" /\ mode' = "running" /\ UNCHANGED shown
Hold  == mode = "running" /\ mode' = "held" /\ UNCHANGED shown
Zero  == mode # "closed" /\ mode' = "held" /\ shown' = 0
Set   == mode = "held" /\ shown' \in Nat /\ UNCHANGED mode
Elapse == mode = "running" /\ shown' > shown /\ shown' \in Nat /\ UNCHANGED mode

Next == Open \/ Close \/ Run \/ Hold \/ Zero \/ Set \/ Elapse

Spec == Init /\ [][Next]_vars

=============================================================================
