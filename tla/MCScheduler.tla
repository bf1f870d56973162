------------------------------ MODULE MCScheduler ------------------------------
(* Commands on air, as a controller sends them. *)
EXTENDS Scheduler

Command(id, cmd, data, red, at) ==
  [id |-> id, cmd |-> cmd, data |-> data, prep |-> red, at |-> at]

Play(id, at)  == Command(id, "PLAY", 0, 2, at)

(* A show that is started, then cancelled *)
MCCancelled == {Play(1, 5), Command(2, "CANCEL", 1, 0, 4)}

(* A show, a status check before it and an update after it *)
MCShow == {Play(1, 5), Command(2, "CHECK", 0, 0, 4), Command(3, "UPLOAD", 0, 0, 5)}

=============================================================================
