-------------------------------- MODULE MCPlayer --------------------------------
(* A show of two frames, and one whose second frame is bad: it fails when played
   from the start, and ends when a seek passes over that frame. *)
EXTENDS Player

Frame(at, ok) == [at |-> at, ok |-> ok]

MCTwo == <<Frame(0, TRUE), Frame(1, TRUE)>>
MCBad == <<Frame(0, TRUE), Frame(0, FALSE), Frame(0, TRUE), Frame(1, TRUE)>>

=============================================================================
