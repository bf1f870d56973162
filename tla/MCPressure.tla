---------------------------- MODULE MCPressure ----------------------------
(* Five commands that fall due close together: a PLAY with a red light, the CANCEL of
   it, two CHECKs, of which the packets of one disagree, and an UPLOAD. *)
EXTENDS PressureReceiver

Aired(id, cmd, data, prep, at, skew) ==
  [id |-> id, cmd |-> cmd, data |-> data, prep |-> prep, at |-> at, skew |-> skew]

MCOnAir ==
  {Aired(1, "PLAY", 0, 2, 6, 0), Aired(2, "CHECK", 0, 0, 5, 1), Aired(3, "CHECK", 0, 0, 6, 0),
   Aired(4, "CANCEL", 1, 0, 4, 0), Aired(5, "UPLOAD", 0, 0, 5, 0)}

MCAckWaits == <<0, 1, 0, 1>>

=============================================================================
