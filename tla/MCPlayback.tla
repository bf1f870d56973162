------------------------------ MODULE MCPlayback ------------------------------
(* Every timeline of up to three frames with timestamps up to 3, in order or
   not, with any bad frames. *)
EXTENDS Playback, SequencesExt

MCTimelines == SeqOf([at : 0 .. 3, ok : BOOLEAN], 3)

=============================================================================
