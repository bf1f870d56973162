------------------------------ MODULE FrameBuffer ------------------------------
(***************************************************************************)
(* FrameBuffer (Player/src/framebuffer.cpp): the two key frames around the  *)
(* playback time, how they advance, and where a seek puts them              *)
(* (PT_Reader/control_reader.c, frame_reader.c).                            *)
(*                                                                          *)
(* A timeline ts is the sequence of the frames of frame.dat: the timestamp  *)
(* at, which control.dat repeats, and whether the checksum matches (ok).    *)
(* Frames are numbered from 1, and 0 is a zeroed table_frame_t.  read_frame *)
(* gives the frames in order, as the frame system does after a settled      *)
(* command (FrameSystem, SettledInOrder).                                   *)
(***************************************************************************)
EXTENDS Integers, Sequences, FiniteSetsExt

Stamp(ts, i) == IF i = 0 THEN 0 ELSE ts[i].at

(* cur and nxt are the frames *current and *next, pos the frame the reader
   gives next, eof is eof_reported_, test is test_mode_ # OFF. *)
ZeroFb(pos) == [cur |-> 0, nxt |-> 0, pos |-> pos, eof |-> FALSE, test |-> FALSE]

\* Mutant of ReadStatus: the last frame is taken for the end of the file.
ReadStatusShort(ts, pos) ==
  CASE pos >= Len(ts) -> "NOT_FOUND"
    [] pos < Len(ts)  -> IF ts[pos].ok THEN "OK" ELSE "INVALID"

(* read_frame: what it returns, and the frame buffer if nxt is its argument *)
ReadStatus(ts, pos) ==
  CASE pos > Len(ts)  -> "NOT_FOUND"
    [] pos <= Len(ts) -> IF ts[pos].ok THEN "OK" ELSE "INVALID"

ReadNext(ts, fb) ==
  IF ReadStatus(ts, fb.pos) = "OK"
  THEN [fb EXCEPT !.nxt = fb.pos, !.pos = fb.pos + 1] ELSE fb

Swap(fb) == [fb EXCEPT !.cur = fb.nxt, !.nxt = fb.cur]

(* read_frame(current); read_frame(next) *)
ReadBoth(ts, fb) == ReadNext(ts, Swap(ReadNext(ts, Swap(fb))))

InitFb(ts, fb)  == ReadBoth(ts, ZeroFb(fb.pos))
ResetFb(ts)     == ReadBoth(ts, ZeroFb(1))

(* control_reader_find_seek_frame_idx: walk while the following timestamp is
   not after time; keep a following frame where there is one. *)
SeekFrame(ts, time) ==
  LET reached == Max({i \in 1 .. Len(ts) : \A j \in 2 .. i : ts[j].at <= time})
  IN  IF Len(ts) >= 2 /\ reached = Len(ts) THEN Len(ts) - 1 ELSE reached

(* FrameBuffer::seek; with an empty timeline no command is posted *)
SeekFb(ts, fb, time) ==
  ReadBoth(ts, IF ts = <<>> THEN fb ELSE [fb EXCEPT !.pos = SeekFrame(ts, time)])

-----------------------------------------------------------------------------
(* FrameBuffer::handle_frames *)

\* Mutant of Turn: at its own time the next frame is not due yet.
TurnLate(ts, s, time) ==
  LET fb   == Swap(s.fb)
      read == ReadNext(ts, fb)
  IN  CASE time <= Stamp(ts, s.fb.nxt) -> [s EXCEPT !.status = "OK"]
        [] OTHER -> [fb |-> read, status |-> IF ReadStatus(ts, fb.pos) = "OK"
                                             THEN "LOOP" ELSE "ERROR"]

(* One turn of the loop: keep the pair, or swap and read the following frame. *)
Turn(ts, s, time) ==
  LET fb   == Swap(s.fb)
      read == ReadNext(ts, fb)
      kind == ReadStatus(ts, fb.pos)
  IN  CASE time < Stamp(ts, s.fb.nxt) -> [s EXCEPT !.status = "OK"]
        [] time >= Stamp(ts, s.fb.nxt) /\ kind = "NOT_FOUND" ->
             [fb |-> [fb EXCEPT !.eof = TRUE],
              status |-> IF fb.eof THEN "HOLD" ELSE "EOF_REACHED"]
        [] time >= Stamp(ts, s.fb.nxt) /\ kind = "INVALID" ->
             [fb |-> fb, status |-> "ERROR"]
        [] OTHER ->
             [fb |-> read, status |-> IF Stamp(ts, read.nxt) <= Stamp(ts, read.cur)
                                      THEN "ERROR" ELSE "LOOP"]

(* Every turn that loops reads a frame, so Len(ts) + 1 turns are enough. *)
HandleFrames(ts, fb, time) ==
  LET turns[k \in 0 .. Len(ts) + 1] ==
        IF k = 0 THEN [fb |-> fb, status |-> "LOOP"]
        ELSE LET s == turns[k - 1] IN IF s.status = "LOOP" THEN Turn(ts, s, time) ELSE s
  IN  IF time < Stamp(ts, fb.cur) THEN [fb |-> fb, status |-> "HOLD"]
      ELSE turns[Len(ts) + 1]

(* FrameBuffer::compute *)
Compute(ts, fb, time) ==
  IF fb.test THEN [fb |-> fb, status |-> "OK"] ELSE HandleFrames(ts, fb, time)

=============================================================================
