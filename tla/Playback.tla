------------------------------- MODULE Playback -------------------------------
(***************************************************************************)
(* One frame buffer driven the way Player drives it: a reset to the start   *)
(* of the show, a seek, and ticks of a clock that only moves forward        *)
(* (Player::resetPlayback, set_time_us, updatePlayback).                    *)
(***************************************************************************)
EXTENDS FrameBuffer

CONSTANTS
  Timelines,   \* the timelines to play
  LastTime     \* bound: the last playback time

ASSUME TimelinesAssumption == Timelines \subseteq Seq([at : Nat, ok : BOOLEAN])
ASSUME LastTimeAssumption  == LastTime \in Nat

VARIABLES ts, frames, now_us, status    \* frames is the frame buffer

playbackVars == <<ts, frames, now_us, status>>

PlaybackInit ==
  /\ ts \in Timelines
  /\ frames = ResetFb(ts)
  /\ now_us = 0
  /\ status = "RESET"

(* Player::resetPlayback *)
PlaybackReset ==
  /\ frames' = ResetFb(ts)
  /\ now_us' = 0
  /\ status' = "RESET"
  /\ UNCHANGED ts

Computed(fb, t) ==
  LET r == Compute(ts, fb, t) IN
  /\ frames' = r.fb
  /\ status' = r.status
  /\ now_us' = t
  /\ UNCHANGED ts

(* Player::set_time_us: the clock, then fb.seek, then fb.compute *)
PlaybackSeek(t) == Computed(SeekFb(ts, frames, t), t)

(* Player::updatePlayback *)
PlaybackTick(t) == t >= now_us /\ Computed(frames, t)

PlaybackNext ==
  PlaybackReset \/ \E t \in 0 .. LastTime : PlaybackSeek(t) \/ PlaybackTick(t)

PlaybackSpec == PlaybackInit /\ [][PlaybackNext]_playbackVars

-----------------------------------------------------------------------------
Increasing == \A i \in 1 .. Len(ts) - 1 : ts[i].at < ts[i + 1].at
Playable   == Increasing /\ \A i \in 1 .. Len(ts) : ts[i].ok

(* The frame to show at a time: the last one not after it, or else the first *)
FrameAt(t) == Max({1} \cup {i \in 1 .. Len(ts) : ts[i].at <= t})

(* Whatever mixture of seeks, resets and ticks came before -- also after the
   end was reached -- the pair interpolated between is the frame due at the
   playback time and the one that follows it (framebuffer.cpp:172-235,
   control_reader.c:206-216). *)
PairIsDue ==
  Playable /\ status = "OK" => frames.cur = FrameAt(now_us) /\ frames.nxt = frames.cur + 1

\* The end is reported with the last frame on show; a show of one frame shows a zeroed one.
EndIsTheEnd ==
  /\ \A i \in 1 .. Len(ts) : ts[i].at <= now_us
  /\ Len(ts) # 1 => frames.cur = Len(ts)

(* No report of compute() comes without its cause, whatever seeks, resets and ticks came
   before: the end is reported at the end, a show is held still only before its first
   frame or after its end was reported, and only a malformed show ends in an error
   (framebuffer.cpp:172-235). *)
ReportsHaveCause ==
  /\ Playable /\ status = "EOF_REACHED" => EndIsTheEnd
  /\ Playable /\ status = "HOLD" => frames.eof \/ (frames.cur = 1 /\ now_us < ts[1].at)
  /\ status = "ERROR" => ~Playable

=============================================================================
