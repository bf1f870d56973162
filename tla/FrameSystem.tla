------------------------------ MODULE FrameSystem ------------------------------
(***************************************************************************)
(* The frame system of the pattern-table reader (PT_Reader/readframe.c) and *)
(* its one client, the player task, which calls it through FrameBuffer      *)
(* (Player/src/framebuffer.cpp).                                            *)
(*                                                                          *)
(* The reader task prefetches one frame into frame_buf.  Two binary         *)
(* semaphores hand the buffer over: sem_free (the reader may fill it) and   *)
(* sem_ready (the player may copy it).  A reset or a seek is posted in the  *)
(* shared variables cmd, cmd_seek_frame_idx and reader_epoch.               *)
(*                                                                          *)
(* The two tasks run on two cores, so every access to a shared variable     *)
(* that the other task can see is a step of its own.  Accesses are taken to *)
(* be sequentially consistent.                                              *)
(***************************************************************************)
EXTENDS Integers

CONSTANTS
  NumFrames,   \* frames in frame.dat; control.dat lists as many timestamps
  BadFrames,   \* frames whose checksum does not match
  IoFaults,    \* whether the SD card may fail a read or a seek
  MaxEpoch     \* bound: resets and seeks in a behaviour

ASSUME NumFramesAssumption == NumFrames \in Nat
ASSUME BadFramesAssumption == BadFrames \subseteq 0 .. NumFrames - 1
ASSUME IoFaultsAssumption  == IoFaults \in BOOLEAN
ASSUME MaxEpochAssumption  == MaxEpoch \in Nat

VARIABLES
  sem_free, sem_ready,        \* binary semaphores: is the token there?
  running, eof_reached, has_error,
  status,                     \* g_frame_status.err
  cmd, cmd_seek_frame_idx, reader_epoch,
  frame_buf,                  \* the frame in the shared buffer
  file_pos,                   \* index of the frame at the file position
  rpc, read_epoch, result,    \* reader task: control point, locals
  ppc, todo, target, err, out, \* player task: control point, reads left, locals
  expected,                   \* history: the frame the next read should give
  settled                     \* history: the last command found the prefetch
                              \* done and signalled, the reader waiting

semVars    == <<sem_free, sem_ready>>
flagVars   == <<running, eof_reached, has_error>>
cmdVars    == <<cmd, cmd_seek_frame_idx, reader_epoch>>
readerVars == <<file_pos, rpc, read_epoch, result>>
playerVars == <<ppc, todo, target, err, out, expected, settled>>
vars == <<semVars, flagVars, status, cmdVars, frame_buf, readerVars, playerVars>>

Zero == -1   \* a zeroed table_frame_t
Torn == -2   \* a table_frame_t that is being filled, or holds rejected bytes

Frames   == 0 .. NumFrames - 1
Contents == Frames \cup {Zero, Torn}
Statuses == {"OK", "NOT_FOUND", "INVALID", "FAIL"}
Commands == {"NONE", "RESET", "SEEK"}
ReaderPoints == {"take", "dispatch", "second", "reset", "seek", "ack", "judge", "fault",
                 "rewound", "flags", "at_eof", "epoch", "fill", "filling", "compare",
                 "publish", "mark", "give_ready", "give_free", "give_fail",
                 "stop", "exited"}
PlayerPoints == {"idle", "drain", "epoch", "cmd", "state", "give_cmd",
                 "take", "status", "copy", "return"}

(***************************************************************************)
(* Frames control_reader_find_seek_frame_idx can name: never the last one   *)
(* when there are two or more, so that a following frame exists.            *)
(***************************************************************************)
SeekTargets == IF NumFrames >= 2 THEN 0 .. NumFrames - 2 ELSE Frames

NoCommand == [cmd |-> "NONE", idx |-> 0]

Init ==
  /\ sem_free = TRUE /\ sem_ready = FALSE
  /\ running = TRUE /\ eof_reached = FALSE /\ has_error = FALSE
  /\ status = "OK"
  /\ cmd = "NONE" /\ cmd_seek_frame_idx = 0 /\ reader_epoch = 0
  /\ frame_buf = Zero
  /\ file_pos = 0 /\ rpc = "take" /\ read_epoch = 0 /\ result = "OK"
  /\ ppc = "idle" /\ todo = 0 /\ err = "OK" /\ out = Zero
  /\ target = NoCommand
  /\ expected = 0 /\ settled = TRUE

-----------------------------------------------------------------------------
(* pt_reader_task *)

RGoto(from, to) == rpc = from /\ rpc' = to

RTake ==          \* xSemaphoreTake(sem_free, portMAX_DELAY)
  /\ sem_free
  /\ sem_free' = FALSE
  /\ RGoto("take", "dispatch")
  /\ UNCHANGED <<sem_ready, flagVars, status, cmdVars, frame_buf, file_pos,
                 read_epoch, result, playerVars>>

RDispatch ==      \* if(!running) break; if(cmd == CMD_RESET), if(cmd == CMD_SEEK)
  /\ \/ RGoto("dispatch", IF ~running THEN "exited"
                          ELSE IF cmd = "RESET" THEN "reset" ELSE "second")
     \/ RGoto("second", IF cmd = "SEEK" THEN "seek" ELSE "flags")
  /\ UNCHANGED <<semVars, flagVars, status, cmdVars, frame_buf, file_pos,
                 read_epoch, result, playerVars>>

(* g_frame_status.err = frame_reader_reset() or frame_reader_seek(idx) *)
RSeek ==
  /\ RGoto("reset", "ack") \/ RGoto("seek", "ack")
  /\ \/ /\ file_pos' = IF rpc = "reset" THEN 0 ELSE cmd_seek_frame_idx
        /\ status' = "OK"
     \/ /\ IoFaults
        /\ status' = "FAIL"
        /\ UNCHANGED file_pos
  /\ UNCHANGED <<semVars, flagVars, cmdVars, frame_buf, read_epoch, result,
                 playerVars>>

\* Mutant of RAck: the command is never acknowledged.
RAckForgets ==
  /\ RGoto("ack", "judge")
  /\ UNCHANGED <<semVars, flagVars, status, cmdVars, frame_buf, file_pos,
                 read_epoch, result, playerVars>>

RAck ==           \* cmd = CMD_NONE
  /\ RGoto("ack", "judge")
  /\ cmd' = "NONE"
  /\ UNCHANGED <<semVars, flagVars, status, cmd_seek_frame_idx, reader_epoch,
                 frame_buf, file_pos, read_epoch, result, playerVars>>

RJudge ==         \* if(g_frame_status.err != ESP_OK)
  /\ RGoto("judge", IF status = "OK" THEN "rewound" ELSE "fault")
  /\ UNCHANGED <<semVars, flagVars, status, cmdVars, frame_buf, file_pos,
                 read_epoch, result, playerVars>>

RFault ==         \* has_error = true
  /\ RGoto("fault", "give_ready")
  /\ has_error' = TRUE
  /\ UNCHANGED <<semVars, running, eof_reached, status, cmdVars, frame_buf,
                 file_pos, read_epoch, result, playerVars>>

RRewound ==       \* clear the flags and the buffer, err = ESP_OK
  /\ RGoto("rewound", "give_free")
  /\ eof_reached' = FALSE /\ has_error' = FALSE
  /\ frame_buf' = Zero
  /\ status' = "OK"
  /\ UNCHANGED <<semVars, running, cmdVars, file_pos, read_epoch, result,
                 playerVars>>

RFlags ==         \* if(has_error) ... if(eof_reached) ...
  /\ RGoto("flags", IF has_error THEN "give_ready"
                    ELSE IF eof_reached THEN "at_eof" ELSE "epoch")
  /\ UNCHANGED <<semVars, flagVars, status, cmdVars, frame_buf, file_pos,
                 read_epoch, result, playerVars>>

RAtEof ==         \* g_frame_status.err = ESP_ERR_NOT_FOUND
  /\ RGoto("at_eof", "give_ready")
  /\ status' = "NOT_FOUND"
  /\ UNCHANGED <<semVars, flagVars, cmdVars, frame_buf, file_pos, read_epoch,
                 result, playerVars>>

REpoch ==         \* read_epoch = reader_epoch
  /\ RGoto("epoch", "fill")
  /\ read_epoch' = reader_epoch
  /\ UNCHANGED <<semVars, flagVars, status, cmdVars, frame_buf, file_pos,
                 result, playerVars>>

RFill ==          \* frame_reader_read clears the buffer, then fills it
  /\ RGoto("fill", "filling")
  /\ frame_buf' = Torn
  /\ UNCHANGED <<semVars, flagVars, status, cmdVars, file_pos, read_epoch,
                 result, playerVars>>

\* Mutant of RFilled: the position moves at the end of the file.
RFilledPastEnd ==
  /\ RGoto("filling", "compare")
  /\ frame_buf' = IF file_pos \in Frames THEN file_pos ELSE Zero
  /\ result' = IF file_pos \in Frames THEN "OK" ELSE "NOT_FOUND"
  /\ file_pos' = file_pos + 1
  /\ UNCHANGED <<semVars, flagVars, status, cmdVars, read_epoch, playerVars>>

(* ... and returns: a frame, a rejected frame, the end of the file, a fault *)
RFilled ==
  /\ RGoto("filling", "compare")
  /\ \/ /\ file_pos \in Frames \ BadFrames
        /\ frame_buf' = file_pos /\ file_pos' = file_pos + 1 /\ result' = "OK"
     \/ /\ file_pos \in BadFrames
        /\ file_pos' = file_pos + 1 /\ result' = "INVALID"
        /\ UNCHANGED frame_buf
     \/ /\ file_pos \notin Frames
        /\ frame_buf' = Zero /\ result' = "NOT_FOUND"
        /\ UNCHANGED file_pos
     \/ /\ IoFaults
        /\ frame_buf' = Zero /\ result' = "FAIL"
        /\ UNCHANGED file_pos
  /\ UNCHANGED <<semVars, flagVars, status, cmdVars, read_epoch, playerVars>>

RCompare ==       \* drop the frame if a command was posted since REpoch
  /\ RGoto("compare", IF ~running THEN "exited"
                      ELSE IF read_epoch # reader_epoch \/ cmd # "NONE"
                           THEN "give_free" ELSE "publish")
  /\ UNCHANGED <<semVars, flagVars, status, cmdVars, frame_buf, file_pos,
                 read_epoch, result, playerVars>>

RPublish ==       \* g_frame_status.err = err
  /\ RGoto("publish", CASE result \in {"NOT_FOUND", "INVALID"} -> "mark"
                      [] result = "FAIL" -> "give_fail"
                      [] OTHER -> "give_ready")
  /\ status' = result
  /\ UNCHANGED <<semVars, flagVars, cmdVars, frame_buf, file_pos, read_epoch,
                 result, playerVars>>

RMark ==          \* eof_reached = true, or has_error = true
  /\ RGoto("mark", "give_ready")
  /\ IF result = "NOT_FOUND"
     THEN eof_reached' = TRUE /\ UNCHANGED has_error
     ELSE has_error' = TRUE /\ UNCHANGED eof_reached
  /\ UNCHANGED <<semVars, running, status, cmdVars, frame_buf, file_pos,
                 read_epoch, result, playerVars>>

RGiveReady ==     \* xSemaphoreGive(sem_ready)
  /\ RGoto("give_ready", "take") \/ RGoto("give_fail", "stop")
  /\ sem_ready' = TRUE
  /\ UNCHANGED <<sem_free, flagVars, status, cmdVars, frame_buf, file_pos,
                 read_epoch, result, playerVars>>

RStop ==          \* running = false, after the frame was signalled
  /\ RGoto("stop", "take")
  /\ running' = FALSE
  /\ UNCHANGED <<semVars, eof_reached, has_error, status, cmdVars, frame_buf,
                 file_pos, read_epoch, result, playerVars>>

RGiveFree ==      \* xSemaphoreGive(sem_free) after a command or a drop
  /\ RGoto("give_free", "take")
  /\ sem_free' = TRUE
  /\ UNCHANGED <<sem_ready, flagVars, status, cmdVars, frame_buf, file_pos,
                 read_epoch, result, playerVars>>

Reader ==
  \/ RTake \/ RDispatch \/ RSeek \/ RAck \/ RJudge \/ RFault \/ RRewound
  \/ RFlags \/ RAtEof \/ REpoch \/ RFill \/ RFilled \/ RCompare \/ RPublish
  \/ RMark \/ RGiveReady \/ RStop \/ RGiveFree

-----------------------------------------------------------------------------
(* The player task inside FrameBuffer *)

PGoto(from, to) == ppc = from /\ ppc' = to

(* FrameBuffer::handle_frames (n = 1) and FrameBuffer::init (n = 2) read
   without a command. *)
PRead(n) ==
  /\ PGoto("idle", "take")
  /\ target' = NoCommand
  /\ todo' = n
  /\ UNCHANGED <<semVars, flagVars, status, cmdVars, frame_buf, readerVars, err,
                 out, expected, settled>>

(* FrameBuffer::reset and FrameBuffer::seek post a command, then read twice;
   target is the command and the frame it asks for. *)
PCommand(c, idx) ==
  /\ reader_epoch < MaxEpoch
  /\ PGoto("idle", "drain")
  /\ target' = [cmd |-> c, idx |-> idx]
  /\ todo' = 2
  /\ UNCHANGED <<semVars, flagVars, status, cmdVars, frame_buf, readerVars, err,
                 out, expected, settled>>

\* Mutant of PDrain: the prefetched frame stays signalled.
PDrainNothing ==
  /\ PGoto("drain", "epoch")
  /\ settled' = (sem_ready /\ ~sem_free /\ rpc = "take")
  /\ expected' = target.idx
  /\ UNCHANGED <<semVars, flagVars, status, cmdVars, frame_buf, readerVars,
                 todo, target, err, out>>

(* schedule_reader_command *)
PDrain ==         \* while(xSemaphoreTake(sem_ready, 0) == pdTRUE) {}
  /\ PGoto("drain", "epoch")
  /\ sem_ready' = FALSE
  /\ settled' = (sem_ready /\ ~sem_free /\ rpc = "take")
  /\ expected' = target.idx
  /\ UNCHANGED <<sem_free, flagVars, status, cmdVars, frame_buf, readerVars,
                 todo, target, err, out>>

PEpoch ==         \* reader_epoch++; cmd_seek_frame_idx = frame_idx
  /\ PGoto("epoch", "cmd")
  /\ reader_epoch' = reader_epoch + 1
  /\ cmd_seek_frame_idx' = target.idx
  /\ UNCHANGED <<semVars, flagVars, status, cmd, frame_buf, readerVars, todo,
                 target, err, out, expected, settled>>

PCmd ==           \* cmd = next_cmd
  /\ PGoto("cmd", "state")
  /\ cmd' = target.cmd
  /\ UNCHANGED <<semVars, flagVars, status, cmd_seek_frame_idx, reader_epoch,
                 frame_buf, readerVars, todo, target, err, out, expected, settled>>

PState ==         \* set_reader_state(ESP_FAIL)
  /\ PGoto("state", "give_cmd")
  /\ eof_reached' = FALSE /\ has_error' = FALSE
  /\ status' = "FAIL"
  /\ UNCHANGED <<semVars, running, cmdVars, frame_buf, readerVars, todo, target,
                 err, out, expected, settled>>

PGiveCmd ==       \* xSemaphoreGive(sem_free)
  /\ PGoto("give_cmd", "take")
  /\ sem_free' = TRUE
  /\ UNCHANGED <<sem_ready, flagVars, status, cmdVars, frame_buf, readerVars,
                 todo, target, err, out, expected, settled>>

(* read_frame *)
PTake ==          \* xSemaphoreTake(sem_ready, portMAX_DELAY)
  /\ sem_ready
  /\ PGoto("take", "status")
  /\ sem_ready' = FALSE
  /\ UNCHANGED <<sem_free, flagVars, status, cmdVars, frame_buf, readerVars,
                 todo, target, err, out, expected, settled>>

AfterRead == IF todo > 1 THEN "take" ELSE "idle"

(* if(!running) return ESP_FAIL; err = g_frame_status.err *)
PStatus ==
  /\ ppc = "status"
  /\ \/ /\ ~running
        /\ ppc' = AfterRead /\ todo' = todo - 1 /\ err' = "FAIL"
     \/ /\ running
        /\ ppc' = IF status = "OK" THEN "copy" ELSE "return"
        /\ err' = status
        /\ UNCHANGED todo
  /\ UNCHANGED <<semVars, flagVars, status, cmdVars, frame_buf, readerVars,
                 target, out, expected, settled>>

PCopy ==          \* memcpy(playerbuffer, &frame_buf, ...)
  /\ PGoto("copy", "return")
  /\ out' = frame_buf
  /\ UNCHANGED <<semVars, flagVars, status, cmdVars, frame_buf, readerVars,
                 todo, target, err, expected, settled>>

\* Mutant of PReturn: an error returns before the buffer is freed.
PReturnEarly ==
  /\ PGoto("return", AfterRead)
  /\ sem_free' = (sem_free \/ err = "OK")
  /\ todo' = todo - 1
  /\ expected' = IF err = "OK" /\ out \in Frames THEN out + 1 ELSE expected
  /\ UNCHANGED <<sem_ready, flagVars, status, cmdVars, frame_buf, readerVars,
                 target, err, out, settled>>

PReturn ==        \* xSemaphoreGive(sem_free); return err
  /\ PGoto("return", AfterRead)
  /\ sem_free' = TRUE
  /\ todo' = todo - 1
  /\ expected' = IF err = "OK" /\ out \in Frames THEN out + 1 ELSE expected
  /\ UNCHANGED <<sem_ready, flagVars, status, cmdVars, frame_buf, readerVars,
                 target, err, out, settled>>

PlayerStep ==
  \/ PDrain \/ PEpoch \/ PCmd \/ PState \/ PGiveCmd
  \/ PTake \/ PStatus \/ PCopy \/ PReturn

PlayerCall ==
  \/ PRead(1) \/ PRead(2)
  \/ PCommand("RESET", 0)
  \/ \E idx \in SeekTargets : PCommand("SEEK", idx)

Next == Reader \/ PlayerStep \/ PlayerCall

(* The scheduler runs both tasks; when to call is the player's own affair. *)
Spec == Init /\ [][Next]_vars
FairSpec == Spec /\ WF_vars(Reader) /\ WF_vars(PlayerStep)

-----------------------------------------------------------------------------
(* Type correctness; file_pos and expected never leave the file. *)
TypeOK ==
  /\ sem_free \in BOOLEAN /\ sem_ready \in BOOLEAN
  /\ running \in BOOLEAN /\ eof_reached \in BOOLEAN /\ has_error \in BOOLEAN
  /\ status \in Statuses
  /\ cmd \in Commands
  /\ cmd_seek_frame_idx \in 0 .. NumFrames
  /\ reader_epoch \in Nat /\ read_epoch \in Nat
  /\ frame_buf \in Contents /\ out \in Contents
  /\ file_pos \in 0 .. NumFrames /\ expected \in 0 .. NumFrames
  /\ rpc \in ReaderPoints /\ ppc \in PlayerPoints
  /\ result \in Statuses /\ err \in Statuses
  /\ todo \in 0 .. 2
  /\ target \in [cmd : Commands, idx : 0 .. NumFrames]
  /\ settled \in BOOLEAN

(* A task holds the buffer between its Take of one semaphore and its Give of
   the other. *)
ReaderHolds == rpc \notin {"take", "stop", "exited"}
PlayerHolds == ppc \in {"epoch", "cmd", "state", "give_cmd",
                        "status", "copy", "return"}

(* No wake-up is lost: whatever the interleaving of a command with the reader
   (readframe.c:56-63 against 74-164), as long as the reader runs the buffer is
   signalled to someone or held by someone, so the two tasks never wait for
   each other. *)
TokenNeverLost == running => sem_free \/ sem_ready \/ ReaderHolds \/ PlayerHolds

(* After a command that found the prefetched frame signalled and the reader
   waiting, read_frame returns the frames of the file in order from the frame
   the command asked for, untorn; it reports the end of the file only at the
   end, and a bad checksum only at a bad frame -- whatever earlier commands
   raced with. *)
SettledInOrder ==
  settled /\ ppc = "return" =>
    /\ err = "OK" => out = expected
    /\ err = "NOT_FOUND" => expected = NumFrames
    /\ err = "INVALID" => expected \in BadFrames

(* Every call of the player into the frame system returns, as long as the
   reader task runs (readframe.c:55-63, 73-164, 246-268). *)
CallReturns == ppc # "idle" ~> ppc = "idle" \/ ~running

-----------------------------------------------------------------------------
(* What the documentation says and the code does not do. *)

(* PT_Reader/README.md:111: a call returns ESP_FAIL when the reader task has
   stopped -- so it returns. *)
StoppedReturns == ppc # "idle" ~> ppc = "idle"

=============================================================================
