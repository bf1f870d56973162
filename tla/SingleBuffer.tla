------------------------------ MODULE SingleBuffer ------------------------------
(***************************************************************************)
(* The frame system of example/Pressure_test (PT_Reader): one buffer that   *)
(* the reader task fills and read_frame() copies, handed over by two binary *)
(* semaphores.  Unlike the LPS frame system it has no mutex, no epoch, and  *)
(* a reset does not wait for the reader.                                   *)
(*                                                                          *)
(* Every statement that touches shared state is a step.  A frame is its     *)
(* number; the buffer may also be blank or half written.                    *)
(***************************************************************************)
EXTENDS Integers

CONSTANTS
  FileFrames,   \* frames in frame.dat
  MaxResets,    \* bound: calls of frame_reset()
  MaxCardFaults \* bound: bad checksums and reads that fail

ASSUME SingleBufferAssumption ==
  FileFrames \in Nat /\ MaxResets \in Nat /\ MaxCardFaults \in Nat

VARIABLES
  inited, reader_running, eof_reached, cmd, sem_free, sem_ready, frame_buf,
  sd_task,       \* sd_reader_task: the statement it is at
  file_pos,      \* frames of the file behind the file pointer
  caller,        \* the player task: the statement it is at in read_frame or frame_reset
  copy,          \* what it has copied of the buffer
  delivered,     \* history: the frame read_frame() returned last, since the last reset
  clean,         \* history: no reset has overtaken a reader that was at work
  told,          \* history: since the reader failed, the player heard of it or reset
  resets, cardFaults

marks   == <<reader_running, eof_reached>>
orders  == <<cmd, sem_free>>
content == <<frame_buf, file_pos, cardFaults>>
history == <<clean, told, resets>>
callerVars == <<caller, copy, delivered, history>>
readerVars == <<sd_task, content>>
singleBufferVars == <<inited, marks, orders, sem_ready, readerVars, callerVars>>

Blank == 0            \* memset to 0
Half  == -1           \* being filled, or copied while it was

SingleBufferInit ==
  /\ inited = FALSE /\ reader_running = FALSE /\ eof_reached = FALSE /\ cmd = "NONE"
  /\ sem_free = 0 /\ sem_ready = 0 /\ frame_buf = Blank /\ sd_task = "absent" /\ file_pos = 0
  /\ caller = "boot" /\ copy = Blank /\ delivered = Blank
  /\ clean = TRUE /\ told = FALSE /\ resets = 0 /\ cardFaults = 0

Call(from, to) == caller = from /\ caller' = to

(* frame_system_init: the card and the channels, the frame file, the semaphores and the
   task.  Without one of the first three there is no frame system; whether the task could
   be created is not looked at, and without it there is a frame system with no reader. *)
IControl == Call("boot", "frames") \/ Call("boot", "idle")
IFrames  == Call("frames", "start") \/ Call("frames", "idle")

IStart ==
  /\ Call("start", "idle")
  /\ \/ /\ inited' = TRUE /\ reader_running' = TRUE /\ sem_free' = 1
        /\ sd_task' \in {"loop", "absent"}
     \/ UNCHANGED <<inited, reader_running, sem_free, sd_task>>

FrameSystemInit ==
  /\ \/ (IControl \/ IFrames) /\ UNCHANGED <<inited, reader_running, sem_free, sd_task>>
     \/ IStart
  /\ UNCHANGED <<cmd, eof_reached, sem_ready, content, copy, delivered, history>>

-----------------------------------------------------------------------------
(* sd_reader_task and frame_reader_read *)
Task(from, to) == sd_task = from /\ sd_task' = to

TLoop    == Task("loop", IF reader_running THEN "take" ELSE "dead")

\* Mutant of TTake: a wait that timed out is taken for the buffer.
TTakeAnyway == Task("take", "command") /\ sem_free' = 0 /\ UNCHANGED cmd

TTake    == Task("take", "command") /\ sem_free = 1 /\ sem_free' = 0 /\ UNCHANGED cmd
TCommand == Task("command", IF cmd = "RESET" THEN "seek" ELSE "clear")
TDone    == Task("done", "release") /\ cmd' = "NONE" /\ UNCHANGED sem_free

\* Mutant of TRelease: the buffer is not given back.
TReleaseKeeps == Task("release", "loop") /\ UNCHANGED orders

TRelease == Task("release", "loop") /\ sem_free' = 1 /\ UNCHANGED cmd

CardFault == cardFaults < MaxCardFaults /\ cardFaults' = cardFaults + 1

TSeek ==           \* a seek that fails is not noticed
  /\ Task("seek", "done") /\ UNCHANGED frame_buf
  /\ \/ file_pos' = 0 /\ UNCHANGED cardFaults
     \/ CardFault /\ UNCHANGED file_pos

TClear == Task("clear", "read") /\ frame_buf' = Blank /\ UNCHANGED <<file_pos, cardFaults>>

\* A read that ends early, at the end of the file too, is an error; one that fails is
\* the end of the file.
TRead ==
  \/ /\ Task("read", "parse") /\ file_pos < FileFrames
     /\ file_pos' = file_pos + 1 /\ frame_buf' = Half /\ UNCHANGED cardFaults
  \/ Task("read", "error") /\ file_pos = FileFrames /\ UNCHANGED content
  \/ Task("read", "eof") /\ CardFault /\ UNCHANGED <<frame_buf, file_pos>>

TParse ==          \* the frame is in the buffer before its checksum is compared
  /\ frame_buf' = file_pos /\ UNCHANGED file_pos
  /\ \/ Task("parse", "publish") /\ UNCHANGED cardFaults
     \/ Task("parse", "error") /\ CardFault

TEof   == Task("eof", "publish") /\ eof_reached' = TRUE /\ UNCHANGED reader_running
TError == Task("error", "last") /\ reader_running' = FALSE /\ told' = FALSE

TPublish == (Task("publish", "loop") \/ Task("last", "dead")) /\ sem_ready' = 1

SdTask ==
  /\ \/ (TLoop \/ TCommand) /\ UNCHANGED <<marks, orders, sem_ready, content>>
     \/ (TTake \/ TDone \/ TRelease) /\ UNCHANGED <<marks, sem_ready, content>>
     \/ (TSeek \/ TClear \/ TRead \/ TParse) /\ UNCHANGED <<marks, orders, sem_ready>>
     \/ TEof /\ UNCHANGED <<orders, sem_ready, content>>
     \/ TError /\ UNCHANGED <<eof_reached, orders, sem_ready, content>>
     \/ TPublish /\ UNCHANGED <<marks, orders, content>>
  /\ sd_task # "error" => UNCHANGED told
  /\ UNCHANGED <<inited, caller, copy, delivered, clean, resets>>

-----------------------------------------------------------------------------
(* read_frame, by the player task *)
CBegin == Call("idle", IF eof_reached THEN "idle" ELSE "wait")
CTake  == Call("wait", "check") /\ sem_ready = 1 /\ sem_ready' = 0

CCheck ==
  /\ Call("check", IF reader_running THEN "copy" ELSE "idle")
  /\ told' = (told \/ ~reader_running) /\ UNCHANGED <<clean, resets>>

CCopy   == Call("copy", "copied") /\ copy' = frame_buf /\ UNCHANGED delivered
CCopied == Call("copied", "give") /\ delivered' = (IF copy = frame_buf THEN copy ELSE Half)
                                  /\ UNCHANGED copy
CGive   == Call("give", "idle") /\ sem_free' = 1 /\ UNCHANGED cmd

(* frame_reset, by the player task *)
CReset ==
  /\ Call("idle", "drain") /\ resets < MaxResets /\ resets' = resets + 1
  /\ UNCHANGED <<clean, told>>

CDrain ==          \* until the semaphore is empty
  \/ Call("drain", "drain") /\ sem_ready = 1 /\ sem_ready' = 0
  \/ Call("drain", "revive") /\ sem_ready = 0 /\ UNCHANGED sem_ready

CRevive ==         \* running is set, but no task is created
  /\ Call("revive", "reopen") /\ reader_running' = TRUE /\ told' = TRUE
  /\ UNCHANGED <<eof_reached, clean, resets>>

CReopen == Call("reopen", "order") /\ eof_reached' = FALSE /\ UNCHANGED <<reader_running, history>>

COrder ==
  /\ Call("order", "wake") /\ cmd' = "RESET" /\ delivered' = Blank
  /\ clean' = (clean /\ sd_task = "take" /\ sem_free = 0 /\ sem_ready = 0)
  /\ UNCHANGED <<sem_free, copy, told, resets>>

CWake == Call("wake", "idle") /\ sem_free' = 1 /\ UNCHANGED cmd

PlayerTask ==
  /\ inited /\ UNCHANGED <<inited, readerVars>>
  /\ \/ CBegin /\ UNCHANGED <<marks, orders, sem_ready, copy, delivered, history>>
     \/ (CTake \/ CDrain) /\ UNCHANGED <<marks, orders, copy, delivered, history>>
     \/ (CCheck \/ CReset) /\ UNCHANGED <<marks, orders, sem_ready, copy, delivered>>
     \/ (CCopy \/ CCopied) /\ UNCHANGED <<marks, orders, sem_ready, history>>
     \/ (CGive \/ CWake) /\ UNCHANGED <<marks, sem_ready, copy, delivered, history>>
     \/ (CRevive \/ CReopen) /\ UNCHANGED <<orders, sem_ready, copy, delivered>>
     \/ COrder /\ UNCHANGED <<marks, sem_ready>>

SingleBufferNext == FrameSystemInit \/ SdTask \/ PlayerTask

SingleBufferSpec == SingleBufferInit /\ [][SingleBufferNext]_singleBufferVars

-----------------------------------------------------------------------------
(* As long as every reset finds the reader waiting for the buffer, as it does unless
   the player resets just after it took a frame, frames are delivered whole, in order
   and each once (readframe.c:80-119, 178-212). *)
WholeInOrder ==
  [][clean /\ caller = "copied" /\ caller' = "give" /\ cardFaults = 0
       => delivered' = delivered + 1]_singleBufferVars

InVain == caller = "wait" /\ sem_ready = 0     \* read_frame waits with portMAX_DELAY,
NoReader == sd_task \in {"absent", "dead"}      \* and nobody is there to wake it

(* The player and the reader never wait for each other: the buffer does not get lost
   between them, however a reset falls.  If there is no reader, the player waits in vain
   only if init could not create it, or if it has ended and the player was told so once,
   or has reset: a reader that ends wakes the player (readframe.c:80-119, 163-212). *)
StuckOnlyWithoutReader ==
  InVain =>
    /\ ~(sd_task = "take" /\ sem_free = 0)
    /\ NoReader => sd_task = "absent" \/ told

(* A frame system that init said was ready answers read_frame, with a frame or an error:
   readframe.h:45 has init return ESP_ERR_NO_MEM when the task cannot be created, and
   README.md:101 and 114 of PT_Reader have a read return an error when the reader has
   stopped (readframe.c:106-110, 168-173, 186-190). *)
ReadIsAnswered == ~(InVain /\ NoReader)

=============================================================================
