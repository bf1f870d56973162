---------------------------------- MODULE Boot ----------------------------------
(***************************************************************************)
(* Boot: app_task (main/main.cpp) brings up the storage, the settings, the  *)
(* frame system (frame_system_init, get_channel_info, frame_reader_init),   *)
(* the player, the command dispatcher and Bluetooth, one after the other.   *)
(* A part that fails is logged and boot goes on without it.                 *)
(*                                                                          *)
(* The storage holds the two files of a show, each as the chunks it was     *)
(* received in; it is all that outlives a restart.                          *)
(***************************************************************************)
EXTENDS Integers, Sequences

CONSTANTS
  Chunks,      \* chunks a file is received in
  MaxFaults    \* bound: losses of power, and calls that fail

ASSUME ChunksAssumption == Chunks \in Nat \ {0}
ASSUME FaultsAssumption == MaxFaults \in Nat

VARIABLES
  stored,      \* the chunks in each file, in order; a file without any is absent or empty
  boot,        \* app_task: its step, what is ready, what the frame system has loaded
  bluetooth,   \* is the receiver up?
  faults,
  spoilt,      \* history: a file was opened or erased since the last update that ran
               \* alone, was received whole and flushed
  mishaps      \* history: what disturbed boot and updates since the last restart

bootVars == <<stored, boot, bluetooth, faults, spoilt, mishaps>>

Files  == {"control", "frame"}
NoShow == -2
Foreign == -1      \* the show of player 1, on a player that has another number

(* The chunks of file f in a show *)
Content(f, show) == [i \in 1 .. Chunks |-> [file |-> f, show |-> show, part |-> i]]
Show(show)       == [f \in Files |-> Content(f, show)]

(* timeline and reader name the show whose control.dat is loaded and whose frame.dat
   is open; whole is history: nothing had spoilt the files when they were loaded. *)
PowerOn ==
  [step |-> "storage", storage |-> FALSE, nvs |-> "failed",
   timeline |-> NoShow, reader |-> NoShow, sems |-> FALSE, frames |-> FALSE,
   channels |-> "none", dispatcher |-> FALSE, whole |-> FALSE]

BootInit ==
  /\ stored = Show(0) /\ boot = PowerOn /\ bluetooth = FALSE
  /\ faults = 0 /\ spoilt = FALSE /\ mishaps = {}

Fault  == faults < MaxFaults /\ faults' = faults + 1
BootFault == Fault /\ mishaps' = mishaps \cup {"boot"}
NoFault == UNCHANGED <<faults, mishaps>>

At(step) == boot.step = step
Booted   == boot.step = "done"

-----------------------------------------------------------------------------
(* mount_spiffs: what cannot be mounted is formatted; that may fail as well. *)
BStorage ==
  /\ At("storage")
  /\ \/ /\ boot' = [boot EXCEPT !.step = "nvs", !.storage = TRUE]
        /\ \/ NoFault /\ UNCHANGED <<stored, spoilt>>
           \/ BootFault /\ stored' = [f \in Files |-> <<>>] /\ spoilt' = TRUE
     \/ /\ boot' = [boot EXCEPT !.step = "nvs"]
        /\ BootFault /\ UNCHANGED <<stored, spoilt>>
  /\ UNCHANGED bluetooth

(* ld_nvs_init: settings of another version, or without a free page, are erased,
   and the player's number with them. *)
BNvs ==
  /\ At("nvs")
  /\ \/ boot' = [boot EXCEPT !.step = "control", !.nvs = "ready"] /\ NoFault
     \/ /\ \E state \in {"erased", "failed"} :
             boot' = [boot EXCEPT !.step = "control", !.nvs = state]
        /\ BootFault
  /\ UNCHANGED <<stored, bluetooth, spoilt>>

-----------------------------------------------------------------------------
(* frame_system_init *)

(* control.dat is taken when it begins with the whole file of a show: its checksum
   covers what is read, and what follows is not read. *)
Accepted(show) ==
  Len(stored["control"]) >= Chunks /\
    SubSeq(stored["control"], 1, Chunks) = Content("control", show)

BControl ==
  /\ At("control")
  /\ \/ /\ boot.storage
        /\ \E show \in {stored["control"][i].show : i \in DOMAIN stored["control"]} :
             /\ Accepted(show)
             /\ boot' = [boot EXCEPT !.step = "frame", !.timeline = show,
                                     !.channels = "show", !.whole = ~spoilt]
        /\ NoFault
     \/ /\ \/ ~boot.storage /\ NoFault
           \/ boot.storage /\ NoFault
              /\ \A i \in DOMAIN stored["control"] : ~Accepted(stored["control"][i].show)
           \/ boot.storage /\ BootFault
        /\ boot' = [boot EXCEPT !.step = "player", !.whole = ~spoilt]
  /\ UNCHANGED <<stored, bluetooth, spoilt>>

(* frame_reader_init looks at the version that both files begin with, and not at
   the frames. *)
HasHeader == stored["frame"] # <<>> /\ Head(stored["frame"]).part = 1

\* Mutant of BFrame: the timeline is kept when the frames cannot be opened.
BFrameKeepsTimeline ==
  /\ At("frame")
  /\ \/ /\ HasHeader /\ NoFault
        /\ boot' = [boot EXCEPT !.step = "task", !.reader = Head(stored["frame"]).show]
     \/ /\ (~HasHeader /\ NoFault) \/ BootFault
        /\ boot' = [boot EXCEPT !.step = "player"]
  /\ UNCHANGED <<stored, bluetooth, spoilt>>

\* Mutant of BFrame: ch_info_snapshot is not taken, so no LED output is enabled.
BFrameNoSnapshot ==
  /\ At("frame") /\ NoFault
  /\ boot' = [boot EXCEPT !.step = "player", !.timeline = NoShow]
  /\ UNCHANGED <<stored, bluetooth, spoilt>>

BFrame ==
  /\ At("frame")
  /\ \/ /\ HasHeader /\ NoFault
        /\ boot' = [boot EXCEPT !.step = "task", !.reader = Head(stored["frame"]).show]
     \/ /\ (~HasHeader /\ NoFault) \/ BootFault
        /\ boot' = [boot EXCEPT !.step = "player", !.timeline = NoShow]
  /\ UNCHANGED <<stored, bluetooth, spoilt>>

BTask ==          \* the semaphores and the reader task; a failure undoes it all
  /\ At("task")
  /\ \/ NoFault /\ boot' = [boot EXCEPT !.step = "player", !.sems = TRUE, !.frames = TRUE]
     \/ /\ BootFault
        /\ boot' = [boot EXCEPT !.step = "player", !.timeline = NoShow, !.reader = NoShow]
  /\ UNCHANGED <<stored, bluetooth, spoilt>>

-----------------------------------------------------------------------------
(* configure_default_channels without frames; then Player::init, whose task may not
   be created. *)
BPlayer ==
  /\ At("player")
  /\ boot' = [boot EXCEPT !.step = "dispatcher",
                          !.channels = IF boot.frames THEN @ ELSE "default"]
  /\ (NoFault \/ BootFault)
  /\ UNCHANGED <<stored, bluetooth, spoilt>>

BDispatcher ==    \* init_system_command_dispatcher: the queue and sys_cmd_task
  /\ At("dispatcher")
  /\ \/ NoFault /\ boot' = [boot EXCEPT !.step = "bluetooth", !.dispatcher = TRUE]
     \/ BootFault /\ boot' = [boot EXCEPT !.step = "bluetooth"]
  /\ UNCHANGED <<stored, bluetooth, spoilt>>

(* init_bluetooth_receiver, which needs the settings; the console and the blue pulse
   that follow change nothing here. *)
BReceiver ==
  /\ At("bluetooth")
  /\ boot' = [boot EXCEPT !.step = "done"]
  /\ \/ bluetooth' = TRUE /\ NoFault
     \/ /\ bluetooth' = FALSE /\ mishaps' = mishaps \cup {"boot", "deaf"}
        /\ Fault \/ (boot.nvs = "failed" /\ UNCHANGED faults)
  /\ UNCHANGED <<stored, spoilt>>

BootStep ==
  BStorage \/ BNvs \/ BControl \/ BFrame \/ BTask \/ BPlayer \/ BDispatcher \/ BReceiver

-----------------------------------------------------------------------------
(* Once booted the frame system is up with a timeline, an open file and the show's
   channels, or nothing of it is left and the channels are the defaults: an
   initialisation that fails at any step is undone (readframe.c:174-240,
   control_reader.c:42-193, main.cpp:325-340). *)
FramesOrDefaults ==
  Booted =>
    IF boot.frames
    THEN boot.timeline # NoShow /\ boot.reader # NoShow /\ boot.sems /\ boot.channels = "show"
    ELSE boot.timeline = NoShow /\ boot.reader = NoShow /\ ~boot.sems
           /\ boot.channels = "default"

(* What an undisturbed update left is what the player boots with, timeline and frames
   of one show of its own, unless a call of boot itself fails: nothing earlier --
   a partial file, a download cut short, a restart at any step -- keeps it from
   playing (main.cpp:325-340, tcp_client.cpp:193-287). *)
UpdatedShowPlays ==
  Booted /\ boot.whole /\ "boot" \notin mishaps =>
    boot.frames /\ boot.timeline = boot.reader /\ boot.timeline # Foreign

=============================================================================
