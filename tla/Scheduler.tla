------------------------------- MODULE Scheduler -------------------------------
(***************************************************************************)
(* The Bluetooth scheduler of Messenger (Messenger/src/bt_scheduler.cpp).   *)
(*                                                                          *)
(* Packets that repeat a command are heard, queued, and averaged over a     *)
(* window by the synchronisation task, which then arms the timer of the     *)
(* command's slot.  The timer task, on the other core, fires the slots and  *)
(* the preparation light, and dispatches the commands.  The updater tears   *)
(* it all down.                                                             *)
(*                                                                          *)
(* Time is counted in units of 100 ms.  The context of a slot is written    *)
(* and read in one step each; all other steps of the two tasks interleave.  *)
(***************************************************************************)
EXTENDS Integers, Sequences

CONSTANTS
  Sent,        \* the commands on air: [id, cmd, data, prep, at]; at is the time
               \* they ask for
  SyncWindow,  \* sync_window_us
  Jitter,      \* how late a packet may make the requested time look
  RxLen,       \* bt_receiver_config_t::queue_size
  SysLen,      \* length of sys_cmd_queue
  MaxHeard,    \* bound: packets heard
  MaxNow,      \* bound: the last time
  Teardown     \* whether the receiver may be shut down

ASSUME CommandsAssumption ==
  \A k \in Sent : k.id \in 0 .. 15 /\ k.at \in Nat /\ k.prep \in Nat
ASSUME WindowAssumption == SyncWindow \in Nat /\ Jitter \in Nat
ASSUME BoundsAssumption ==
  RxLen \in Nat /\ SysLen \in Nat /\ MaxHeard \in Nat /\ MaxNow \in Nat
ASSUME TeardownAssumption == Teardown \in BOOLEAN

VARIABLES
  now, heard,
  adv_queue, scanning, is_running,
  spc, collecting, current, samples, window_start, following, \* sync_process_task
  wait, slot_ctx, armed, visual_ack_done, led_timer, last_locked,
  cpc, cslot, ccmd,         \* the timer task, inside timer_timeout_cb
  player, prep,             \* the player's state, and: is TEST the red light?
  sys_cmd_queue, report,    \* sent to the application, and by the ACK task
  dpc,                      \* bt_receiver_deinit
  fired, early              \* history: dispatches per command; one before its time

rxVars     == <<adv_queue, scanning, is_running>>
windowVars == <<collecting, current, samples, window_start, following>>
slotVars   == <<slot_ctx, armed>>
timerVars  == <<cpc, cslot, ccmd>>
playerVars == <<player, prep>>
outVars    == <<sys_cmd_queue, report>>
historyVars == <<fired, early>>
vars == <<now, heard, rxVars, spc, windowVars, wait, slotVars, visual_ack_done,
          led_timer, last_locked, timerVars, playerVars, outVars, dpc, historyVars>>

Slots == 0 .. 15
None  == [id |-> 0, cmd |-> "NONE", data |-> 0, prep |-> 0, at |-> 0]
Off   == -1                          \* a timer that is not armed
NoPacket == [command |-> None, target |-> Off]
PlayerCommands == {"PLAY", "PAUSE", "STOP", "RELEASE", "TEST", "SEEK"}

Init ==
  /\ now = 0 /\ heard = 0
  /\ adv_queue = <<>> /\ scanning = TRUE /\ is_running = TRUE
  /\ spc = "receive" /\ collecting = FALSE /\ current = None
  /\ samples = [sum |-> 0, count |-> 0] /\ window_start = 0 /\ following = NoPacket
  /\ wait = 0
  /\ slot_ctx = [i \in Slots |-> None] /\ armed = [i \in Slots |-> Off]
  /\ visual_ack_done = [i \in Slots |-> FALSE]
  /\ led_timer = Off
  /\ last_locked = [command |-> None, timed |-> None]
  /\ cpc = "idle" /\ cslot = 0 /\ ccmd = None
  /\ player = "READY" /\ prep = FALSE
  /\ sys_cmd_queue = <<>> /\ report = [command |-> None, timed |-> None]
  /\ dpc = "up"
  /\ fired = [k \in Sent |-> 0] /\ early = FALSE

-----------------------------------------------------------------------------
(* The player as the scheduler sees it, when it handles events at once
   (player_fsm.cpp); released resources are loaded again. *)
Transition(event) ==
  CASE event = "PLAY"  /\ player \in {"READY", "PAUSE"} -> "PLAYING"
    [] event = "PAUSE" /\ player = "PLAYING"            -> "PAUSE"
    [] event = "STOP"                                   -> "READY"
    [] event = "RELEASE"                                -> "READY"
    [] event = "TEST"  /\ player \in {"READY", "TEST"}  -> "TEST"
    [] OTHER                                            -> player

Deliver(event, red) ==
  /\ player' = Transition(event)
  /\ prep' = (Transition(event) = "TEST" /\ IF event = "TEST" THEN red ELSE prep)

Enqueue(packet) ==      \* xQueueSendFromISR: dropped when the queue is full
  adv_queue' = IF Len(adv_queue) < RxLen THEN Append(adv_queue, packet) ELSE adv_queue

(* A packet that repeats command k is parsed and queued; its target is its
   receive time plus its delay. *)
Hear(k) ==
  /\ scanning /\ heard < MaxHeard /\ now <= k.at
  /\ heard' = heard + 1
  /\ \E jitter \in 0 .. Jitter : Enqueue([command |-> k, target |-> k.at + jitter])
  /\ UNCHANGED <<now, scanning, is_running, spc, windowVars, wait, slotVars,
                 visual_ack_done, led_timer, last_locked, timerVars, playerVars,
                 outVars, dpc, historyVars>>

-----------------------------------------------------------------------------
(* sync_process_task *)

SGoto(from, to) == spc = from /\ spc' = to

OpenWindow(packet) ==
  /\ collecting' = TRUE
  /\ current' = packet.command
  /\ samples' = [sum |-> packet.target, count |-> 1]
  /\ window_start' = now
  /\ following' = NoPacket

Remaining == (samples.sum \div samples.count) - now

\* Mutant of CloseWindow: a command is locked however little time remains.
CloseWindowLate == wait' = Remaining /\ spc' = IF Remaining > 0 THEN "write" ELSE "locked"

(* final_target - now, when a window is closed: the command is locked if more
   than 100 ms remain. *)
CloseWindow == wait' = Remaining /\ spc' = IF Remaining > 1 THEN "write" ELSE "locked"

InWindow == now < window_start + SyncWindow

SReceive ==       \* one packet from the queue
  /\ spc = "receive" /\ is_running /\ adv_queue # <<>>
  /\ adv_queue' = Tail(adv_queue)
  /\ LET packet == Head(adv_queue) IN
     \/ /\ ~collecting
        /\ OpenWindow(packet)
        /\ spc' = "check" /\ UNCHANGED wait
     \/ /\ collecting /\ packet.command.id = current.id
        /\ samples' = IF InWindow
                      THEN [sum |-> samples.sum + packet.target, count |-> samples.count + 1]
                      ELSE samples
        /\ spc' = "check"
        /\ UNCHANGED <<collecting, current, window_start, following, wait>>
     \/ /\ collecting /\ packet.command.id # current.id
        /\ following' = packet
        /\ CloseWindow
        /\ UNCHANGED <<collecting, current, samples, window_start>>
  /\ UNCHANGED <<now, heard, scanning, is_running, slotVars, visual_ack_done,
                 led_timer, last_locked, timerVars, playerVars, outVars, dpc, historyVars>>

SCheck ==         \* after a packet, or 10 ms without one
  /\ \/ spc = "check"
     \/ spc = "receive" /\ is_running /\ adv_queue = <<>> /\ collecting /\ ~InWindow
  /\ IF collecting /\ ~InWindow
     THEN CloseWindow
     ELSE spc' = "receive" /\ UNCHANGED wait
  /\ UNCHANGED <<now, heard, rxVars, windowVars, slotVars, visual_ack_done, led_timer,
                 last_locked, timerVars, playerVars, outVars, dpc, historyVars>>

(* esp_timer_start_once: an armed timer is left as it is. *)
StartOnce(timer, due) == IF timer = Off THEN due ELSE timer

SWrite ==         \* target_slot->ctx = ...
  /\ SGoto("write", "stop")
  /\ slot_ctx' = [slot_ctx EXCEPT ![current.id] = current]
  /\ UNCHANGED <<now, heard, rxVars, windowVars, wait, armed, visual_ack_done,
                 led_timer, last_locked, timerVars, playerVars, outVars, dpc, historyVars>>

SStop ==          \* esp_timer_stop(target_slot->timer_handle)
  /\ SGoto("stop", "start")
  /\ armed' = [armed EXCEPT ![current.id] = Off]
  /\ UNCHANGED <<now, heard, rxVars, windowVars, wait, slot_ctx, visual_ack_done,
                 led_timer, last_locked, timerVars, playerVars, outVars, dpc, historyVars>>

SStart ==         \* esp_timer_start_once(target_slot->timer_handle, wait_us)
  /\ SGoto("start", "feedback")
  /\ armed' = [armed EXCEPT ![current.id] = StartOnce(@, now + wait)]
  /\ UNCHANGED <<now, heard, rxVars, windowVars, wait, slot_ctx, visual_ack_done,
                 led_timer, last_locked, timerVars, playerVars, outVars, dpc, historyVars>>

SFeedback ==      \* if(!s_visual_ack_done[id]): for PLAY, the red light
  /\ spc = "feedback"
  /\ IF ~visual_ack_done[current.id] /\ current.cmd = "PLAY" /\ current.prep > 0
     THEN spc' = "led_stop" /\ Deliver("TEST", TRUE)
     ELSE spc' = "ack_done" /\ UNCHANGED playerVars
  /\ UNCHANGED <<now, heard, rxVars, windowVars, wait, slotVars, visual_ack_done,
                 led_timer, last_locked, timerVars, outVars, dpc, historyVars>>

\* Mutant of SLedTimer: the slot's timer is stopped in place of the light's.
SLedTimerOfSlot ==
  /\ \/ /\ SGoto("led_stop", "led_start")
        /\ armed' = [armed EXCEPT ![current.id] = Off] /\ UNCHANGED led_timer
     \/ /\ SGoto("led_start", "ack_done")
        /\ led_timer' = StartOnce(led_timer, now + current.prep) /\ UNCHANGED armed
  /\ UNCHANGED <<now, heard, rxVars, windowVars, wait, slot_ctx, visual_ack_done,
                 last_locked, timerVars, playerVars, outVars, dpc, historyVars>>

SLedTimer ==      \* esp_timer_stop(s_led_timer), esp_timer_start_once
  /\ \/ SGoto("led_stop", "led_start") /\ led_timer' = Off
     \/ SGoto("led_start", "ack_done") /\ led_timer' = StartOnce(led_timer, now + current.prep)
  /\ UNCHANGED <<now, heard, rxVars, windowVars, wait, slotVars, visual_ack_done,
                 last_locked, timerVars, playerVars, outVars, dpc, historyVars>>

SAckDone ==       \* s_visual_ack_done[id] = true
  /\ SGoto("ack_done", IF current.cmd # "CHECK" THEN "last" ELSE "locked")
  /\ visual_ack_done' = [visual_ack_done EXCEPT ![current.id] = TRUE]
  /\ UNCHANGED <<now, heard, rxVars, windowVars, wait, slotVars, led_timer, last_locked,
                 timerVars, playerVars, outVars, dpc, historyVars>>

SLast ==          \* s_last_locked_cmd: id and type, then delay and timestamp
  /\ \/ SGoto("last", "stamp") /\ last_locked' = [last_locked EXCEPT !.command = current]
     \/ SGoto("stamp", "locked") /\ last_locked' = [last_locked EXCEPT !.timed = current]
  /\ UNCHANGED <<now, heard, rxVars, windowVars, wait, slotVars, visual_ack_done,
                 led_timer, timerVars, playerVars, outVars, dpc, historyVars>>

SLocked ==        \* open the window of the packet that closed this one, or none
  /\ \/ SGoto("locked", "check") /\ following # NoPacket /\ OpenWindow(following)
     \/ /\ SGoto("locked", "receive") /\ following = NoPacket
        /\ collecting' = FALSE
        /\ UNCHANGED <<current, samples, window_start, following>>
  /\ UNCHANGED <<now, heard, rxVars, wait, slotVars, visual_ack_done, led_timer,
                 last_locked, timerVars, playerVars, outVars, dpc, historyVars>>

SExit ==          \* while(s_is_running)
  /\ SGoto("receive", "dead") /\ ~is_running
  /\ UNCHANGED <<now, heard, rxVars, windowVars, wait, slotVars, visual_ack_done,
                 led_timer, last_locked, timerVars, playerVars, outVars, dpc, historyVars>>

Sync ==
  \/ SReceive \/ SCheck \/ SWrite \/ SStop \/ SStart \/ SFeedback \/ SLedTimer
  \/ SAckDone \/ SLast \/ SLocked \/ SExit

-----------------------------------------------------------------------------
(* The timer task *)

CGoto(from, to) == cpc = from /\ cpc' = to

(* A slot's timer expires: it is taken off the list, then timer_timeout_cb is
   called. *)
CExpire(i) ==
  /\ CGoto("idle", "read")
  /\ armed[i] # Off /\ now >= armed[i]
  /\ armed' = [armed EXCEPT ![i] = Off]
  /\ cslot' = i
  /\ UNCHANGED <<now, heard, rxVars, spc, windowVars, wait, slot_ctx, visual_ack_done,
                 led_timer, last_locked, ccmd, playerVars, outVars, dpc, historyVars>>

CRead ==          \* cmd = slot->ctx.target_cmd; memcpy(test_data, slot->ctx.data)
  /\ CGoto("read", "clear")
  /\ ccmd' = slot_ctx[cslot]
  /\ UNCHANGED <<now, heard, rxVars, spc, windowVars, wait, slotVars, visual_ack_done,
                 led_timer, last_locked, cslot, playerVars, outVars, dpc, historyVars>>

\* Mutant of CClear: the flag of the slot stays set.
CClearNothing ==
  /\ CGoto("clear", "dispatch")
  /\ UNCHANGED <<now, heard, rxVars, spc, windowVars, wait, slotVars, visual_ack_done,
                 led_timer, last_locked, cslot, ccmd, playerVars, outVars, dpc, historyVars>>

CClear ==         \* s_visual_ack_done[slot_id] = false
  /\ CGoto("clear", "dispatch")
  /\ visual_ack_done' = [visual_ack_done EXCEPT ![cslot] = FALSE]
  /\ UNCHANGED <<now, heard, rxVars, spc, windowVars, wait, slotVars, led_timer,
                 last_locked, cslot, ccmd, playerVars, outVars, dpc, historyVars>>

Record ==
  /\ fired' = [fired EXCEPT ![ccmd] = @ + 1]
  /\ early' = (early \/ now < ccmd.at)

CDispatch ==      \* switch(cmd)
  /\ cpc = "dispatch"
  /\ Record
  /\ \/ /\ ccmd.cmd \in PlayerCommands
        /\ Deliver(ccmd.cmd, FALSE)
        /\ cpc' = "idle" /\ UNCHANGED <<armed, outVars>>
     \/ /\ ccmd.cmd = "CHECK"
        /\ report' = last_locked
        /\ cpc' = "idle" /\ UNCHANGED <<armed, playerVars, sys_cmd_queue>>
     \/ /\ ccmd.cmd \in {"UPLOAD", "RESET"}
        /\ sys_cmd_queue' = IF Len(sys_cmd_queue) < SysLen
                            THEN Append(sys_cmd_queue, ccmd.cmd) ELSE sys_cmd_queue
        /\ cpc' = "idle" /\ UNCHANGED <<armed, playerVars, report>>
     \/ /\ ccmd.cmd = "CANCEL"      \* esp_timer_stop(s_slots[target_id])
        /\ armed' = [i \in Slots |-> IF i = ccmd.data THEN Off ELSE armed[i]]
        /\ cpc' = IF ccmd.data \in Slots THEN "cancel_clear" ELSE "idle"
        /\ UNCHANGED <<playerVars, outVars>>
  /\ UNCHANGED <<now, heard, rxVars, spc, windowVars, wait, slot_ctx, visual_ack_done,
                 led_timer, last_locked, cslot, ccmd, dpc>>

CCancelClear ==
  /\ CGoto("cancel_clear", "cancel_led")
  /\ visual_ack_done' = [visual_ack_done EXCEPT ![ccmd.data] = FALSE]
  /\ UNCHANGED <<now, heard, rxVars, spc, windowVars, wait, slotVars, led_timer,
                 last_locked, cslot, ccmd, playerVars, outVars, dpc, historyVars>>

\* Mutant of CCancelLed: the light's timer is stopped, and the light left on.
CCancelLedOnly ==
  /\ CGoto("cancel_led", "idle")
  /\ led_timer' = IF slot_ctx[ccmd.data].cmd = "PLAY" THEN Off ELSE led_timer
  /\ UNCHANGED <<now, heard, rxVars, spc, windowVars, wait, slotVars, visual_ack_done,
                 last_locked, cslot, ccmd, playerVars, outVars, dpc, historyVars>>

CCancelLed ==     \* if the slot held PLAY, whether it fired or not
  /\ IF slot_ctx[ccmd.data].cmd = "PLAY"
     THEN CGoto("cancel_led", "cancel_stop") /\ led_timer' = Off
     ELSE CGoto("cancel_led", "idle") /\ UNCHANGED led_timer
  /\ UNCHANGED <<now, heard, rxVars, spc, windowVars, wait, slotVars, visual_ack_done,
                 last_locked, cslot, ccmd, playerVars, outVars, dpc, historyVars>>

CCancelStop ==    \* Player::stop()
  /\ CGoto("cancel_stop", "idle")
  /\ Deliver("STOP", FALSE)
  /\ UNCHANGED <<now, heard, rxVars, spc, windowVars, wait, slotVars, visual_ack_done,
                 led_timer, last_locked, cslot, ccmd, outVars, dpc, historyVars>>

CLed ==           \* led_timer_cb: if(getState() == 4) stop()
  /\ cpc = "idle" /\ led_timer # Off /\ now >= led_timer
  /\ led_timer' = Off
  /\ IF player = "TEST" THEN Deliver("STOP", FALSE) ELSE UNCHANGED playerVars
  /\ UNCHANGED <<now, heard, rxVars, spc, windowVars, wait, slotVars, visual_ack_done,
                 last_locked, timerVars, outVars, dpc, historyVars>>

TimerTask ==
  \/ \E i \in Slots : CExpire(i)
  \/ CRead \/ CClear \/ CDispatch \/ CCancelClear \/ CCancelLed \/ CCancelStop \/ CLed

-----------------------------------------------------------------------------
(* bt_receiver_deinit, called by the update task *)

DGoto(from, to) == Teardown /\ dpc = from /\ dpc' = to

DRequestStop ==         \* request_stop, stop_scan
  /\ DGoto("up", "timers")
  /\ is_running' = FALSE /\ scanning' = FALSE
  /\ UNCHANGED <<spc, adv_queue, armed, led_timer>>

DStopTimers ==
  /\ DGoto("timers", "task")
  /\ armed' = [i \in Slots |-> Off] /\ led_timer' = Off
  /\ UNCHANGED <<spc, adv_queue, is_running, scanning>>

(* The synchronisation task and the queue are deleted, then the timers, which
   fails for an armed one, whose handle is dropped. *)
DDelete ==
  /\ DGoto("task", "down")
  /\ spc' = "dead" /\ adv_queue' = <<>>
  /\ UNCHANGED <<is_running, scanning, armed, led_timer>>

DDown ==
  /\ DRequestStop \/ DStopTimers \/ DDelete
  /\ UNCHANGED <<now, heard, windowVars, wait, slot_ctx, visual_ack_done, last_locked,
                 timerVars, playerVars, outVars, historyVars>>

(* Locking a command takes much less than 100 ms; a timer may fire late. *)
Elapse ==
  /\ spc \in {"receive", "dead"} /\ now < MaxNow
  /\ now' = now + 1
  /\ UNCHANGED <<heard, rxVars, spc, windowVars, wait, slotVars, visual_ack_done,
                 led_timer, last_locked, timerVars, playerVars, outVars, dpc, historyVars>>

Next == Sync \/ TimerTask \/ DDown \/ Elapse \/ \E k \in Sent : Hear(k)

Spec == Init /\ [][Next]_vars

(* The two tasks are scheduled and time passes. *)
FairSpec == Spec /\ WF_vars(Sync) /\ WF_vars(TimerTask) /\ WF_vars(Elapse)

-----------------------------------------------------------------------------
(* The commands on air have slots of their own. *)
OwnSlots == \A j, k \in Sent : j.id = k.id => j = k

(* However its packets are averaged, repeated, dropped or heard again after
   the window closed, a command whose slot is its own and whose packets
   disagree by no more than 100 ms is dispatched at most once and never before
   the time it asks for (bt_scheduler.cpp:181-204, 254-272). *)
OnceOnTime ==
  OwnSlots /\ Jitter <= 1 => ~early /\ \A k \in Sent : fired[k] <= 1

(* The visual feedback of a slot is suppressed only while the command that gave
   it is pending or being dispatched, so the next command in the slot gets its
   own (bt_scheduler.cpp:73-76, 103, 205-225), as long as nothing is cancelled:
   a CANCEL dispatched between SStart and SAckDone leaves the flag set. *)
FeedbackPending ==
  dpc = "up" =>
    \A i \in Slots : visual_ack_done[i] =>
      \/ armed[i] # Off
      \/ cpc \in {"read", "clear"} /\ cslot = i
      \/ cpc = "cancel_clear" /\ ccmd.data = i
      \/ spc \in {"start", "stop"} /\ current.id = i

(* The red light of a PLAY is always going to be put out: by the preparation
   timer, or by the CANCEL that stopped that timer (bt_scheduler.cpp:105-108,
   219-223). *)
LightEnds ==
  dpc = "up" /\ player = "TEST" /\ prep =>
    led_timer # Off \/ spc \in {"led_stop", "led_start"} \/ cpc = "cancel_stop"

(* A command that is locked is dispatched, however it is heard and locked again
   meanwhile (bt_scheduler.cpp:195-233, 263-302), unless the receiver goes down
   or it is cancelled. *)
LockedFires ==
  \A k \in Sent :
    (spc = "write" /\ current = k /\ fired[k] = 0)
      ~> (\/ fired[k] > 0 \/ dpc # "up"
          \/ \E c \in Sent : c.cmd = "CANCEL" /\ c.data = k.id /\ fired[c] > 0)

=============================================================================
