---------------------------- MODULE PressureReceiver ----------------------------
(***************************************************************************)
(* The Bluetooth receiver of the firmware in example/Pressure_test, one     *)
(* file (Messenger/src/bt_receiver.cpp) that Messenger was later made from. *)
(* It answers a CHECK in the timer task, which it holds for CheckDelay, and *)
(* remembers only the commands whose window another command closed.         *)
(*                                                                          *)
(* Time is in coarse units.  The tasks are prompt: a unit passes only when  *)
(* none has anything left to do.                                            *)
(***************************************************************************)
EXTENDS Integers, Sequences

CONSTANTS
  OnAir,         \* the commands sent: [id, cmd, data, prep, at], and skew: by how
                 \* much two packets of the command may disagree on its time
  Window,        \* sync_window_us
  Margin,        \* the 100 ms below which a command is late
  QueueLen,      \* s_config.queue_size
  CheckDelay,    \* how long a CHECK holds the timer task
  AckWaits,      \* the four delays of send_ack_task
  Ackers,        \* ACK tasks that may be alive at once
  MaxPackets,    \* bound: packets heard
  LastTick       \* bound: time

ASSUME PressureAssumption ==
  /\ \A k \in OnAir : /\ k.id \in 0 .. 15 /\ k.at \in Nat /\ k.prep \in Nat
                        /\ k.skew \in 0 .. Margin
  /\ Window \in Nat /\ Margin \in Nat /\ QueueLen \in Nat
  /\ CheckDelay \in Nat /\ AckWaits \in [1 .. 4 -> Nat] /\ MaxPackets \in Nat /\ LastTick \in Nat

VARIABLES
  now, heard,
  adv_queue, is_running,
  spc, window, following, wait,  \* sync_process_task
  slots,                         \* s_slots and s_visual_ack_done
  led_timer, last_locked_cmd,
  timer,                         \* the timer task: its point, slot, command, delay
  acks,                          \* each ACK task: its step, its delay
  radio,                         \* the controller
  player, red,                   \* the player's state, and: is TEST the red light?
  sys_queue, sys,                \* sys_cmd_task
  down,                          \* bt_receiver_deinit
  fired, checked, late           \* history: dispatches of each command, CHECKs
                                 \* answered, how late a command was dispatched

syncVars  == <<adv_queue, spc, window, following, wait>>
timerVars == <<timer, checked, fired, late>>
lightVars == <<player, red>>
sysVars   == <<sys_queue, sys>>
pressureVars == <<now, heard, syncVars, is_running, slots, led_timer, last_locked_cmd,
                  timerVars, acks, radio, lightVars, sysVars, down>>

SlotIds == 0 .. 15
Nothing == [id |-> 0, cmd |-> "NONE", data |-> 0, prep |-> 0, at |-> 0, skew |-> 0]
Never   == -1                        \* a timer that is not armed
Resting == [step |-> 0, wait |-> 0]
NoPkt   == [command |-> Nothing, target |-> Never]
SysQueueLen == 10                    \* sys_cmd_queue, which loses what it has no room for

PressureInit ==
  /\ now = 0 /\ heard = 0 /\ adv_queue = <<>> /\ is_running = TRUE
  /\ spc = "receive" /\ following = NoPkt /\ wait = 0
  /\ window = [collecting |-> FALSE, command |-> Nothing, sum |-> 0, count |-> 0, start |-> 0]
  /\ slots = [i \in SlotIds |-> [ctx |-> Nothing, due |-> Never, done |-> FALSE]]
  /\ led_timer = Never /\ last_locked_cmd = Nothing
  /\ timer = [pc |-> "idle", slot |-> 0, cmd |-> Nothing, wait |-> 0]
  /\ acks = [t \in Ackers |-> Resting]
  /\ radio = [up |-> TRUE, scanning |-> TRUE, advertising |-> FALSE]
  /\ player = "READY" /\ red = FALSE /\ sys_queue = <<>> /\ sys = "wait" /\ down = "up"
  /\ fired = [k \in OnAir |-> 0] /\ checked = 0 /\ late = 0

\* The player, which handles its events at once (player_fsm.cpp; RELEASE reloads).
After(event) ==
  CASE event = "PLAY"  /\ player \in {"READY", "PAUSE"}         -> "PLAYING"
    [] event = "PAUSE" /\ player = "PLAYING"                    -> "PAUSE"
    [] event = "STOP"  /\ player \in {"PLAYING", "PAUSE", "TEST"} -> "READY"
    [] event = "RELEASE"                                        -> "READY"
    [] event = "TEST"  /\ player \in {"READY", "TEST"}          -> "TEST"
    [] OTHER                                                    -> player

SendPlayer(event, isRed) ==
  /\ player' = After(event)
  /\ red' = (After(event) = "TEST" /\ IF event = "TEST" THEN isRed ELSE red)

\* fast_parse_and_trigger: a packet for this player is queued, or dropped.
HearPacket(k) ==
  /\ radio.scanning /\ down \in {"up", "stop", "timers"} /\ heard < MaxPackets /\ now <= k.at /\ heard' = heard + 1
  /\ \E skew \in 0 .. k.skew :
       adv_queue' = IF Len(adv_queue) < QueueLen
                    THEN Append(adv_queue, [command |-> k, target |-> k.at + skew])
                    ELSE adv_queue
  /\ UNCHANGED <<now, is_running, spc, window, following, wait, slots, led_timer,
                 last_locked_cmd, timerVars, acks, radio, lightVars, sysVars, down>>

-----------------------------------------------------------------------------
(* sync_process_task *)

Collect(packet) ==
  window' = [collecting |-> TRUE, command |-> packet.command, sum |-> packet.target,
             count |-> 1, start |-> now]

WindowOpen == now < window.start + Window
Left       == (window.sum \div window.count) - now

\* Mutant of Close: the delay is taken from the start of the window.
CloseFromStart ==
  /\ wait' = Left + (now - window.start)
  /\ spc' = IF wait' > Margin THEN "write" ELSE "next"

Close == wait' = Left /\ spc' = IF Left > Margin THEN "write" ELSE "next"

SyncReceive ==
  /\ spc = "receive" /\ is_running /\ adv_queue # <<>> /\ adv_queue' = Tail(adv_queue)
  /\ LET packet == Head(adv_queue) IN
     \/ /\ ~window.collecting /\ Collect(packet) /\ spc' = "check"
        /\ UNCHANGED <<following, wait>>
     \/ /\ window.collecting /\ packet.command.id = window.command.id /\ spc' = "check"
        /\ window' = IF WindowOpen
                     THEN [window EXCEPT !.sum = @ + packet.target, !.count = @ + 1]
                     ELSE window
        /\ UNCHANGED <<following, wait>>
     \/ /\ window.collecting /\ packet.command.id # window.command.id
        /\ following' = packet /\ Close /\ UNCHANGED window

SyncTimeout ==
  /\ UNCHANGED <<adv_queue, window, following>>
  /\ \/ spc = "check"
     \/ spc = "receive" /\ is_running /\ adv_queue = <<>> /\ window.collecting /\ ~WindowOpen
  /\ IF window.collecting /\ ~WindowOpen THEN Close ELSE spc' = "receive" /\ UNCHANGED wait

SyncNext ==       \* the packet that closed the window opens the next one
  /\ spc = "next" /\ following' = NoPkt /\ UNCHANGED <<adv_queue, wait>>
  /\ \/ following # NoPkt /\ Collect(following) /\ spc' = "check"
     \/ following = NoPkt /\ window' = [window EXCEPT !.collecting = FALSE] /\ spc' = "receive"

Locking(from, to) == spc = from /\ spc' = to /\ UNCHANGED <<adv_queue, window, following, wait>>
Slot(field, value) == slots' = [slots EXCEPT ![window.command.id][field] = value]

SyncSlot ==       \* ctx, esp_timer_stop, esp_timer_start_once
  \/ Locking("write", "stop") /\ Slot("ctx", window.command)
  \/ Locking("stop", "start") /\ Slot("due", Never)
  \/ Locking("start", "flash") /\ Slot("due", now + wait)

\* Once for each slot, PLAY shows a red light, for prep_time.
SyncFlash ==
  IF ~slots[window.command.id].done /\ window.command.cmd = "PLAY" /\ window.command.prep > 0
  THEN Locking("flash", "led") /\ SendPlayer("TEST", TRUE)
  ELSE /\ Locking("flash", IF slots[window.command.id].done THEN "cache" ELSE "done")
       /\ UNCHANGED lightVars

SyncLed == Locking("led", "done") /\ led_timer' = now + window.command.prep

SyncDone == Locking("done", "cache") /\ Slot("done", TRUE)

\* s_last_locked_cmd is written only where another command closed the window.
SyncCache ==
  /\ Locking("cache", "next")
  /\ last_locked_cmd' = IF following # NoPkt /\ window.command.cmd # "CHECK"
                        THEN window.command ELSE last_locked_cmd

SyncExit == Locking("receive", "dead") /\ ~is_running

SyncTask ==
  /\ \/ /\ SyncReceive \/ SyncTimeout \/ SyncNext \/ SyncExit
        /\ UNCHANGED <<slots, led_timer, last_locked_cmd, lightVars>>
     \/ SyncSlot  /\ UNCHANGED <<led_timer, last_locked_cmd, lightVars>>
     \/ SyncFlash /\ UNCHANGED <<slots, led_timer, last_locked_cmd>>
     \/ SyncLed   /\ UNCHANGED <<slots, last_locked_cmd, lightVars>>
     \/ SyncDone  /\ UNCHANGED <<led_timer, last_locked_cmd, lightVars>>
     \/ SyncCache /\ UNCHANGED <<slots, led_timer, lightVars>>
  /\ UNCHANGED <<now, heard, is_running, timerVars, acks, radio, sysVars, down>>

-----------------------------------------------------------------------------
(* The timer task serves the timer that is due first. *)

Dues == {slots[i].due : i \in SlotIds} \cup {led_timer}
First(due) == due # Never /\ due <= now /\ \A d \in Dues : d = Never \/ due <= d
TimerAt(from, to) == timer.pc = from /\ timer.wait = 0 /\ timer' = [timer EXCEPT !.pc = to]

TimerExpire ==
  /\ \E i \in SlotIds :
       /\ timer.pc = "idle" /\ First(slots[i].due)
       /\ timer' = [timer EXCEPT !.pc = "dispatch", !.slot = i, !.cmd = slots[i].ctx]
       /\ slots' = [slots EXCEPT ![i].due = Never, ![i].done = FALSE]
  /\ UNCHANGED <<checked, fired, late, led_timer, lightVars, acks, sys_queue>>

\* led_timer_cb puts out whatever TEST shows.
TimerLed ==
  /\ timer.pc = "idle" /\ First(led_timer) /\ led_timer' = Never
  /\ IF player = "TEST" THEN SendPlayer("STOP", FALSE) ELSE UNCHANGED lightVars
  /\ UNCHANGED <<timerVars, slots, acks, sys_queue>>

Fired ==
  /\ fired' = [fired EXCEPT ![timer.cmd] = @ + 1]
  /\ late' = IF now < timer.cmd.at THEN LastTick + now - timer.cmd.at    \* early
             ELSE IF now - timer.cmd.at > late THEN now - timer.cmd.at ELSE late

\* Mutant of TimerDispatch: a CHECK is answered at once.
TimerDispatchAtOnce ==
  /\ TimerAt("dispatch", IF timer.cmd.cmd = "CHECK" THEN "trigger" ELSE "idle") /\ Fired
  /\ UNCHANGED <<checked, slots, led_timer, lightVars, acks, sys_queue>>

SendSys(msg) ==
  sys_queue' = IF Len(sys_queue) < SysQueueLen THEN Append(sys_queue, msg) ELSE sys_queue

TimerDispatch ==  \* switch(cmd)
  /\ timer.pc = "dispatch" /\ Fired
  /\ \/ /\ timer.cmd.cmd \in {"PLAY", "PAUSE", "STOP", "RELEASE", "TEST"}
        /\ TimerAt("dispatch", "idle") /\ SendPlayer(timer.cmd.cmd, FALSE)
        /\ UNCHANGED <<slots, sys_queue>>
     \/ /\ timer.cmd.cmd = "CANCEL"
        /\ TimerAt("dispatch", IF slots[timer.cmd.data].ctx.cmd = "PLAY" THEN "dark" ELSE "idle")
        /\ slots' = [slots EXCEPT ![timer.cmd.data].due = Never, ![timer.cmd.data].done = FALSE]
        /\ UNCHANGED <<lightVars, sys_queue>>
     \/ /\ timer.cmd.cmd = "CHECK"
        /\ timer' = [timer EXCEPT !.pc = "trigger", !.wait = CheckDelay]
        /\ UNCHANGED <<slots, lightVars, sys_queue>>
     \/ /\ timer.cmd.cmd \in {"UPLOAD", "RESET"}
        /\ TimerAt("dispatch", "idle") /\ SendSys(timer.cmd.cmd)
        /\ UNCHANGED <<slots, lightVars>>
  /\ UNCHANGED <<checked, led_timer, acks>>

TimerDark ==      \* a cancelled PLAY: its light's timer, then Player::stop()
  /\ \/ TimerAt("dark", "stop") /\ led_timer' = Never /\ UNCHANGED lightVars
     \/ TimerAt("stop", "idle") /\ SendPlayer("STOP", FALSE) /\ UNCHANGED led_timer
  /\ UNCHANGED <<checked, fired, late, slots, acks, sys_queue>>

TimerTrigger ==   \* trigger_ack_task, which may find no memory
  /\ TimerAt("trigger", "idle") /\ checked' = checked + 1
  /\ \/ UNCHANGED acks
     \/ \E t \in Ackers : acks[t] = Resting /\ acks' = [acks EXCEPT ![t].step = 1]
  /\ UNCHANGED <<fired, late, slots, led_timer, lightVars, sys_queue>>

TimerTask ==
  /\ TimerExpire \/ TimerLed \/ TimerDispatch \/ TimerDark \/ TimerTrigger
  /\ UNCHANGED <<now, heard, syncVars, is_running, last_locked_cmd, radio, sys, down>>

-----------------------------------------------------------------------------
(* send_ack_task: scanning off, parameters, data, advertising on and off, scanning on *)
Radio(change) == radio' = IF radio.up THEN change ELSE radio

AckTask(t) ==
  LET step == acks[t].step IN
  /\ step > 0 /\ acks[t].wait = 0
  /\ acks' = [acks EXCEPT ![t] = IF step = 5 THEN Resting
                                 ELSE [step |-> step + 1, wait |-> AckWaits[step]]]
  /\ Radio(CASE step = 1 -> [radio EXCEPT !.scanning = FALSE]
             [] step \in {2, 3} -> radio
             [] step = 4 -> [radio EXCEPT !.advertising = TRUE]
             [] step = 5 -> [radio EXCEPT !.advertising = FALSE, !.scanning = TRUE])
  /\ UNCHANGED <<now, heard, syncVars, is_running, slots, led_timer, last_locked_cmd,
                 timerVars, lightVars, sysVars, down>>

(* sys_cmd_task: UPLOAD stops the player, shows green and starts the update, whose task
   takes the receiver down; RESET, and the end of the update, restart in a second.  Time
   may pass that second here and no restart come. *)
SysTask ==
  /\ \/ /\ sys = "wait" /\ sys_queue # <<>> /\ sys_queue' = Tail(sys_queue)
        /\ LET msg == Head(sys_queue) IN
           /\ sys' = IF msg = "UPLOAD" THEN "green" ELSE "restart"
           /\ IF msg = "UPLOAD_SUCCESS" \/ (msg = "UPLOAD" /\ player # "READY")
              THEN SendPlayer("STOP", FALSE) ELSE UNCHANGED lightVars
        /\ UNCHANGED down
     \/ /\ sys = "green" /\ sys' = "wait" /\ SendPlayer("TEST", FALSE)
        /\ down' = (IF down = "up" THEN "stop" ELSE down) /\ UNCHANGED sys_queue
  /\ UNCHANGED <<now, heard, syncVars, is_running, slots, led_timer, last_locked_cmd,
                 timerVars, acks, radio>>

(* bt_receiver_stop and the rest of bt_receiver_deinit *)
Downward(from, to) == down = from /\ down' = to

(* Whatever became of the download, update_task_func reports success. *)
UpdateEnds ==
  /\ Downward("down", "updated") /\ SendSys("UPLOAD_SUCCESS")
  /\ UNCHANGED <<now, heard, syncVars, is_running, slots, led_timer, last_locked_cmd,
                 timerVars, acks, radio, lightVars, sys>>

TakeDown ==
  /\ \/ /\ Downward("stop", "timers") /\ is_running' = FALSE
        /\ Radio([radio EXCEPT !.scanning = FALSE]) /\ UNCHANGED <<slots, led_timer, spc, adv_queue>>
     \/ /\ Downward("timers", "task") /\ led_timer' = Never
        /\ slots' = [i \in SlotIds |-> [slots[i] EXCEPT !.due = Never]]
        /\ UNCHANGED <<is_running, radio, spc, adv_queue>>
     \/ /\ Downward("task", "controller") /\ spc' = "dead" /\ adv_queue' = <<>>
        /\ UNCHANGED <<is_running, radio, slots, led_timer>>
     \/ /\ Downward("controller", "down")
        /\ radio' = [up |-> FALSE, scanning |-> FALSE, advertising |-> FALSE]
        /\ UNCHANGED <<is_running, slots, led_timer, spc, adv_queue>>
  /\ UNCHANGED <<now, heard, window, following, wait, last_locked_cmd, timerVars, acks,
                 lightVars, sysVars>>

-----------------------------------------------------------------------------
Countdown(r) == [r EXCEPT !.wait = IF @ > 0 THEN @ - 1 ELSE 0]

TasksIdle ==
  /\ \/ spc = "dead"
     \/ /\ spc = "receive" /\ is_running /\ adv_queue = <<>>
        /\ window.collecting => WindowOpen
  /\ timer.wait > 0 \/ (timer.pc = "idle" /\ \A d \in Dues : ~First(d))
  /\ \A t \in Ackers : acks[t].step = 0 \/ acks[t].wait > 0
  /\ sys # "green" /\ down \in {"up", "down", "updated"}
  /\ sys = "wait" => sys_queue = <<>>

Unit ==
  /\ TasksIdle /\ now < LastTick /\ now' = now + 1
  /\ timer' = Countdown(timer) /\ acks' = [t \in Ackers |-> Countdown(acks[t])]
  /\ UNCHANGED <<heard, syncVars, is_running, slots, led_timer, last_locked_cmd, checked,
                 fired, late, radio, lightVars, sysVars, down>>

PressureNext ==
  \/ SyncTask \/ TimerTask \/ SysTask \/ TakeDown \/ UpdateEnds \/ Unit
  \/ \E t \in Ackers : AckTask(t)
  \/ \E k \in OnAir : HearPacket(k)

PressureSpec == PressureInit /\ [][PressureNext]_pressureVars

-----------------------------------------------------------------------------
Acking == {t \in Ackers : acks[t].step > 0}

(* Because a CHECK holds the timer task for longer than an ACK takes, no two ACKs
   overlap: none takes the other off the air, and between them the receiver scans
   (bt_receiver.cpp:188-243, 399-414). *)
AcksApart ==
  AckWaits[1] + AckWaits[2] + AckWaits[3] + AckWaits[4] < CheckDelay =>
    /\ \A s, t \in Acking : s = t
    /\ Acking = {} /\ down = "up" => radio.scanning /\ ~radio.advertising

(* The price is paid by the other commands: one may be dispatched late by CheckDelay for
   every CHECK that was answered before it, and by no more than Margin besides, which its
   packets may be off; none is early, and none is acted on twice
   (bt_receiver.cpp:351-431, 434-575). *)
LateByChecks ==
  /\ late <= Margin + CheckDelay * checked
  /\ \A k \in OnAir : fired[k] <= 1

=============================================================================
