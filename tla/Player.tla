--------------------------------- MODULE Player ---------------------------------
(***************************************************************************)
(* The player (Player/src/player.cpp, player_fsm.cpp): one task that owns   *)
(* the clock, the frame buffer and the LED controller and walks through the *)
(* states UNLOADED, READY, PLAYING, PAUSE and TEST; callers on other tasks  *)
(* that post events into its queue and notify it; and the metronome's       *)
(* interrupt, which notifies it to draw.                                    *)
(*                                                                          *)
(* The clock is the stopwatch that PlayerClock implements, with the timer   *)
(* behind its metronome; the frame buffer reads a settled frame system.     *)
(* LEDs are lit or dark.                                                    *)
(***************************************************************************)
EXTENDS FrameBuffer

CONSTANTS
  Callers,      \* tasks that send commands
  Commands,     \* event types they send
  Timeline,     \* the show on the card
  MaxTime,      \* bound: the last playback time
  QueueLen,     \* LD_CFG_PLAYER_EVENT_QUEUE_LEN
  MaxCalls,     \* bound: commands sent in a behaviour
  MaxFaults     \* bound: driver calls that fail in a behaviour

ASSUME MaxTimeAssumption  == MaxTime \in Nat
ASSUME QueueLenAssumption == QueueLen \in Nat \ {0}
ASSUME CountsAssumption   == MaxCalls \in Nat /\ MaxFaults \in Nat
ASSUME TimelineAssumption == Timeline \in Seq([at : Nat, ok : BOOLEAN])

VARIABLES
  m_state, resources_acquired,
  clock, time, timer,    \* PlayerClock: state, now_us(), the hardware timer
  bus,                   \* is the I2C bus taken by the LED controller?
  fb, lit,               \* FrameBuffer; what the LEDs show
  eventQueue,            \* the events queued
  queue_handle,          \* "live", "dangling" once deleted, then "null"
  taskAlive,
  notified, woken,       \* notification bits pending; ulNotifiedValue, while needed
  pc, after, pending,    \* player task: control point, and during vTaskDelay
                         \* where it goes on and the event it then sends
  call,                  \* each caller: between the steps of sendEvent
  calls, faults          \* counters of the bounds

deviceVars == <<resources_acquired, clock, time, timer, bus, fb, lit>>
queueVars  == <<eventQueue, queue_handle, taskAlive>>
loopVars   == <<woken, pc, after, pending>>
callVars   == <<call, calls>>
vars == <<m_state, deviceVars, queueVars, notified, loopVars, callVars, faults>>

States == {"UNLOADED", "READY", "PLAYING", "PAUSE", "TEST"}
Types  == {"PLAY", "TEST", "PAUSE", "STOP", "RELEASE", "LOAD", "EXIT", "SEEK"}

ASSUME CommandsAssumption == Commands \subseteq Types

Event(type) == [type |-> type, data |-> 0]
Requests == {Event(type) : type \in Commands \ {"SEEK"}}
              \cup [type : Commands \cap {"SEEK"}, data : 0 .. MaxTime]
Idle == [at |-> "idle", event |-> Event("STOP")]

Init ==
  /\ m_state = "UNLOADED" /\ resources_acquired = FALSE
  /\ clock = "UNINIT" /\ time = 0 /\ timer = "none"
  /\ bus = "free" /\ fb = ZeroFb(1) /\ lit = FALSE
  /\ eventQueue = <<>> /\ queue_handle = "live" /\ taskAlive = FALSE
  /\ notified = {} /\ woken = {}
  /\ pc = "boot" /\ after = "wait" /\ pending = "LOAD"
  /\ call = [c \in Callers |-> Idle] /\ calls = 0 /\ faults = 0

Show == Timeline     \* as a definition, which TLC evaluates once
StartFb == ResetFb(Show)

Fault == faults < MaxFaults /\ faults' = faults + 1
NoFault == UNCHANGED faults

HasRoom == taskAlive /\ Len(eventQueue) < QueueLen

\* Mutant of Post: the player is not notified.
PostSilent(type) ==
  /\ eventQueue' = IF HasRoom
                   THEN Append(eventQueue, Event(type)) ELSE eventQueue
  /\ UNCHANGED notified

(* sendEvent by the player task itself *)
Post(type) ==
  IF HasRoom
  THEN /\ eventQueue' = Append(eventQueue, Event(type))
       /\ notified' = notified \cup {"EVENT"}
  ELSE UNCHANGED <<eventQueue, notified>>

-----------------------------------------------------------------------------
(* Resources *)

(* vTaskDelay, then sendEvent *)
DelayThenSend(type, back) ==
  /\ pc' = "delay" /\ after' = back /\ pending' = type

(* releaseResources: the clock's timer may refuse to stop or to be deleted; a
   timer that was disabled and not deleted refuses for ever.  Deleting the
   controller's devices turns the LEDs off. *)
ReleaseResources(ok) ==
  \/ /\ ok /\ ~resources_acquired
     /\ NoFault /\ UNCHANGED deviceVars
  \/ /\ ok /\ resources_acquired /\ timer # "created"
     /\ clock' = "UNINIT" /\ time' = 0 /\ timer' = "none"
     /\ bus' = "free" /\ lit' = FALSE
     /\ resources_acquired' = FALSE
     /\ NoFault /\ UNCHANGED fb
  \/ /\ ~ok /\ resources_acquired
     /\ \/ timer = "created" /\ NoFault /\ UNCHANGED timer
        \/ timer # "created" /\ Fault /\ timer' \in {timer, "enabled", "created"}
     /\ UNCHANGED <<resources_acquired, clock, time, bus, fb, lit>>

\* Mutant of EnterUnloaded: a RELEASE is queued also after a release.
EnterUnloadedAgain(back) ==
  /\ m_state' = "UNLOADED"
  /\ ReleaseResources(TRUE) \/ ReleaseResources(FALSE)
  /\ DelayThenSend("RELEASE", back)

EnterUnloaded(back) ==
  /\ m_state' = "UNLOADED"
  /\ \/ ReleaseResources(TRUE)  /\ DelayThenSend("LOAD", back)
     \/ ReleaseResources(FALSE) /\ DelayThenSend("RELEASE", back)

\* Mutant of ResetPlayback: the LEDs are not blacked out.
ResetPlaybackLit ==
  /\ time' = 0
  /\ fb' = StartFb
  /\ UNCHANGED lit

(* resetPlayback: the clock is zeroed and stopped, the frame buffer goes back
   to the start, the LEDs go dark.  The result of stopping the metronome is
   ignored. *)
ResetPlayback ==
  /\ time' = 0
  /\ fb' = StartFb
  /\ lit' = FALSE

MetronomeStop ==
  \/ NoFault /\ timer' = IF timer = "running" THEN "enabled" ELSE timer
  \/ timer = "running" /\ Fault /\ UNCHANGED timer

EnterReady(back) ==
  /\ m_state' = "READY"
  /\ ResetPlayback /\ clock' = "STOPPED" /\ MetronomeStop
  /\ pc' = back
  /\ UNCHANGED <<resources_acquired, bus, after, pending>>

(* acquireResources: controller, frame buffer, clock.  A controller that was
   initialised before the clock failed keeps the bus, and no later attempt can
   take it. *)
AcquireFails ==
  \/ bus = "held" /\ NoFault /\ UNCHANGED <<bus, fb, timer>>
  \/ bus = "free" /\ Fault /\ UNCHANGED <<bus, fb, timer>>
  \/ /\ bus = "free" /\ Fault
     /\ bus' = "held" /\ fb' = InitFb(Show, fb)
     /\ timer' \in {timer, "created"}

-----------------------------------------------------------------------------
\* Mutant of Load: READY is entered although the resources are not acquired.
LoadRegardless(back) ==
  /\ ~resources_acquired /\ AcquireFails
  /\ m_state' = "READY" /\ pc' = back
  /\ UNCHANGED <<resources_acquired, clock, time, lit, after, pending>>

(* processEvent; back is the control point after the call.  Nothing here can
   leave the clock uninitialised with the resources acquired, so resetPlayback
   succeeds whenever READY is entered. *)

Load(back) ==
  \/ /\ resources_acquired
     /\ EnterReady(back)
  \/ /\ ~resources_acquired /\ bus = "free"
     /\ resources_acquired' = TRUE /\ bus' = "held"
     /\ m_state' = "READY"
     /\ ResetPlayback /\ clock' = "STOPPED" /\ timer' = "enabled"
     /\ pc' = back
     /\ NoFault /\ UNCHANGED <<after, pending>>
  \/ /\ ~resources_acquired /\ AcquireFails
     /\ DelayThenSend("LOAD", back)
     /\ UNCHANGED <<m_state, resources_acquired, clock, time, lit>>

(* startPlayback: clock.start(), whose failure is ignored *)
StartClock ==
  \/ /\ timer \in {"enabled", "running"} /\ NoFault
     /\ clock' = "RUNNING" /\ timer' = "running"
  \/ /\ timer = "created" /\ NoFault /\ UNCHANGED <<clock, timer>>
  \/ /\ timer = "enabled" /\ Fault /\ UNCHANGED <<clock, timer>>

Play(back) ==
  /\ m_state' = "PLAYING"
  /\ StartClock
  /\ pc' = back
  /\ UNCHANGED <<resources_acquired, time, bus, fb, lit, after, pending>>

Pause(back) ==
  /\ m_state' = "PAUSE"
  /\ \/ clock = "RUNNING" /\ clock' = "PAUSED" /\ MetronomeStop
     \/ clock # "RUNNING" /\ NoFault /\ UNCHANGED <<clock, timer>>
  /\ pc' = back
  /\ UNCHANGED <<resources_acquired, time, bus, fb, lit, after, pending>>

(* resetPlayback, then testPlayback *)
Test(back) ==
  /\ m_state' = "TEST"
  /\ time' = 0 /\ lit' = FALSE
  /\ fb' = [StartFb EXCEPT !.test = TRUE]
  /\ \/ timer # "created" /\ NoFault /\ clock' = "RUNNING" /\ timer' = "running"
     \/ timer = "created" /\ NoFault /\ clock' = "STOPPED" /\ UNCHANGED timer
     \/ timer # "created" /\ Fault /\ clock' = "STOPPED" /\ timer' = "enabled"
  /\ pc' = back
  /\ UNCHANGED <<resources_acquired, bus, after, pending>>

(* set_time_us: the result of compute is only logged *)
Seek(t, back) ==
  /\ time' = t
  /\ \E sought \in {SeekFb(Show, fb, t)} : fb' = Compute(Show, sought, t).fb
  /\ pc' = back
  /\ NoFault
  /\ UNCHANGED <<m_state, resources_acquired, clock, timer, bus, lit, after, pending>>

(* The events each state handles; it ignores the others. *)
Handled ==
  [UNLOADED |-> {"LOAD", "RELEASE"},
   READY    |-> {"PLAY", "RELEASE", "TEST", "SEEK"},
   PLAYING  |-> {"PAUSE", "STOP", "RELEASE"},
   PAUSE    |-> {"PLAY", "STOP", "RELEASE"},
   TEST     |-> {"TEST", "STOP", "RELEASE"}]

Ignore(back) ==
  pc' = back /\ NoFault /\ UNCHANGED <<m_state, deviceVars, after, pending>>

ProcessEvent(e, back) ==
  \/ e.type \notin Handled[m_state] /\ Ignore(back)
  \/ /\ e.type \in Handled[m_state]
     /\ \/ e.type = "LOAD"    /\ Load(back)
        \/ e.type = "RELEASE" /\ EnterUnloaded(back)
        \/ e.type = "PLAY"    /\ Play(back)
        \/ e.type = "PAUSE"   /\ Pause(back)
        \/ e.type = "STOP"    /\ EnterReady(back)
        \/ e.type = "TEST"    /\ Test(back)
        \/ e.type = "SEEK"    /\ Seek(e.data, back)

-----------------------------------------------------------------------------
(* The player task *)

Boot ==           \* taskEntry: processEvent(LOAD)
  /\ pc = "boot"
  /\ ProcessEvent(Event("LOAD"), "wait")
  /\ UNCHANGED <<queueVars, notified, woken, callVars>>

(* The shortest delay, 100 ms, is taken to be longer than it takes createTask
   to return and set taskAlive. *)
DelayOver ==
  /\ pc = "delay" /\ taskAlive
  /\ Post(pending)
  /\ pc' = after /\ after' = "wait" /\ pending' = "LOAD"
  /\ UNCHANGED <<m_state, deviceVars, queue_handle, taskAlive, woken, callVars, faults>>

Wait ==           \* xTaskNotifyWait(0, UINT32_MAX, ...)
  /\ pc = "wait" /\ notified # {}
  /\ notified' = {}
  /\ \/ "EVENT" \in notified /\ pc' = "events" /\ woken' = notified
     \/ "EVENT" \notin notified /\ pc' = "update" /\ woken' = {}
  /\ UNCHANGED <<m_state, deviceVars, queueVars, after, pending, callVars, faults>>

Receive ==        \* xQueueReceive and processEvent
  /\ pc = "events" /\ eventQueue # <<>>
  /\ eventQueue' = Tail(eventQueue)
  /\ IF Head(eventQueue).type = "EXIT"
     THEN /\ pc' = "release"
          /\ UNCHANGED <<m_state, deviceVars, after, pending, faults>>
     ELSE ProcessEvent(Head(eventQueue), "events")
  /\ UNCHANGED <<queue_handle, taskAlive, notified, woken, callVars>>

Drained ==        \* the queue is empty
  /\ pc = "events" /\ eventQueue = <<>>
  /\ pc' = IF "UPDATE" \in woken THEN "update" ELSE "wait"
  /\ woken' = {}
  /\ UNCHANGED <<m_state, deviceVars, queueVars, notified, after, pending,
                 callVars, faults>>

\* Mutant of Update: the end of the show asks for nothing.
UpdateToTheEnd ==
  /\ pc = "update"
  /\ IF m_state \in {"PLAYING", "TEST"}
     THEN LET r == Compute(Show, fb, time) IN
          /\ fb' = r.fb
          /\ lit' = TRUE
          /\ IF r.status = "ERROR" THEN Post("STOP") ELSE UNCHANGED <<eventQueue, notified>>
     ELSE UNCHANGED <<fb, lit, eventQueue, notified>>
  /\ pc' = "wait"
  /\ UNCHANGED <<m_state, resources_acquired, clock, time, timer, bus, queue_handle,
                 taskAlive, woken, after, pending, callVars, faults>>

(* updateState: draw the frame due; at the end of the show, or when the frame
   buffer fails, ask for a STOP -- which for a failure comes before the drawing,
   and no drawing follows when the queue is full *)
Update ==
  /\ pc = "update"
  /\ IF m_state \in {"PLAYING", "TEST"}
     THEN LET r == Compute(Show, fb, time) IN
          /\ fb' = r.fb
          /\ lit' = (lit \/ r.status # "ERROR" \/ HasRoom)
          /\ IF r.status \in {"ERROR", "EOF_REACHED"} THEN Post("STOP")
             ELSE UNCHANGED <<eventQueue, notified>>
     ELSE UNCHANGED <<fb, lit, eventQueue, notified>>
  /\ pc' = "wait"
  /\ UNCHANGED <<m_state, resources_acquired, clock, time, timer, bus, queue_handle,
                 taskAlive, woken, after, pending, callVars, faults>>

ExitRelease ==    \* releaseResources(), whatever it returns
  /\ pc = "release"
  /\ ReleaseResources(TRUE) \/ ReleaseResources(FALSE)
  /\ pc' = "delete"
  /\ UNCHANGED <<m_state, queueVars, notified, woken, after, pending, callVars>>

ExitStep ==       \* vQueueDelete; eventQueue = nullptr; taskAlive = false
  /\ \/ /\ pc = "delete" /\ pc' = "null"
        /\ queue_handle' = "dangling" /\ eventQueue' = <<>> /\ UNCHANGED taskAlive
     \/ /\ pc = "null" /\ pc' = "flag"
        /\ queue_handle' = "null" /\ UNCHANGED <<eventQueue, taskAlive>>
     \/ /\ pc = "flag" /\ pc' = "dead"
        /\ taskAlive' = FALSE /\ UNCHANGED <<eventQueue, queue_handle>>
  /\ UNCHANGED <<m_state, deviceVars, notified, woken, after, pending, callVars, faults>>

PlayerTask ==
  \/ Boot \/ DelayOver \/ Wait \/ Receive \/ Drained \/ Update
  \/ ExitRelease \/ ExitStep

-----------------------------------------------------------------------------
(* The rest of the system *)

CreateTask ==     \* createTask has started the task, and returns
  /\ ~taskAlive /\ pc \in {"boot", "wait", "delay"}
  /\ taskAlive' = TRUE
  /\ UNCHANGED <<m_state, deviceVars, eventQueue, queue_handle, notified, loopVars,
                 callVars, faults>>

(* sendEvent by a caller: the check of taskAlive and eventQueue *)
CallCheck(c, e) ==
  /\ call[c].at = "idle" /\ calls < MaxCalls
  /\ taskAlive /\ queue_handle # "null"
  /\ call' = [call EXCEPT ![c] = [at |-> "send", event |-> e]]
  /\ calls' = calls + 1
  /\ UNCHANGED <<m_state, deviceVars, queueVars, notified, loopVars, faults>>

\* Mutant of CallSend: the length of the queue is not checked.
CallSendUnbounded(c) ==
  /\ call[c].at = "send" /\ queue_handle = "live"
  /\ eventQueue' = Append(eventQueue, call[c].event)
  /\ call' = [call EXCEPT ![c].at = "notify"]
  /\ UNCHANGED <<m_state, deviceVars, queue_handle, taskAlive, notified, loopVars,
                 calls, faults>>

CallSend(c) ==    \* xQueueSend(eventQueue, &event, 0)
  /\ call[c].at = "send" /\ queue_handle = "live"
  /\ IF Len(eventQueue) < QueueLen
     THEN /\ eventQueue' = Append(eventQueue, call[c].event)
          /\ call' = [call EXCEPT ![c].at = "notify"]
     ELSE /\ call' = [call EXCEPT ![c] = Idle]
          /\ UNCHANGED eventQueue
  /\ UNCHANGED <<m_state, deviceVars, queue_handle, taskAlive, notified, loopVars,
                 calls, faults>>

CallNotify(c) ==  \* xTaskNotify(taskHandle, NOTIFICATION_EVENT, eSetBits)
  /\ call[c].at = "notify" /\ pc # "dead"
  /\ notified' = notified \cup {"EVENT"}
  /\ call' = [call EXCEPT ![c] = Idle]
  /\ UNCHANGED <<m_state, deviceVars, queueVars, loopVars, calls, faults>>

Caller(c) == CallSend(c) \/ CallNotify(c)

Tick ==           \* timer_on_alarm_cb
  /\ timer = "running" /\ pc # "dead"
  /\ notified' = notified \cup {"UPDATE"}
  /\ UNCHANGED <<m_state, deviceVars, queueVars, loopVars, callVars, faults>>

Elapse ==
  /\ clock = "RUNNING" /\ time < MaxTime
  /\ time' = time + 1
  /\ UNCHANGED <<m_state, resources_acquired, clock, timer, bus, fb, lit, queueVars,
                 notified, loopVars, callVars, faults>>

Next ==
  \/ PlayerTask \/ CreateTask \/ Tick \/ Elapse
  \/ \E c \in Callers : Caller(c) \/ \E e \in Requests : CallCheck(c, e)

Spec == Init /\ [][Next]_vars

(* The tasks are scheduled, the timer fires and the clock counts; whether to
   send a command is the callers' affair. *)
FairSpec ==
  /\ Spec
  /\ WF_vars(PlayerTask) /\ WF_vars(CreateTask) /\ WF_vars(Tick) /\ WF_vars(Elapse)
  /\ \A c \in Callers : WF_vars(Caller(c))

-----------------------------------------------------------------------------
TypeOK ==
  /\ m_state \in States /\ resources_acquired \in BOOLEAN
  /\ clock \in {"UNINIT", "STOPPED", "RUNNING", "PAUSED"}
  /\ time \in 0 .. MaxTime
  /\ timer \in {"none", "created", "enabled", "running"}
  /\ bus \in {"free", "held"} /\ lit \in BOOLEAN
  /\ eventQueue \in Seq([type : Types, data : 0 .. MaxTime])
  /\ Len(eventQueue) <= QueueLen
  /\ queue_handle \in {"live", "dangling", "null"} /\ taskAlive \in BOOLEAN
  /\ notified \subseteq {"EVENT", "UPDATE"} /\ woken \subseteq {"EVENT", "UPDATE"}
  /\ pc \in {"boot", "wait", "events", "update", "delay", "release", "delete",
             "null", "flag", "dead"}
  /\ after \in {"wait", "events"} /\ pending \in {"LOAD", "RELEASE"}
  /\ call \in [Callers -> [at : {"idle", "send", "notify"}, event : Requests \cup {Event("STOP")}]]
  /\ calls \in 0 .. MaxCalls /\ faults \in 0 .. MaxFaults

(* An event in the queue is never stranded: a player about to sleep has a
   notification for it, or the sender still has to give one
   (player.cpp:217-227, 246-251). *)
NoStrandedEvents ==
  pc = "wait" /\ eventQueue # <<>> =>
    "EVENT" \in notified \/ \E c \in Callers : call[c].at = "notify"

(* Outside UNLOADED the player owns its devices, whatever failed before and
   whichever LOAD or RELEASE retries are still queued (player.cpp:253-279,
   player_fsm.cpp:65-82, 128-143). *)
ResourcesHeld ==
  m_state # "UNLOADED" /\ pc \in {"wait", "events", "update"} =>
    resources_acquired /\ clock # "UNINIT" /\ timer # "none" /\ bus = "held"

(* While no driver call has failed, the clock, the metronome, the test mode of the frame
   buffer and the LEDs agree with the state: a stopped task leaves no timer behind to
   notify it, and a drawing that was due when the STOP or the RELEASE was processed is
   not made (player.cpp:83-132, 217-232). *)
StateConsistent ==
  faults = 0 =>
    /\ clock = CASE ~resources_acquired -> "UNINIT"
                 [] resources_acquired /\ m_state \in {"PLAYING", "TEST"} -> "RUNNING"
                 [] resources_acquired /\ m_state = "PAUSE" -> "PAUSED"
                 [] resources_acquired /\ m_state = "READY" -> "STOPPED"
    /\ timer = "running" <=> clock = "RUNNING"
    /\ m_state \in {"READY", "PLAYING", "PAUSE"} => ~fb.test
    /\ m_state \in {"UNLOADED", "READY"} => ~lit

\* A driver call failed, the queue filled up, or the player exited.
Excused == faults > 0 \/ Len(eventQueue) = QueueLen \/ pc = "dead"

(* A show that plays stops by itself at its end, unless it is paused or stopped
   before, or the player is excused; a seek that passed the end has swallowed it
   (player.cpp:134-165). *)
AutoStop == m_state = "PLAYING" /\ ~fb.eof ~> m_state # "PLAYING" \/ Excused

Owed == pc \in {"boot", "delay"}
          \/ \E k \in DOMAIN eventQueue : eventQueue[k].type \in {"LOAD", "RELEASE"}

(* A player without its resources that still owes itself a LOAD gets them back,
   unless it is excused (player_fsm.cpp:65-82, 128-143). *)
Reloads == m_state = "UNLOADED" /\ Owed ~> m_state = "READY" \/ Excused

(* LOAD is retried until the resources are acquired, whatever failed
   (Player/docs/02-state-machine.md:29): after one failure of the clock every retry
   fails too (player.cpp:253-267). *)
RetrySucceeds == m_state = "UNLOADED" ~> m_state = "READY" \/ pc = "dead"

=============================================================================
