---------------------------------- MODULE BtAck ----------------------------------
(***************************************************************************)
(* The radio of the receiver: scanning is started and stopped by            *)
(* bt_receiver.cpp, and interrupted by the tasks of bt_ack.cpp, one for     *)
(* each CHECK, that broadcast an ACK.  All of them command one Bluetooth    *)
(* controller through bt_hci.cpp, and none knows of the others.             *)
(*                                                                          *)
(* Time passes in units of 5 ms, the shortest delay.                        *)
(***************************************************************************)
EXTENDS Integers, FiniteSets

CONSTANTS
  Tasks,         \* ACK tasks that may be alive at once
  SafetyDelay,   \* the delays of send_ack_task, in units: before it begins,
  ScanDelay,     \* after scanning is stopped,
  ParamDelay,    \* after the parameters are set,
  DataDelay,     \* after the data is set,
  AirTime,       \* and while it broadcasts
  StartDelay,    \* between the commands of bt_hci_start_scan
  MaxChecks      \* bound: CHECKs dispatched

ASSUME DelayAssumption ==
  /\ SafetyDelay \in Nat \ {0} /\ ScanDelay \in Nat \ {0} /\ ParamDelay \in Nat \ {0}
  /\ DataDelay \in Nat \ {0} /\ AirTime \in Nat \ {0} /\ StartDelay \in Nat \ {0}
ASSUME ChecksAssumption == MaxChecks \in Nat

VARIABLES
  rx,           \* the receiver: its control point, and what it still waits
  task,         \* each ACK task likewise, with the CHECK it answers
  controller,   \* the Bluetooth controller
  checks,       \* CHECKs dispatched
  aired,        \* history: for how long each answer has been on air,
  shared,       \* and the answers whose task met another one or a teardown
  deaf          \* history: for how long the receiver has not been scanning

ackVars == <<rx, task, controller, checks, aired, shared, deaf>>

Checks == 1 .. MaxChecks
None   == 0
Idle   == [pc |-> "idle", wait |-> 0, check |-> None]
Off    == [up |-> FALSE, events |-> FALSE, scanParams |-> FALSE, scanning |-> FALSE,
           advertising |-> FALSE, params |-> FALSE, data |-> None]
Alive  == {t \in Tasks : task[t].pc # "idle"}

AckInit ==
  /\ rx = [pc |-> "init", wait |-> 0]
  /\ task = [t \in Tasks |-> Idle]
  /\ controller = Off
  /\ checks = 0 /\ aired = [c \in Checks |-> 0] /\ shared = {} /\ deaf = 0

-----------------------------------------------------------------------------
(* HCI commands.  A controller that is down takes none; one that advertises refuses
   other parameters. *)

Hci(change) == controller' = IF controller.up THEN change ELSE controller

Reset                  == Hci([Off EXCEPT !.up = TRUE])
SetEvtMask             == Hci([controller EXCEPT !.events = TRUE])
SetScanParams          == Hci([controller EXCEPT !.scanParams = TRUE])
SetScanEnabled(enable) == Hci([controller EXCEPT !.scanning = enable])
SetAckAdvParams        == Hci([controller EXCEPT !.params = TRUE])
SetAdvData(data)       == Hci([controller EXCEPT !.data = data])
SetAdvEnabled(enable)  == Hci([controller EXCEPT !.advertising = enable])

\* Advertising reports reach the host.
Hears == controller.scanning /\ controller.scanParams /\ controller.events

-----------------------------------------------------------------------------
(* bt_receiver_init and bt_receiver_start, in app_task *)

Rx(from, to, wait) == rx.pc = from /\ rx.wait = 0 /\ rx' = [pc |-> to, wait |-> wait]
HistoryUnchanged   == UNCHANGED <<checks, aired, shared, deaf>>

ControllerInit == controller' = [controller EXCEPT !.up = TRUE]

RInit ==          \* bt_scheduler_init may fail; the controller's calls are not checked
  /\ \/ Rx("init", "reset", 0) /\ ControllerInit
     \/ Rx("init", "failed", 0) /\ UNCHANGED controller
  /\ UNCHANGED task /\ HistoryUnchanged

RReset  == Rx("reset", "mask", StartDelay) /\ Reset /\ UNCHANGED task /\ HistoryUnchanged
RMask   == Rx("mask", "params", StartDelay) /\ SetEvtMask /\ UNCHANGED task /\ HistoryUnchanged
RParams == Rx("params", "enable", StartDelay) /\ SetScanParams /\ UNCHANGED task /\ HistoryUnchanged
REnable == Rx("enable", "up", 0) /\ SetScanEnabled(TRUE) /\ UNCHANGED task /\ HistoryUnchanged

(* bt_receiver_deinit, in an update task: request_stop ends the CHECKs, then scanning
   is stopped, the callback unregistered, and the controller disabled and released. *)
RStop ==
  /\ Rx("up", "stop", 0)
  /\ shared' = shared \cup {task[t].check : t \in Alive}
  /\ UNCHANGED <<controller, task, checks, aired, deaf>>

RScanOff ==
  Rx("stop", "deinit", 0) /\ SetScanEnabled(FALSE) /\ UNCHANGED task /\ HistoryUnchanged

RDeinit ==
  /\ Rx("deinit", "down", 0)
  /\ controller' = Off
  /\ UNCHANGED task /\ HistoryUnchanged

Receiver == RInit \/ RReset \/ RMask \/ RParams \/ REnable \/ RStop \/ RScanOff \/ RDeinit

-----------------------------------------------------------------------------
(* bt_ack_trigger, for a CHECK dispatched while the receiver runs: the task is
   created, or cannot be. *)
Check(t) ==
  /\ rx.pc = "up" /\ task[t].pc = "idle" /\ checks < MaxChecks
  /\ checks' = checks + 1
  /\ \/ /\ task' = [task EXCEPT ![t] = [pc |-> "scan_off", wait |-> SafetyDelay,
                                       check |-> checks + 1]]
        /\ shared' = IF Alive = {} THEN shared
                     ELSE shared \cup {checks + 1} \cup {task[s].check : s \in Alive}
     \/ UNCHANGED <<task, shared>>
  /\ UNCHANGED <<rx, controller, aired, deaf>>

(* send_ack_task *)
Goto(t, from, to, wait) ==
  /\ task[t].pc = from /\ task[t].wait = 0
  /\ task' = [task EXCEPT ![t].pc = to, ![t].wait = wait]

ScanOff(t) ==
  /\ Goto(t, "scan_off", "params", ScanDelay)
  /\ SetScanEnabled(FALSE)
  /\ UNCHANGED rx /\ HistoryUnchanged

AdvParams(t) ==
  /\ Goto(t, "params", "data", ParamDelay)
  /\ IF controller.advertising THEN UNCHANGED controller ELSE SetAckAdvParams
  /\ UNCHANGED rx /\ HistoryUnchanged

AdvData(t) ==     \* bt_protocol_build_ack_adv_data, bt_hci_set_adv_data
  /\ Goto(t, "data", "adv_on", DataDelay)
  /\ SetAdvData(task[t].check)
  /\ UNCHANGED rx /\ HistoryUnchanged

\* Mutant of AdvOn: the broadcast is stopped without its delay.
AdvOnBriefly(t) ==
  /\ Goto(t, "adv_on", "adv_off", DataDelay)
  /\ SetAdvEnabled(TRUE)
  /\ UNCHANGED rx /\ HistoryUnchanged

AdvOn(t) ==
  /\ Goto(t, "adv_on", "adv_off", AirTime)
  /\ SetAdvEnabled(TRUE)
  /\ UNCHANGED rx /\ HistoryUnchanged

AdvOff(t) ==
  /\ Goto(t, "adv_off", "scan_on", 0)
  /\ SetAdvEnabled(FALSE)
  /\ UNCHANGED rx /\ HistoryUnchanged

\* Mutant of ScanOn: scanning is resumed only by a task that has met no other.
ScanOnUnlessShared(t) ==
  /\ task[t].pc = "scan_on" /\ task' = [task EXCEPT ![t] = Idle]
  /\ IF task[t].check \in shared THEN UNCHANGED <<controller, deaf>>
     ELSE SetScanEnabled(TRUE) /\ deaf' = 0
  /\ UNCHANGED <<rx, checks, aired, shared>>

ScanOn(t) ==      \* and the task deletes itself
  /\ task[t].pc = "scan_on" /\ task' = [task EXCEPT ![t] = Idle]
  /\ SetScanEnabled(TRUE) /\ deaf' = 0
  /\ UNCHANGED <<rx, checks, aired, shared>>

Ack(t) ==
  ScanOff(t) \/ AdvParams(t) \/ AdvData(t) \/ AdvOn(t) \/ AdvOff(t) \/ ScanOn(t)

-----------------------------------------------------------------------------
(* A unit of time passes when no task is due; what is due is run within a unit. *)
Waiting(r) == r.wait > 0 \/ r.pc \in {"idle", "up", "failed", "down"}
Less(r)    == [r EXCEPT !.wait = IF @ > 0 THEN @ - 1 ELSE 0]

Elapse ==
  /\ Waiting(rx) /\ \A t \in Tasks : Waiting(task[t])
  /\ rx.wait > 0 \/ Alive # {}
  /\ rx' = Less(rx) /\ task' = [t \in Tasks |-> Less(task[t])]
  /\ aired' = [c \in Checks |-> IF controller.advertising /\ controller.params
                                   /\ controller.data = c
                                THEN aired[c] + 1 ELSE aired[c]]
  /\ deaf' = IF rx.pc = "up" /\ ~Hears THEN deaf + 1 ELSE 0
  /\ UNCHANGED <<controller, checks, shared>>

AckNext ==
  \/ Receiver \/ Elapse
  \/ \E t \in Tasks : Check(t) \/ Ack(t)

AckSpec == AckInit /\ [][AckNext]_ackVars

-----------------------------------------------------------------------------
Quiet == rx.pc = "up" /\ Alive = {}

ScanResumes == Quiet => Hears /\ ~controller.advertising
DeafBounded == deaf <= ScanDelay + ParamDelay + DataDelay + AirTime

(* However CHECKs overlap, the receiver hears nothing for no longer than one ACK takes,
   as the task that stopped the scanning resumes it even while another broadcasts; and
   when the last ACK task is gone it hears and advertises nothing, in whatever order the
   tasks have switched both on and off (bt_ack.cpp:21-53). *)
HearsAgain == ScanResumes /\ DeafBounded

(* An ACK that meets no other is on air for its whole time.  Of those that overlap, a
   later one replaces the data of the earlier, and an earlier one stops the broadcast of
   the later, which may then not be heard at all; still they have the air between them
   for as long as one takes, so that one of n has at least an n-th of it
   (bt_ack.cpp:21-53). *)
AckOnAir ==
  Quiet =>
    /\ \A c \in 1 .. checks : c \notin shared => aired[c] \in {0, AirTime}
    /\ shared # {} => \E c \in shared : Cardinality(shared) * aired[c] >= AirTime

=============================================================================
