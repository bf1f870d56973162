----------------------------- MODULE ContentUpdate -----------------------------
(***************************************************************************)
(* The content update: sys_cmd_task (main/main.cpp), the update task        *)
(* (FileDownloader/src/tcp_client.cpp) and the file writer                  *)
(* (FileDownloader/src/sd_writer.cpp).                                      *)
(*                                                                          *)
(* Each UPLOAD starts an update task.  It shuts Bluetooth down, joins       *)
(* Wi-Fi, and writes control.dat and frame.dat as it receives them.  Then,  *)
(* whatever came of it, it asks for a restart, the only way back on air.    *)
(* Two update tasks share the event group and the writer; the files outlive *)
(* a restart or a loss of power at any step.                                *)
(***************************************************************************)
EXTENDS Boot, SequencesExt

CONSTANTS
  Updaters,    \* the update tasks that may run at once
  QueueLen,    \* SYS_CMD_QUEUE_LENGTH
  MaxRetries,  \* s_retry_num at which Wi-Fi is given up
  MaxHeard     \* bound: UPLOAD and RESET commands heard

ASSUME LimitsAssumption ==
  QueueLen \in Nat /\ MaxRetries \in Nat /\ MaxHeard \in Nat

VARIABLES
  sys_cmd_queue, mpc,       \* sys_cmd_task: its queue, where it waits
  wifi, retry_num,          \* the driver's connection, s_retry_num
  event_group, bits,        \* s_wifi_event_group, named after the task that created it,
                            \* and the bits set in each group
  file, file_opened,        \* sd_writer
  task,                     \* the update tasks
  heard

commandVars == <<boot, sys_cmd_queue, mpc>>    \* what boot set up, and its users
wifiVars    == <<wifi, retry_num, event_group, bits>>
writerVars  == <<file, file_opened>>
boundVars   == <<heard, faults>>
historyVars == <<spoilt, mishaps>>
updateVars  == <<sys_cmd_queue, mpc, wifiVars, writerVars, task, heard>>
vars == <<stored, boot, bluetooth, faults, historyVars, updateVars>>

NoTask == "none"
Idle   == [pc |-> "idle", group |-> NoTask, show |-> 0, file |-> "control", left |-> 0,
           ok |-> FALSE]

Fresh ==          \* the variables in memory when power comes on
  [queue |-> <<>>, bits |-> [t \in Updaters |-> {}], task |-> [t \in Updaters |-> Idle]]

Init ==
  /\ BootInit
  /\ sys_cmd_queue = Fresh.queue /\ mpc = "receive"
  /\ wifi = "off" /\ retry_num = 0 /\ event_group = NoTask /\ bits = Fresh.bits
  /\ file = "null" /\ file_opened = FALSE
  /\ task = Fresh.task
  /\ heard = 0

(* Boot again: what is not flushed of an open file is lost. *)
Restart ==
  /\ \E lost \in BOOLEAN :
       stored' = IF lost /\ file \in Files /\ stored[file] # <<>>
                 THEN [stored EXCEPT ![file] = Front(@)] ELSE stored
  /\ boot' = PowerOn /\ bluetooth' = FALSE
  /\ sys_cmd_queue' = Fresh.queue /\ mpc' = "receive"
  /\ wifi' = "off" /\ retry_num' = 0 /\ event_group' = NoTask /\ bits' = Fresh.bits
  /\ file' = "null" /\ file_opened' = FALSE
  /\ task' = Fresh.task
  /\ mishaps' = {}
  /\ UNCHANGED spoilt

(* A step of an update that fails a call *)
UpdateFault == Fault /\ UNCHANGED heard

Active == {t \in Updaters : task[t].pc # "idle"}

Send(msg) ==      \* xQueueSend(sys_cmd_queue, &msg, 0)
  sys_cmd_queue' = IF boot.dispatcher /\ Len(sys_cmd_queue) < QueueLen
                   THEN Append(sys_cmd_queue, msg) ELSE sys_cmd_queue

-----------------------------------------------------------------------------
(* The scheduler dispatches UPLOAD or RESET while the receiver is up; a timer that
   survives its teardown (Scheduler) is left out. *)
Hear(msg) ==
  /\ bluetooth /\ heard < MaxHeard
  /\ heard' = heard + 1
  /\ Send(msg)
  /\ mishaps' = IF msg = "RESET" THEN mishaps \cup {"reset"} ELSE mishaps
  /\ UNCHANGED <<stored, boot, mpc, bluetooth, wifiVars, writerVars, task, faults, spoilt>>

-----------------------------------------------------------------------------
(* sys_cmd_task *)

(* tcp_client_start_update_task: the task is created, or cannot be. *)
StartUpdate ==
  \/ /\ Active # Updaters
     /\ LET t == CHOOSE t \in Updaters \ Active : TRUE IN
          task' = [task EXCEPT ![t] = [Idle EXCEPT !.pc = "begin", !.show = heard]]
     /\ mishaps' = IF Active = {} /\ bluetooth THEN mishaps ELSE mishaps \cup {"second"}
  \/ UNCHANGED <<task, mishaps>>

\* Mutant of MReceive: the restart is scheduled when the update is started.
MReceiveAtOnce ==
  /\ mpc = "receive" /\ sys_cmd_queue # <<>>
  /\ sys_cmd_queue' = Tail(sys_cmd_queue)
  /\ \/ Head(sys_cmd_queue) = "UPLOAD" /\ StartUpdate /\ mpc' = "success"
     \/ /\ Head(sys_cmd_queue) = "RESET" /\ mpc' = "restart"
        /\ UNCHANGED <<task, mishaps>>
     \/ /\ Head(sys_cmd_queue) = "UPLOAD_SUCCESS" /\ mpc' = "success"
        /\ UNCHANGED <<task, mishaps>>
  /\ UNCHANGED <<stored, boot, bluetooth, wifiVars, writerVars, boundVars, spoilt>>

MReceive ==
  /\ mpc = "receive" /\ sys_cmd_queue # <<>>
  /\ sys_cmd_queue' = Tail(sys_cmd_queue)
  /\ \/ Head(sys_cmd_queue) = "UPLOAD" /\ StartUpdate /\ UNCHANGED mpc
     \/ /\ Head(sys_cmd_queue) = "RESET" /\ mpc' = "restart"
        /\ UNCHANGED <<task, mishaps>>
     \/ /\ Head(sys_cmd_queue) = "UPLOAD_SUCCESS" /\ mpc' = "success"
        /\ UNCHANGED <<task, mishaps>>
  /\ UNCHANGED <<stored, boot, bluetooth, wifiVars, writerVars, boundVars, spoilt>>

MSuccess ==       \* one second later
  /\ mpc = "success" /\ mpc' = "receive"
  /\ Send("RESET")
  /\ UNCHANGED <<stored, boot, bluetooth, wifiVars, writerVars, task, boundVars, historyVars>>

MRestart ==       \* esp_restart()
  /\ mpc = "restart"
  /\ Restart
  /\ UNCHANGED boundVars

SysCmd == MReceive \/ MSuccess \/ MRestart

-----------------------------------------------------------------------------
(* Wi-Fi, as event_handler hears of it *)

Signal(bit) == bits' = [bits EXCEPT ![event_group] = @ \cup {bit}]

WifiJoined ==     \* IP_EVENT_STA_GOT_IP
  /\ wifi = "joining" /\ wifi' = "up"
  /\ retry_num' = 0
  /\ Signal("CONNECTED")
  /\ UNCHANGED <<stored, commandVars, bluetooth, event_group, writerVars, task, boundVars,
                 historyVars>>

WifiDropped ==    \* WIFI_EVENT_STA_DISCONNECTED
  /\ \/ /\ retry_num < MaxRetries
        /\ wifi' = "joining" /\ retry_num' = retry_num + 1
        /\ UNCHANGED bits
     \/ /\ retry_num >= MaxRetries
        /\ wifi' = "failed" /\ Signal("FAIL")
        /\ UNCHANGED retry_num
  /\ UNCHANGED <<stored, commandVars, bluetooth, event_group, writerVars, task, historyVars>>

WifiFails == wifi = "joining" /\ WifiDropped /\ UNCHANGED boundVars

(* While no task waits for Wi-Fi, a connection that drops shows in what it does
   to recv. *)
WifiDrops ==
  wifi = "up" /\ (\E t \in Updaters : task[t].pc = "wait") /\ WifiDropped /\ UpdateFault

-----------------------------------------------------------------------------
(* update_task_func, download_file and sd_writer *)

Goto(t, from, to) == task[t].pc = from /\ task' = [task EXCEPT ![t].pc = to]

(* bt_receiver_deinit(); s_wifi_event_group = xEventGroupCreate() *)
TBegin(t) ==
  /\ Goto(t, "begin", "start")
  /\ bluetooth' = FALSE
  /\ event_group' = t
  /\ bits' = [bits EXCEPT ![t] = {}]
  /\ UNCHANGED <<stored, commandVars, wifi, retry_num, writerVars, boundVars, historyVars>>

(* esp_wifi_start(); started before, it may connect again or do nothing.  Then
   xEventGroupWaitBits is called with the event group there is. *)
TStart(t) ==
  /\ task[t].pc = "start"
  /\ task' = [task EXCEPT ![t].pc = "wait", ![t].group = event_group]
  /\ retry_num' = 0
  /\ wifi' \in IF wifi = "off" THEN {"joining"} ELSE {wifi, "joining"}
  /\ UNCHANGED <<stored, commandVars, bluetooth, event_group, bits, writerVars, boundVars,
                 historyVars>>

Leave(t, show) == task' = [task EXCEPT ![t].pc = "size", ![t].group = NoTask, ![t].show = show]
GiveUp(t)      == task' = [task EXCEPT ![t] = [Idle EXCEPT !.pc = "notify"]]

(* The player's number is sent, for its own show; 1, when it cannot be read. *)
Identify(t) ==
  \/ boot.nvs = "ready" /\ Leave(t, task[t].show) /\ UNCHANGED <<boundVars, mishaps>>
  \/ /\ Leave(t, Foreign) /\ mishaps' = mishaps \cup {"identity"}
     /\ IF boot.nvs = "ready" THEN UpdateFault ELSE UNCHANGED boundVars

\* Mutant of TWait: only the connection is waited for.
TWaitConnected(t) ==
  /\ task[t].pc = "wait" /\ "CONNECTED" \in bits[task[t].group]
  /\ Identify(t) \/ (GiveUp(t) /\ UpdateFault /\ UNCHANGED mishaps)
  /\ UNCHANGED <<stored, commandVars, bluetooth, wifiVars, writerVars, spoilt>>

(* ... returns, with the bits left set.  With the connected one: socket(), connect(),
   and the player's number. *)
TWait(t) ==
  /\ task[t].pc = "wait" /\ bits[task[t].group] # {}
  /\ \/ "CONNECTED" \in bits[task[t].group] /\ Identify(t)
     \/ /\ GiveUp(t) /\ UNCHANGED mishaps
        /\ IF "CONNECTED" \in bits[task[t].group] THEN UpdateFault ELSE UNCHANGED boundVars
  /\ UNCHANGED <<stored, commandVars, bluetooth, wifiVars, writerVars, spoilt>>

(* The size is received and a buffer allocated, or not; then sd_writer_init:
   if(file_opened) return ESP_OK. *)
TSize(t) ==
  /\ task[t].pc = "size"
  /\ \/ /\ task' = [task EXCEPT ![t].pc = IF file_opened THEN "recv" ELSE "open",
                               ![t].left = Chunks]
        /\ UNCHANGED boundVars
     \/ GiveUp(t) /\ UpdateFault
  /\ UNCHANGED <<stored, commandVars, bluetooth, wifiVars, writerVars, historyVars>>

TOpen(t) ==       \* fopen(file_path, "wb"), which empties the file, or fails
  /\ \/ /\ Goto(t, "open", "recv") /\ boot.storage
        /\ stored' = [stored EXCEPT ![task[t].file] = <<>>]
        /\ file' = task[t].file /\ file_opened' = TRUE
        /\ spoilt' = TRUE /\ UNCHANGED boundVars
     \/ /\ task[t].pc = "open" /\ GiveUp(t)
        /\ IF boot.storage THEN UpdateFault ELSE UNCHANGED boundVars
        /\ UNCHANGED <<stored, writerVars, spoilt>>
  /\ UNCHANGED <<commandVars, bluetooth, wifiVars, mishaps>>

Refused(t) == task' = [task EXCEPT ![t].pc = "close", ![t].left = 0]
Written(t) ==
  task' = [task EXCEPT ![t].pc = IF task[t].left = 1 THEN "close" ELSE "recv",
                       ![t].left = @ - 1, ![t].ok = task[t].left = 1]

(* A chunk is received, or an error; then sd_writer_write: if(!file_opened)
   return ESP_ERR_INVALID_STATE. *)
TRecv(t) ==
  /\ task[t].pc = "recv"
  /\ \/ Refused(t) /\ UpdateFault
     \/ /\ IF file_opened THEN Goto(t, "recv", "write") ELSE Refused(t)
        /\ UNCHANGED boundVars
  /\ UNCHANGED <<stored, commandVars, bluetooth, wifiVars, writerVars, historyVars>>

(* fwrite(data, 1, len, file), short or not; to a file the other task has closed
   meanwhile, it panics or returns anything. *)
TWrite(t) ==
  /\ task[t].pc = "write"
  /\ \/ /\ file \in Files /\ Written(t)
        /\ stored' = [stored EXCEPT ![file] =
             Append(@, Content(task[t].file, task[t].show)[Chunks - task[t].left + 1])]
        /\ UNCHANGED <<commandVars, bluetooth, wifiVars, writerVars, historyVars, boundVars>>
     \/ /\ file \notin Files /\ (Written(t) \/ Refused(t))
        /\ UNCHANGED <<stored, commandVars, bluetooth, wifiVars, writerVars, historyVars,
                       boundVars>>
     \/ /\ file \in Files /\ Refused(t) /\ UpdateFault
        /\ UNCHANGED <<stored, commandVars, bluetooth, wifiVars, writerVars, historyVars>>
     \/ file \notin Files /\ Restart /\ UNCHANGED boundVars

(* After a file: the next one, or "DONE\n" is sent whatever has happened. *)
Onward(t) ==
  IF task[t].ok /\ task[t].file = "control"
  THEN task' = [task EXCEPT ![t].pc = "size", ![t].file = "frame", ![t].ok = FALSE]
  ELSE GiveUp(t)

(* sd_writer_close: fflush and fclose.  What cannot be flushed is lost, and
   nobody is told.  Closing what the other task has closed panics or not. *)
TClose(t) ==
  /\ task[t].pc = "close"
  /\ \/ ~file_opened /\ Onward(t)
        /\ UNCHANGED <<stored, commandVars, bluetooth, wifiVars, writerVars, historyVars,
                       boundVars>>
     \/ /\ file_opened /\ Goto(t, "close", "unset")
        /\ file' = "closed"
        /\ \/ UNCHANGED <<stored, mishaps, boundVars>>
           \/ /\ file \in Files /\ stored[file] # <<>> /\ UpdateFault
              /\ stored' = [stored EXCEPT ![file] = Front(@)]
              /\ mishaps' = mishaps \cup {"flush"}
        /\ UNCHANGED <<commandVars, bluetooth, wifiVars, file_opened, spoilt>>
     \/ file_opened /\ file \notin Files /\ Restart /\ UNCHANGED boundVars

\* Mutant of TUnset: the writer believes that the file is still open.
TUnsetForgets(t) ==
  /\ task[t].pc = "unset" /\ Onward(t)
  /\ file' = "null"
  /\ spoilt' = (spoilt /\ ~(/\ task[t].ok /\ task[t].file = "frame"
                            /\ mishaps \cap {"second", "flush", "identity"} = {}))
  /\ UNCHANGED <<stored, commandVars, bluetooth, wifiVars, file_opened, boundVars, mishaps>>

TUnset(t) ==      \* file = NULL; file_opened = false
  /\ task[t].pc = "unset" /\ Onward(t)
  /\ file' = "null" /\ file_opened' = FALSE
  /\ spoilt' = (spoilt /\ ~(/\ task[t].ok /\ task[t].file = "frame"
                            /\ mishaps \cap {"second", "flush", "identity"} = {}))
  /\ UNCHANGED <<stored, commandVars, bluetooth, wifiVars, boundVars, mishaps>>

TNotify(t) ==     \* UPLOAD_SUCCESS, whether the download succeeded or not
  /\ task[t].pc = "notify"
  /\ task' = [task EXCEPT ![t] = Idle]
  /\ Send("UPLOAD_SUCCESS")
  /\ UNCHANGED <<stored, boot, mpc, bluetooth, wifiVars, writerVars, boundVars, historyVars>>

Update(t) ==
  \/ TBegin(t) \/ TStart(t) \/ TWait(t) \/ TSize(t) \/ TOpen(t)
  \/ TRecv(t) \/ TWrite(t) \/ TClose(t) \/ TUnset(t) \/ TNotify(t)

PowerLoss == UpdateFault /\ Restart

Next ==
  \/ BootStep /\ UNCHANGED updateVars
  \/ SysCmd \/ WifiJoined \/ WifiFails \/ WifiDrops \/ PowerLoss
  \/ \E t \in Updaters : Update(t)
  \/ \E msg \in {"UPLOAD", "RESET"} : Hear(msg)

Spec == Init /\ [][Next]_vars

(* The tasks are scheduled, boot's among them, joining Wi-Fi succeeds or fails, and the server
   answers or closes the connection. *)
FairSpec ==
  /\ Spec /\ WF_vars(BootStep /\ UNCHANGED updateVars) /\ WF_vars(SysCmd) /\ WF_vars(WifiJoined \/ WifiFails)
  /\ \A t \in Updaters : WF_vars(Update(t))

-----------------------------------------------------------------------------
(* An update that ran alone since a restart, was received without an error and flushed leaves
   both files whole and of one show, whatever was lost or cut short before it;
   and they stay so until the next update opens one (tcp_client.cpp:124-190,
   252-257, sd_writer.cpp:13-66). *)
SuccessIsWhole == ~spoilt => \E show \in 0 .. MaxHeard : stored = Show(show)

(* The restart that an update asks for never cuts an update: that takes a RESET
   heard besides, or two updates (main.cpp:151-174). *)
RestartsWhenDone ==
  mpc = "restart" /\ mishaps \cap {"reset", "second"} = {} => Active = {}

(* A receiver that was shut down is on air again: every update ends in a restart and
   every restart in a receiver, whatever else fails; a receiver that boot itself
   could not start is not tried again (tcp_client.cpp:193-287, main.cpp:131-182,
   360-370). *)
ComesBack == ~bluetooth ~> bluetooth \/ "deaf" \in mishaps

=============================================================================
