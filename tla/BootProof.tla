-------------------------------- MODULE BootProof --------------------------------
(* Proofs about boot and about what updates leave for it, with restarts and losses of power
   at any step: for any number of updates, chunks, faults and Wi-Fi retries. *)
EXTENDS ContentUpdate, TLAPS

USE ChunksAssumption, FaultsAssumption, LimitsAssumption DEF LimitsAssumption

Chunk  == [file : Files, show : Int \ {NoShow}, part : Nat]
Points == {"idle", "begin", "start", "wait", "size", "open", "recv", "write", "close",
           "unset", "notify"}
TaskType == [pc : Points, group : Updaters \cup {NoTask}, show : Nat \cup {Foreign},
             file : Files, left : Nat, ok : BOOLEAN]

(* What an update writes is a chunk of some show. *)
Typed ==
  /\ stored \in [Files -> Seq(Chunk)]
  /\ task \in [Updaters -> TaskType]
  /\ \A t \in Updaters : task[t].pc \in {"open", "recv", "write"} => task[t].left \in 1 .. Chunks
  /\ event_group \in Updaters \cup {NoTask} /\ heard \in Nat

(* How much of the frame system there is, as boot's step tells *)
Nothing ==
  boot.timeline = NoShow /\ boot.reader = NoShow /\ ~boot.sems /\ ~boot.frames
All ==
  /\ boot.timeline # NoShow /\ boot.reader # NoShow /\ boot.sems /\ boot.frames
  /\ boot.channels = "show"

BootSet ==
  [step : {"storage", "nvs", "control", "frame", "task", "player", "dispatcher",
           "bluetooth", "done"},
   storage : BOOLEAN, nvs : {"ready", "erased", "failed"}, timeline : Int,
   reader : Int, sems : BOOLEAN, frames : BOOLEAN,
   channels : {"none", "show", "default"}, dispatcher : BOOLEAN, whole : BOOLEAN]

BootType == boot \in BootSet

Stages ==
  /\ boot.step \in {"storage", "nvs", "control"} => Nothing
  /\ boot.step = "frame" =>
       /\ boot.timeline # NoShow /\ boot.reader = NoShow /\ ~boot.sems /\ ~boot.frames
       /\ boot.channels = "show"
  /\ boot.step = "task" =>
       /\ boot.timeline # NoShow /\ boot.reader # NoShow /\ ~boot.sems /\ ~boot.frames
       /\ boot.channels = "show"
  /\ boot.step = "player" => Nothing \/ All
  /\ boot.step \in {"dispatcher", "bluetooth", "done"} =>
       All \/ (Nothing /\ boot.channels = "default")

Inv == Typed /\ BootType /\ Stages

-----------------------------------------------------------------------------
LEMMA ContentType ==
  ASSUME NEW f \in Files, NEW show \in Nat \cup {Foreign}
  PROVE  /\ Content(f, show) \in Seq(Chunk) /\ Content(f, show) # <<>>
         /\ \A i \in 1 .. Chunks : Content(f, show)[i] \in Chunk
<1>1. show \in Int \ {NoShow}
  BY DEF Foreign, NoShow
<1>2. \A i \in 1 .. Chunks : [file |-> f, show |-> show, part |-> i] \in Chunk
  BY <1>1 DEF Chunk
<1> QED
  BY <1>2 DEF Content

LEMMA NoShowType == NoShow \in Int
BY DEF NoShow

LEMMA Stored ==
  ASSUME stored \in [Files -> Seq(Chunk)], NEW f \in Files, NEW i \in DOMAIN stored[f]
  PROVE  stored[f][i].show \in Int \ {NoShow}
<1>1. stored[f][i] \in Chunk
  OBVIOUS
<1> QED
  BY <1>1 DEF Chunk

LEMMA PowerOnType ==
  /\ PowerOn.step = "storage" /\ PowerOn.timeline = NoShow /\ PowerOn.reader = NoShow
  /\ ~PowerOn.sems /\ ~PowerOn.frames /\ PowerOn \in BootSet
<1>1. NoShow \in Int
  BY DEF NoShow
<1> QED
  BY <1>1 DEF PowerOn, BootSet

LEMMA PowerOnStage == boot' = PowerOn => BootType' /\ Stages'
BY PowerOnType DEF BootType, Stages, Nothing

LEMMA InvInit == Init => Inv
<1> SUFFICES ASSUME Init PROVE Inv
  OBVIOUS
<1> USE DEF Init, BootInit, Fresh
<1>1. stored \in [Files -> Seq(Chunk)]
  BY ContentType DEF Show, Foreign
<1>2. Idle \in TaskType /\ Idle.pc = "idle"
  BY DEF Idle, TaskType, Points, Files
<1>3. Typed
  BY <1>1, <1>2 DEF Typed
<1>4. BootType /\ Stages
  BY PowerOnType DEF BootType, Stages, Nothing
<1> QED
  BY <1>3, <1>4 DEF Inv

-----------------------------------------------------------------------------
LEMMA StepBoot == Inv /\ BootStep /\ UNCHANGED updateVars => Inv'
<1> SUFFICES ASSUME Inv, BootStep, UNCHANGED updateVars PROVE Inv'
  OBVIOUS
<1> USE DEF Inv, At
<1>1. stored' \in [Files -> Seq(Chunk)]
  <2>1. stored' = stored \/ stored' = [f \in Files |-> <<>>]
    BY Zenon DEF BootStep, BStorage, BNvs, BControl, BFrame, BTask, BPlayer, BDispatcher,
           BReceiver
  <2>2. <<>> \in Seq(Chunk)
    OBVIOUS
  <2> QED
    BY <2>1, <2>2 DEF Typed
<1>2. Typed'
  BY <1>1 DEF Typed, updateVars, wifiVars
<1>3. CASE BStorage \/ BNvs
  <2>1. /\ boot' \in BootSet /\ boot'.step \in {"nvs", "control"}
        /\ boot'.timeline = boot.timeline /\ boot'.reader = boot.reader
        /\ boot'.sems = boot.sems /\ boot'.frames = boot.frames
    BY ZenonT(30), <1>3 DEF BStorage, BNvs, BootType, BootSet
  <2>2. Nothing
    BY <1>3, Zenon DEF BStorage, BNvs, Stages
  <2>3. Nothing'
    BY <2>1, <2>2, Zenon DEF Nothing
  <2> QED
    BY <1>2, <2>1, <2>3 DEF BootType, Stages
<1>5. CASE BControl
  <2>1. Nothing
    BY <1>5, Zenon DEF BControl, Stages
  <2>2. CASE \E show \in {stored["control"][i].show : i \in DOMAIN stored["control"]} :
               boot' = [boot EXCEPT !.step = "frame", !.timeline = show,
                                    !.channels = "show", !.whole = ~spoilt]
    <3>1. PICK show \in Int \ {NoShow} :
            boot' = [boot EXCEPT !.step = "frame", !.timeline = show,
                                 !.channels = "show", !.whole = ~spoilt]
      BY ZenonT(30), <2>2, Stored DEF Typed, Files
    <3>2. /\ boot' \in BootSet /\ boot'.step = "frame" /\ boot'.timeline = show
          /\ boot'.channels = "show" /\ boot'.reader = boot.reader
          /\ boot'.sems = boot.sems /\ boot'.frames = boot.frames
      BY <3>1 DEF BootType, BootSet
    <3>3. boot'.timeline # NoShow /\ boot'.reader = NoShow /\ ~boot'.sems /\ ~boot'.frames
      BY <2>1, <3>1, <3>2, Zenon DEF Nothing
    <3> QED
      BY <1>2, <3>2, <3>3 DEF BootType, Stages
  <2>3. CASE boot' = [boot EXCEPT !.step = "player", !.whole = ~spoilt]
    <3>1. /\ boot' \in BootSet /\ boot'.step = "player" /\ boot'.timeline = boot.timeline
          /\ boot'.reader = boot.reader /\ boot'.sems = boot.sems
          /\ boot'.frames = boot.frames
      BY <2>3 DEF BootType, BootSet
    <3>2. Nothing'
      BY <2>1, <3>1, Zenon DEF Nothing
    <3> QED
      BY <1>2, <3>1, <3>2 DEF BootType, Stages
  <2> QED
    BY <1>5, <2>2, <2>3, Zenon DEF BControl
<1>6. CASE BFrame
  <2>1. /\ boot.timeline # NoShow /\ boot.reader = NoShow /\ ~boot.sems /\ ~boot.frames
        /\ boot.channels = "show"
    BY <1>6, Zenon DEF BFrame, Stages
  <2>2. CASE /\ HasHeader
             /\ boot' = [boot EXCEPT !.step = "task", !.reader = Head(stored["frame"]).show]
    <3>1. Head(stored["frame"]).show \in Int \ {NoShow}
      <4>1. stored["frame"] \in Seq(Chunk) /\ stored["frame"] # <<>>
        BY <2>2 DEF HasHeader, Typed, Files
      <4>2. Head(stored["frame"]) \in Chunk
        BY <4>1
      <4> QED
        BY <4>2 DEF Chunk
    <3>2. /\ boot' \in BootSet /\ boot'.step = "task" /\ boot'.timeline = boot.timeline
          /\ boot'.channels = boot.channels /\ boot'.reader = Head(stored["frame"]).show
          /\ boot'.sems = boot.sems /\ boot'.frames = boot.frames
      BY <2>2, <3>1 DEF BootType, BootSet
    <3>3. boot'.timeline # NoShow /\ boot'.reader # NoShow /\ ~boot'.sems /\ ~boot'.frames
          /\ boot'.channels = "show"
      BY <2>1, <3>1, <3>2, Zenon
    <3> QED
      BY <1>2, <3>2, <3>3 DEF BootType, Stages
  <2>3. CASE boot' = [boot EXCEPT !.step = "player", !.timeline = NoShow]
    <3>1. /\ boot' \in BootSet /\ boot'.step = "player" /\ boot'.timeline = NoShow
          /\ boot'.reader = boot.reader /\ boot'.sems = boot.sems
          /\ boot'.frames = boot.frames
      BY <2>3, NoShowType DEF BootType, BootSet
    <3>2. Nothing'
      BY <2>1, <3>1, Zenon DEF Nothing
    <3> QED
      BY <1>2, <3>1, <3>2 DEF BootType, Stages
  <2> QED
    BY <1>6, <2>2, <2>3, Zenon DEF BFrame
<1>7. CASE BTask
  <2>1. /\ boot.timeline # NoShow /\ boot.reader # NoShow /\ ~boot.sems /\ ~boot.frames
        /\ boot.channels = "show"
    BY <1>7, Zenon DEF BTask, Stages
  <2>2. CASE boot' = [boot EXCEPT !.step = "player", !.sems = TRUE, !.frames = TRUE]
    <3>1. /\ boot' \in BootSet /\ boot'.step = "player" /\ boot'.timeline = boot.timeline
          /\ boot'.reader = boot.reader /\ boot'.sems = TRUE
          /\ boot'.frames = TRUE /\ boot'.channels = boot.channels
      BY <2>2 DEF BootType, BootSet
    <3>2. All'
      BY <2>1, <3>1, Zenon DEF All
    <3> QED
      BY <1>2, <3>1, <3>2 DEF BootType, Stages
  <2>3. CASE boot' = [boot EXCEPT !.step = "player", !.timeline = NoShow, !.reader = NoShow]
    <3>1. /\ boot' \in BootSet /\ boot'.step = "player" /\ boot'.timeline = NoShow
          /\ boot'.reader = NoShow /\ boot'.sems = boot.sems
          /\ boot'.frames = boot.frames
      BY <2>3, NoShowType DEF BootType, BootSet
    <3>2. Nothing'
      BY <2>1, <3>1, Zenon DEF Nothing
    <3> QED
      BY <1>2, <3>1, <3>2 DEF BootType, Stages
  <2> QED
    BY <1>7, <2>2, <2>3, Zenon DEF BTask
<1>8. CASE BPlayer
  <2>1. /\ boot' \in BootSet /\ boot'.step = "dispatcher" /\ boot'.timeline = boot.timeline
        /\ boot'.reader = boot.reader /\ boot'.sems = boot.sems
        /\ boot'.frames = boot.frames
        /\ boot.frames => boot'.channels = boot.channels
        /\ ~boot.frames => boot'.channels = "default"
    BY <1>8 DEF BPlayer, BootType, BootSet
  <2>2. Nothing \/ All
    BY <1>8, Zenon DEF BPlayer, Stages
  <2>3. All' \/ (Nothing' /\ boot'.channels = "default")
    BY <2>1, <2>2, Zenon DEF All, Nothing
  <2> QED
    BY <1>2, <2>1, <2>3 DEF BootType, Stages
<1>9. CASE BDispatcher \/ BReceiver
  <2>1. /\ boot' \in BootSet /\ boot'.step \in {"bluetooth", "done"}
        /\ boot'.timeline = boot.timeline
        /\ boot'.reader = boot.reader /\ boot'.sems = boot.sems
        /\ boot'.frames = boot.frames /\ boot'.channels = boot.channels
    BY <1>9 DEF BDispatcher, BReceiver, BootType, BootSet
  <2>2. All \/ (Nothing /\ boot.channels = "default")
    BY <1>9, Zenon DEF BDispatcher, BReceiver, Stages
  <2>3. All' \/ (Nothing' /\ boot'.channels = "default")
    BY <2>1, <2>2, Zenon DEF All, Nothing
  <2> QED
    BY <1>2, <2>1, <2>3 DEF BootType, Stages
<1> QED
  BY <1>3, <1>5, <1>6, <1>7, <1>8, <1>9, Zenon DEF BootStep

LEMMA StepRestart == Inv /\ Restart /\ heard' = heard => Inv'
<1> SUFFICES ASSUME Inv, Restart, heard' = heard PROVE Inv'
  OBVIOUS
<1>1. stored' \in [Files -> Seq(Chunk)]
  <2>1. \A f \in Files : stored[f] # <<>> => Front(stored[f]) \in Seq(Chunk)
    BY DEF Inv, Typed, Front
  <2> QED
    BY <2>1 DEF Inv, Typed, Restart
<1>2. Idle \in TaskType /\ Idle.pc = "idle"
  BY DEF Idle, TaskType, Points, Files
<1>3. Typed'
  BY <1>1, <1>2 DEF Inv, Typed, Restart, Fresh
<1>4. boot' = PowerOn
  BY DEF Restart
<1> QED
  BY <1>3, <1>4, PowerOnStage DEF Inv

-----------------------------------------------------------------------------
(* Apart from boot's own steps, only restarts change what boot set up. *)
LEMMA StepOther ==
  ASSUME BootType, Stages, Typed', boot' = boot
  PROVE  Inv'
BY DEF Inv, BootType, Stages, Nothing, All

(* The steps that leave the files alone, and give a task the values of its type *)
LEMMA TaskStep ==
  ASSUME Inv, NEW t \in Updaters, NEW new \in TaskType, task' = [task EXCEPT ![t] = new],
         new.pc \in {"open", "recv", "write"} => new.left \in 1 .. Chunks,
         stored' \in [Files -> Seq(Chunk)], event_group' \in Updaters \cup {NoTask},
         heard' = heard, boot' = boot
  PROVE  Inv'
<1>1. Typed'
  BY DEF Inv, Typed
<1> QED
  BY <1>1, StepOther DEF Inv

LEMMA StepHear ==
  ASSUME Inv, NEW msg, Hear(msg)
  PROVE  Inv'
BY StepOther DEF Inv, Typed, Hear, wifiVars

LEMMA StepSysCmd == Inv /\ SysCmd => Inv'
<1> SUFFICES ASSUME Inv, SysCmd PROVE Inv'
  OBVIOUS
<1>1. CASE MRestart
  BY <1>1, StepRestart DEF MRestart, boundVars
<1>2. CASE MSuccess
  BY <1>2, StepOther DEF Inv, Typed, MSuccess, wifiVars, boundVars
<1>3. CASE MReceive
  <2>1. stored' = stored /\ boot' = boot /\ event_group' = event_group /\ heard' = heard
    BY <1>3, Zenon DEF MReceive, wifiVars, boundVars
  <2>2. CASE task' = task
    BY <2>1, <2>2, StepOther DEF Inv, Typed
  <2>3. ASSUME NEW t \in Updaters, task' = [task EXCEPT ![t] = [Idle EXCEPT !.pc = "begin", !.show = heard]]
        PROVE  Inv'
    <3>1. [Idle EXCEPT !.pc = "begin", !.show = heard] \in TaskType
      BY DEF Idle, TaskType, Points, Files, Inv, Typed
    <3>2. [Idle EXCEPT !.pc = "begin", !.show = heard].pc = "begin"
      BY DEF Idle
    <3> QED
      BY <2>1, <2>3, <3>1, <3>2, TaskStep DEF Inv, Typed
  <2>4. task' = task \/ \E t \in Updaters : task' = [task EXCEPT ![t] = [Idle EXCEPT !.pc = "begin", !.show = heard]]
    <3>1. CASE StartUpdate
      <4>1. CASE Active # Updaters
        <5>1. \E t \in Updaters \ Active : TRUE
          BY <4>1 DEF Active
        <5>2. (CHOOSE t \in Updaters \ Active : TRUE) \in Updaters
          BY <5>1
        <5> QED
          BY <3>1, <5>2 DEF StartUpdate
      <4> QED
        BY <3>1, <4>1 DEF StartUpdate
    <3> QED
      BY <1>3, <3>1, Zenon DEF MReceive
  <2> QED
    BY <2>2, <2>3, <2>4
<1> QED
  BY <1>1, <1>2, <1>3 DEF SysCmd

LEMMA StepWifi == Inv /\ (WifiJoined \/ WifiFails \/ WifiDrops) => Inv'
<1>1. WifiJoined \/ WifiFails \/ WifiDrops =>
        UNCHANGED <<stored, boot, task, event_group, heard>>
  BY Zenon DEF WifiJoined, WifiFails, WifiDrops, WifiDropped, UpdateFault, commandVars,
     boundVars
<1> QED
  BY <1>1, StepOther DEF Inv, Typed

-----------------------------------------------------------------------------
(* The update task *)
LEMMA TaskTypes ==
  ASSUME Inv, NEW t \in Updaters
  PROVE  /\ task[t] \in TaskType /\ [Idle EXCEPT !.pc = "notify"] \in TaskType
         /\ [Idle EXCEPT !.pc = "notify"].pc = "notify" /\ Idle \in TaskType
         /\ Idle.pc = "idle"
BY DEF Inv, Typed, TaskType, Idle, Points, Files

LEMMA GiveUpStep ==
  ASSUME Inv, NEW t \in Updaters, GiveUp(t), stored' \in [Files -> Seq(Chunk)],
         event_group' = event_group, heard' = heard, boot' = boot
  PROVE  Inv'
BY TaskStep, TaskTypes DEF GiveUp, Inv, Typed

LEMMA OnwardStep ==
  ASSUME Inv, NEW t \in Updaters, Onward(t), stored' = stored,
         event_group' = event_group, heard' = heard, boot' = boot
  PROVE  Inv'
<1>1. CASE task[t].ok /\ task[t].file = "control"
  <2> DEFINE new == [task[t] EXCEPT !.pc = "size", !.file = "frame", !.ok = FALSE]
  <2>1. task' = [task EXCEPT ![t] = new]
    BY <1>1 DEF Onward, Inv, Typed
  <2>2. new \in TaskType /\ new.pc = "size"
    BY TaskTypes DEF TaskType, Points, Files
  <2> QED
    BY <2>1, <2>2, TaskStep DEF Inv, Typed
<1>2. CASE ~(task[t].ok /\ task[t].file = "control")
  BY <1>2, GiveUpStep DEF Onward, Inv, Typed
<1> QED
  BY <1>1, <1>2

LEMMA WrittenStep ==
  ASSUME Inv, NEW t \in Updaters, task[t].pc = "write", Written(t),
         stored' \in [Files -> Seq(Chunk)], event_group' = event_group, heard' = heard,
         boot' = boot
  PROVE  Inv'
<1> DEFINE new == [task[t] EXCEPT !.pc = IF task[t].left = 1 THEN "close" ELSE "recv",
                                  !.left = @ - 1, !.ok = task[t].left = 1]
<1>1. task[t] \in TaskType /\ task[t].left \in 1 .. Chunks
  BY TaskTypes DEF Inv, Typed
<1>2. task' = [task EXCEPT ![t] = new]
  BY DEF Written, Inv, Typed
<1>3. new \in TaskType /\ new.left = task[t].left - 1
      /\ new.pc = IF task[t].left = 1 THEN "close" ELSE "recv"
  <2>1. PICK ok \in BOOLEAN : ok = (task[t].left = 1)
    OBVIOUS
  <2>2. PICK to \in Points : to = IF task[t].left = 1 THEN "close" ELSE "recv"
    BY DEF Points
  <2>3. PICK left \in Nat : left = task[t].left - 1
    BY <1>1
  <2>4. new = [task[t] EXCEPT !.pc = to, !.left = left, !.ok = ok]
    BY <2>1, <2>2, <2>3
  <2> QED
    BY <1>1, <2>2, <2>3, <2>4 DEF TaskType
<1>4. new.pc \in {"open", "recv", "write"} => new.left \in 1 .. Chunks
  BY <1>1, <1>3
<1> QED
  BY <1>2, <1>3, <1>4, TaskStep DEF Inv, Typed

LEMMA RefusedStep ==
  ASSUME Inv, NEW t \in Updaters, Refused(t), stored' = stored,
         event_group' = event_group, heard' = heard, boot' = boot
  PROVE  Inv'
<1> DEFINE new == [task[t] EXCEPT !.pc = "close", !.left = 0]
<1>1. task' = [task EXCEPT ![t] = new]
  BY DEF Refused, Inv, Typed
<1>2. new \in TaskType /\ new.pc = "close"
  BY TaskTypes DEF TaskType, Points
<1> QED
  BY <1>1, <1>2, TaskStep DEF Inv, Typed

(* A step from one control point to another *)
LEMMA GotoStep ==
  ASSUME Inv, NEW t \in Updaters, NEW from \in Points, NEW to \in Points, Goto(t, from, to),
         to \in {"open", "recv", "write"} => from \in {"open", "recv", "write"},
         stored' \in [Files -> Seq(Chunk)],
         event_group' \in Updaters \cup {NoTask}, heard' = heard, boot' = boot
  PROVE  Inv'
<1> DEFINE new == [task[t] EXCEPT !.pc = to]
<1>1. task' = [task EXCEPT ![t] = new] /\ task[t].pc = from
  BY DEF Goto, Inv, Typed
<1>2. new \in TaskType /\ new.pc = to /\ new.left = task[t].left
  BY TaskTypes DEF TaskType, Points
<1>3. to \in {"open", "recv", "write"} => new.left \in 1 .. Chunks
  BY <1>1, <1>2 DEF Inv, Typed
<1> HIDE DEF new
<1> QED
  BY <1>1, <1>2, <1>3, TaskStep

-----------------------------------------------------------------------------
LEMMA StepUpdate ==
  ASSUME Inv, NEW t \in Updaters, Update(t)
  PROVE  Inv'
<1> USE DEF commandVars, wifiVars, writerVars, boundVars, UpdateFault
<1>0. /\ stored \in [Files -> Seq(Chunk)] /\ event_group \in Updaters \cup {NoTask}
      /\ Points = {"idle", "begin", "start", "wait", "size", "open", "recv", "write", "close",
                   "unset", "notify"}
  BY DEF Inv, Typed, Points
<1>1. CASE TBegin(t)
  BY <1>0, <1>1, GotoStep DEF TBegin
<1>2. CASE TStart(t)
  <2> DEFINE new == [task[t] EXCEPT !.pc = "wait", !.group = event_group]
  <2>1. task' = [task EXCEPT ![t] = new]
    BY <1>2 DEF TStart, Inv, Typed
  <2>2. new \in TaskType /\ new.pc = "wait"
    BY <1>0, TaskTypes DEF TaskType
  <2> HIDE DEF new
  <2> QED
    BY <1>0, <1>2, <2>1, <2>2, TaskStep DEF TStart
<1>3. CASE TWait(t)
  <2>1. UNCHANGED <<stored, boot, event_group, heard>>
    BY <1>3, Zenon DEF TWait, Identify
  <2>2. ASSUME NEW show \in Nat \cup {Foreign}, Leave(t, show)
        PROVE  Inv'
    <3> DEFINE new == [task[t] EXCEPT !.pc = "size", !.group = NoTask, !.show = show]
    <3>1. task' = [task EXCEPT ![t] = new]
      BY <2>2 DEF Leave, Inv, Typed
    <3>2. new \in TaskType /\ new.pc = "size"
      BY <1>0, TaskTypes DEF TaskType
    <3> HIDE DEF new
    <3> QED
      BY <1>0, <2>1, <3>1, <3>2, TaskStep
  <2>3. task[t].show \in Nat \cup {Foreign}
    BY TaskTypes DEF TaskType
  <2>4. Identify(t) => Leave(t, task[t].show) \/ Leave(t, Foreign)
    BY Zenon DEF Identify
  <2>5. Identify(t) \/ GiveUp(t)
    BY <1>3, Zenon DEF TWait
  <2> QED
    BY <1>0, <2>1, <2>2, <2>3, <2>4, <2>5, GiveUpStep
<1>4. CASE TSize(t)
  <2>1. UNCHANGED <<stored, boot, event_group, heard>>
    BY <1>4, Zenon DEF TSize
  <2>2. ASSUME NEW to \in {"recv", "open"}, 
               task' = [task EXCEPT ![t].pc = to, ![t].left = Chunks]
        PROVE  Inv'
    <3> DEFINE new == [task[t] EXCEPT !.pc = to, !.left = Chunks]
    <3>1. task' = [task EXCEPT ![t] = new]
      BY <2>2 DEF Inv, Typed
    <3>2. new \in TaskType /\ new.left = Chunks
      BY <1>0, TaskTypes DEF TaskType
    <3>3. Chunks \in 1 .. Chunks
      OBVIOUS
    <3> HIDE DEF new
    <3> QED
      BY <1>0, <2>1, <3>1, <3>2, <3>3, TaskStep
  <2>3. GiveUp(t) \/ \E to \in {"recv", "open"} :
          task' = [task EXCEPT ![t].pc = to, ![t].left = Chunks]
    BY <1>4 DEF TSize
  <2> QED
    BY <1>0, <2>1, <2>2, <2>3, GiveUpStep
<1>5. CASE TOpen(t)
  <2>1. UNCHANGED <<boot, event_group, heard>>
    BY <1>5, Zenon DEF TOpen
  <2>2. stored' = stored \/ stored' = [stored EXCEPT ![task[t].file] = <<>>]
    BY <1>5, Zenon DEF TOpen
  <2>3. stored' \in [Files -> Seq(Chunk)]
    <3>1. <<>> \in Seq(Chunk)
      OBVIOUS
    <3> QED
      BY <1>0, <2>2, <3>1
  <2>4. Goto(t, "open", "recv") \/ GiveUp(t)
    BY <1>5, Zenon DEF TOpen
  <2> QED
    BY <1>0, <2>1, <2>3, <2>4, GotoStep, GiveUpStep
<1>6. CASE TRecv(t)
  <2>1. UNCHANGED <<stored, boot, event_group, heard>>
    BY <1>6, Zenon DEF TRecv
  <2>2. Refused(t) \/ Goto(t, "recv", "write")
    BY <1>6, Zenon DEF TRecv
  <2> QED
    BY <1>0, <2>1, <2>2, GotoStep, RefusedStep
<1>7. CASE TWrite(t)
  <2>1. task[t].pc = "write" /\ heard' = heard
    BY <1>7, Zenon DEF TWrite
  <2>2. CASE Restart
    BY <2>1, <2>2, StepRestart
  <2>3. CASE UNCHANGED <<stored, boot, event_group>> /\ (Written(t) \/ Refused(t))
    BY <1>0, <2>1, <2>3, WrittenStep, RefusedStep
  <2>4. CASE /\ file \in Files /\ Written(t) /\ UNCHANGED <<boot, event_group>>
             /\ stored' = [stored EXCEPT ![file] =
                  Append(@, Content(task[t].file, task[t].show)[Chunks - task[t].left + 1])]
    <3>1. /\ task[t].file \in Files /\ task[t].show \in Nat \cup {Foreign}
          /\ task[t].left \in 1 .. Chunks
      BY <2>1, TaskTypes DEF TaskType, Inv, Typed
    <3>2. PICK i \in 1 .. Chunks : i = Chunks - task[t].left + 1
      BY <3>1
    <3>3. Content(task[t].file, task[t].show)[i] \in Chunk
      BY <3>1, ContentType
    <3>4. PICK c \in Chunk : stored' = [stored EXCEPT ![file] = Append(@, c)]
      BY <2>4, <3>2, <3>3
    <3>5. stored' \in [Files -> Seq(Chunk)]
      BY <1>0, <2>4, <3>4
    <3> QED
      BY <2>1, <2>4, <3>5, WrittenStep
  <2> QED
    BY <1>7, <2>2, <2>3, <2>4, Zenon DEF TWrite
<1>8. CASE TClose(t)
  <2>1. heard' = heard
    BY <1>8, Zenon DEF TClose
  <2>2. CASE Restart
    BY <2>1, <2>2, StepRestart
  <2>3. CASE Onward(t) /\ UNCHANGED <<stored, boot, event_group>>
    BY <2>1, <2>3, OnwardStep
  <2>4. CASE /\ Goto(t, "close", "unset") /\ UNCHANGED <<boot, event_group>>
             /\ \/ stored' = stored
                \/ /\ file \in Files /\ stored[file] # <<>>
                   /\ stored' = [stored EXCEPT ![file] = Front(@)]
    <3>1. \A f \in Files : stored[f] # <<>> => Front(stored[f]) \in Seq(Chunk)
      BY <1>0 DEF Front
    <3>2. stored' \in [Files -> Seq(Chunk)]
      BY <1>0, <2>4, <3>1
    <3> QED
      BY <1>0, <2>1, <2>4, <3>2, GotoStep
  <2> QED
    BY <1>8, <2>2, <2>3, <2>4, Zenon DEF TClose
<1>9. CASE TUnset(t)
  <2>1. Onward(t) /\ UNCHANGED <<stored, boot, event_group, heard>>
    BY <1>9, Zenon DEF TUnset
  <2> QED
    BY <2>1, OnwardStep
<1>10. CASE TNotify(t)
  <2>1. /\ task' = [task EXCEPT ![t] = Idle]
        /\ UNCHANGED <<stored, boot, event_group, heard>>
    BY <1>10, Zenon DEF TNotify
  <2> QED
    BY <1>0, <2>1, TaskTypes, TaskStep
<1> QED
  BY <1>1, <1>2, <1>3, <1>4, <1>5, <1>6, <1>7, <1>8, <1>9, <1>10, Zenon DEF Update

LEMMA InvStep == Inv /\ [Next]_vars => Inv'
<1>1. Inv /\ PowerLoss => Inv'
  BY StepRestart DEF PowerLoss, UpdateFault
<1>2. Inv /\ UNCHANGED vars => Inv'
  <2>1. UNCHANGED vars => UNCHANGED <<stored, boot, task, event_group, heard>>
    BY Zenon DEF vars, updateVars, wifiVars
  <2> QED
    BY <2>1, StepOther DEF Inv, Typed
<1> QED
  BY <1>1, <1>2, StepBoot, StepSysCmd, StepWifi, StepUpdate, StepHear, Zenon DEF Next

(* However updates, restarts and losses of power have left the two files, boot ends with
   the whole frame system or with nothing of it (readframe.c:174-240, control_reader.c:42-193,
   main.cpp:325-340). *)
THEOREM FramesOrDefaultsAlways == Spec => []FramesOrDefaults
<1>1. Spec => []Inv
  BY InvInit, InvStep, PTL DEF Spec
<1>2. Inv => FramesOrDefaults
  BY Zenon DEF Inv, Stages, Booted, Nothing, All, FramesOrDefaults
<1> QED
  BY <1>1, <1>2, PTL

-----------------------------------------------------------------------------
(***************************************************************************)
(* The files and the order of an update.  Alone: since the last restart no *)
(* two updates have run, or the second would have begun after the first    *)
(* had shut the receiver down.                                             *)
(***************************************************************************)
Alone == "second" \notin mishaps
Msgs  == {"UPLOAD", "UPLOAD_SUCCESS", "RESET"}
QueueType == sys_cmd_queue \in Seq(Msgs)
Asked(msg) == \E i \in DOMAIN sys_cmd_queue : sys_cmd_queue[i] = msg

OnlyBooted ==     \* nothing hears or updates before boot is over
  ~Booted => Active = {} /\ ~bluetooth /\ sys_cmd_queue = <<>> /\ mpc = "receive"

(* A restart is on its way: the update has ended, and no other can begin alone. *)
Over == Active = {} /\ ~bluetooth

Order ==
  Alone =>
    /\ \A t, u \in Active : t = u
    /\ \A t \in Active : task[t].pc # "begin" => ~bluetooth
    /\ Asked("UPLOAD_SUCCESS") \/ mpc = "success" => Over
    /\ (Asked("RESET") \/ mpc = "restart") /\ "reset" \notin mishaps => Over

Free == ~file_opened /\ file = "null"

Prefix(f, show, n) == [i \in 1 .. n |-> [file |-> f, show |-> show, part |-> i]]
Received(t) ==
  stored[task[t].file] = Prefix(task[t].file, task[t].show, Chunks - task[t].left)

(* How far an update has come that runs alone: what it has written of its file *)
Progress(t) ==
  /\ task[t].pc \in {"begin", "start", "wait"} => task[t].file = "control"
  /\ task[t].pc \in {"begin", "start", "wait", "size", "open", "notify"} =>
       ~task[t].ok /\ Free
  /\ task[t].pc = "open" => task[t].left = Chunks
  /\ task[t].pc \in {"recv", "write"} =>
       ~task[t].ok /\ file_opened /\ file = task[t].file /\ Received(t)
  /\ task[t].pc = "close" =>
       /\ file_opened /\ file = task[t].file
       /\ task[t].ok => Received(t) /\ task[t].left = 0
  /\ task[t].pc = "unset" =>
       /\ file_opened /\ file = "closed"
       /\ task[t].ok /\ "flush" \notin mishaps => Received(t) /\ task[t].left = 0
  /\ "identity" \notin mishaps => task[t].show \in 0 .. MaxHeard
  /\ task[t].file = "frame" /\ "flush" \notin mishaps =>
       stored["control"] = Content("control", task[t].show)

Sole == Alone => (Active = {} => Free) /\ \A t \in Active : Progress(t)

Whole == (file \in Files => spoilt) /\ SuccessIsWhole /\ heard <= MaxHeard

(* What boot has loaded, from files that nothing had spoilt *)
Loaded ==
  /\ boot.step \in {"nvs", "control"} /\ "boot" \notin mishaps => boot.storage
  /\ boot.step \in {"storage", "nvs", "control"} => ~boot.whole
  /\ boot.whole /\ "boot" \notin mishaps =>
       /\ boot.timeline \in 0 .. MaxHeard
       /\ boot.step \in {"frame", "task"} => stored = Show(boot.timeline)
       /\ boot.step # "frame" => boot.reader = boot.timeline
       /\ boot.step \notin {"frame", "task"} => boot.frames

UInv == QueueType /\ OnlyBooted /\ Order /\ Sole /\ Whole /\ Loaded

-----------------------------------------------------------------------------
LEMMA UInvInit == Init => UInv
<1> SUFFICES ASSUME Init PROVE UInv
  OBVIOUS
<1> USE DEF Init, BootInit, Fresh
<1>1. Active = {} /\ boot.step = "storage" /\ ~boot.whole
  BY DEF Active, Idle, PowerOn
<1>2. OnlyBooted /\ Order
  BY <1>1 DEF OnlyBooted, Order, Booted, Asked
<1>5. QueueType
  BY DEF QueueType
<1>3. Sole /\ Loaded
  BY <1>1 DEF Sole, Free, Loaded
<1>4. Whole
  BY DEF Whole, SuccessIsWhole, Files
<1> QED
  BY <1>2, <1>3, <1>4, <1>5 DEF UInv

(* A restart while a file is open may lose a chunk of it, but that file is spoilt. *)
LEMMA RestartUpdates ==
  ASSUME Inv, UInv, Restart, heard' = heard
  PROVE  UInv'
<1>1. Active' = {} /\ boot'.step = "storage" /\ ~boot'.whole
  BY DEF Restart, Fresh, Active, Idle, PowerOn
<1>2. OnlyBooted' /\ Order'
  BY <1>1 DEF OnlyBooted, Order, Booted, Asked, Restart, Fresh
<1>6. QueueType'
  BY DEF QueueType, Restart, Fresh
<1>3. Sole' /\ Loaded'
  BY <1>1 DEF Sole, Free, Loaded, Restart
<1>4. file \notin Files => stored' = stored
  BY DEF Restart
<1>5. Whole'
  BY <1>4 DEF Whole, SuccessIsWhole, Files, Restart, UInv
<1> QED
  BY <1>2, <1>3, <1>5, <1>6 DEF UInv

-----------------------------------------------------------------------------
(* Boot *)
LEMMA AcceptedWhole ==
  ASSUME NEW show \in 0 .. MaxHeard, stored = Show(show)
  PROVE  /\ stored["control"] = Content("control", show) /\ Accepted(show)
         /\ DOMAIN stored["control"] # {} /\ HasHeader /\ Head(stored["frame"]).show = show
         /\ \A i \in DOMAIN stored["control"] : stored["control"][i].show = show
<1>1. stored["control"] = Content("control", show) /\ stored["frame"] = Content("frame", show)
  BY DEF Show, Files
<1>2. show \in Nat
  OBVIOUS
<1>3. /\ Content("control", show) \in Seq(Chunk) /\ Content("frame", show) \in Seq(Chunk)
      /\ Content("frame", show) # <<>>
  BY <1>2, ContentType DEF Files
<1>4. DOMAIN stored["control"] = 1 .. Chunks /\ Len(stored["control"]) = Chunks
  BY <1>1, <1>3 DEF Content
<1>5. \A i \in 1 .. Chunks : stored["control"][i].show = show
  BY <1>1 DEF Content
<1>6. SubSeq(stored["control"], 1, Chunks) = Content("control", show)
  BY <1>1, <1>3, <1>4
<1>7. Head(stored["frame"]) = [file |-> "frame", show |-> show, part |-> 1]
  BY <1>1, <1>3 DEF Content
<1> QED
  BY <1>1, <1>3, <1>4, <1>5, <1>6, <1>7 DEF Accepted, HasHeader

LEMMA AloneKept == mishaps \subseteq mishaps' /\ Alone' => Alone
BY DEF Alone

LEMMA BootUpdates ==
  ASSUME Inv, UInv, BootStep, UNCHANGED updateVars
  PROVE  UInv'
<1> USE DEF At, BootFault, NoFault, Fault
<1>0. /\ ~Booted /\ boot \in BootSet /\ Stages
      /\ mishaps \subseteq mishaps' /\ UNCHANGED <<sys_cmd_queue, mpc, file, file_opened, task, heard>>
  <2>1. UNCHANGED <<sys_cmd_queue, mpc, file, file_opened, task, heard>>
    BY Zenon DEF updateVars, writerVars
  <2>2. boot.step \in {"storage", "nvs", "control", "frame", "task", "player", "dispatcher",
                       "bluetooth"}
    BY Zenon DEF BootStep, BStorage, BNvs, BControl, BFrame, BTask, BPlayer, BDispatcher,
       BReceiver
  <2>3. \/ mishaps' = mishaps \/ mishaps' = mishaps \cup {"boot"}
        \/ mishaps' = mishaps \cup {"boot", "deaf"}
    BY Zenon DEF BootStep, BStorage, BNvs, BControl, BFrame, BTask, BPlayer, BDispatcher,
       BReceiver
  <2> QED
    BY <2>1, <2>2, <2>3 DEF Inv, BootType, Booted
<1>1. Active = {} /\ Active' = {} /\ ~bluetooth /\ sys_cmd_queue = <<>> /\ mpc = "receive"
  BY <1>0 DEF UInv, OnlyBooted, Active
<1>2. OnlyBooted'
  <2>1. bluetooth' = bluetooth \/ boot' = [boot EXCEPT !.step = "done"]
    BY Zenon DEF BootStep, BStorage, BNvs, BControl, BFrame, BTask, BPlayer, BDispatcher,
       BReceiver
  <2> QED
    BY <1>0, <1>1, <2>1 DEF OnlyBooted, Booted, BootSet
<1>3. Order'
  BY <1>0, <1>1 DEF Order, Asked
<1>4. Sole'
  BY <1>0, <1>1, AloneKept DEF Sole, UInv, Free
<1>5. Whole' /\ (spoilt' \/ (spoilt' = spoilt /\ stored' = stored))
  <2>1. spoilt' \/ (spoilt' = spoilt /\ stored' = stored)
    BY Zenon DEF BootStep, BStorage, BNvs, BControl, BFrame, BTask, BPlayer, BDispatcher, BReceiver
  <2> QED
    BY <1>0, <2>1 DEF Whole, SuccessIsWhole, UInv
<1>6. Loaded'
  <2> USE DEF BootSet
  <2>0. Loaded
    BY DEF UInv
  <2>1. CASE BStorage \/ BNvs
    <3>1. boot'.step \in {"nvs", "control"} /\ boot'.whole = boot.whole /\ ~boot.whole
          /\ ("boot" \notin mishaps' => boot'.storage)
      BY <1>0, <2>0, <2>1 DEF BStorage, BNvs, Loaded
    <3> QED
      BY <3>1 DEF Loaded
  <2>2. CASE BControl
    <3> DEFINE shows == {stored["control"][i].show : i \in DOMAIN stored["control"]}
    <3>0. PICK whole \in BOOLEAN : whole = (~spoilt)
      OBVIOUS
    <3>1. \/ /\ "boot" \in mishaps' \/ ~boot.storage \/ \A show \in shows : ~Accepted(show)
             /\ boot' = [boot EXCEPT !.step = "player", !.whole = whole]
          \/ \E show \in shows : boot' = [boot EXCEPT !.step = "frame", !.timeline = show,
                                           !.channels = "show", !.whole = whole]
      <4>1. CASE boot.storage /\ NoFault /\ \E show \in shows :
                   boot' = [boot EXCEPT !.step = "frame", !.timeline = show,
                                        !.channels = "show", !.whole = ~spoilt]
        BY <3>0, <4>1, Zenon
      <4>2. CASE /\ boot' = [boot EXCEPT !.step = "player", !.whole = ~spoilt]
                 /\ \/ ~boot.storage \/ BootFault
                    \/ \A i \in DOMAIN stored["control"] : ~Accepted(stored["control"][i].show)
        BY <3>0, <4>2, Zenon
      <4> QED
        BY <2>2, <4>1, <4>2, Zenon DEF BControl
    <3>2. boot'.whole = whole /\ boot'.step \in {"frame", "player"} /\ stored' = stored
      <4>1. stored' = stored
        BY <2>2, Zenon DEF BControl
      <4>2. CASE boot' = [boot EXCEPT !.step = "player", !.whole = whole]
        BY <1>0, <4>1, <4>2
      <4>3. ASSUME NEW show \in shows,
                   boot' = [boot EXCEPT !.step = "frame", !.timeline = show,
                                        !.channels = "show", !.whole = whole]
            PROVE  boot'.whole = whole /\ boot'.step = "frame"
        BY <1>0, <4>3
      <4> HIDE DEF shows
      <4> QED
        BY <3>1, <4>1, <4>2, <4>3, Zenon
    <3>3. CASE spoilt
      <4>1. ~boot'.whole
        BY <3>0, <3>2, <3>3, Zenon
      <4> QED
        BY <3>2, <4>1 DEF Loaded
    <3>4. CASE ~spoilt /\ "boot" \notin mishaps'
      <4>1. PICK show \in 0 .. MaxHeard : stored = Show(show)
        BY <3>4 DEF UInv, Whole, SuccessIsWhole
      <4>2. boot.storage
        <5>1. boot.step = "control" /\ "boot" \notin mishaps
          BY <1>0, <2>2, <3>4, Zenon DEF BControl
        <5> QED
          BY <2>0, <5>1 DEF Loaded
      <4>3. (\A other \in shows : other = show) /\ \E other \in shows : Accepted(other)
        BY <4>1, AcceptedWhole
      <4> HIDE DEF shows
      <4>4. boot' = [boot EXCEPT !.step = "frame", !.timeline = show, !.channels = "show",
                                 !.whole = whole]
        BY <3>1, <3>4, <4>2, <4>3, Zenon
      <4>5. boot'.step = "frame" /\ boot'.timeline = show
        BY <1>0, <4>4
      <4> QED
        BY <3>2, <4>1, <4>5 DEF Loaded
    <3>5. CASE "boot" \in mishaps'
      BY <3>2, <3>5 DEF Loaded
    <3> QED
      BY <3>3, <3>4, <3>5
  <2>3. CASE BFrame
    <3>1. stored' = stored /\ boot'.whole = boot.whole /\ boot.step = "frame"
          /\ boot'.step \in {"task", "player"}
      BY <1>0, <2>3 DEF BFrame
    <3>2. CASE boot.whole /\ "boot" \notin mishaps'
      <4>1. boot.timeline \in 0 .. MaxHeard /\ stored = Show(boot.timeline)
        BY <1>0, <2>0, <3>1, <3>2 DEF Loaded
      <4>2. HasHeader /\ Head(stored["frame"]).show = boot.timeline
        BY <4>1, AcceptedWhole
      <4>3. boot' = [boot EXCEPT !.step = "task", !.reader = boot.timeline]
        BY <2>3, <3>2, <4>2 DEF BFrame
      <4>4. boot'.step = "task" /\ boot'.reader = boot.timeline /\ boot'.timeline = boot.timeline
        BY <1>0, <4>3
      <4> QED
        BY <3>1, <4>1, <4>4 DEF Loaded
    <3> QED
      BY <3>1, <3>2 DEF Loaded
  <2>4. CASE BTask
    <3>1. /\ boot'.whole = boot.whole /\ boot.step = "task" /\ boot'.step = "player"
          /\ "boot" \notin mishaps' =>
               boot'.frames /\ boot'.timeline = boot.timeline /\ boot'.reader = boot.reader
      BY <1>0, <2>4 DEF BTask
    <3> QED
      BY <1>0, <2>0, <3>1 DEF Loaded
  <2>5. CASE BPlayer \/ BDispatcher \/ BReceiver
    <3>1. /\ boot'.whole = boot.whole /\ boot.step \in {"player", "dispatcher", "bluetooth"}
          /\ boot'.step \in {"dispatcher", "bluetooth", "done"}
          /\ boot'.frames = boot.frames /\ boot'.timeline = boot.timeline
          /\ boot'.reader = boot.reader
      BY <1>0, <2>5 DEF BPlayer, BDispatcher, BReceiver
    <3> QED
      BY <1>0, <2>0, <3>1 DEF Loaded
  <2> QED
    BY <2>1, <2>2, <2>3, <2>4, <2>5, Zenon DEF BootStep
<1> QED
  BY <1>0, <1>2, <1>3, <1>4, <1>5, <1>6 DEF UInv, QueueType

-----------------------------------------------------------------------------
(* Commands *)

(* Apart from boot, nothing but a restart touches what boot set up, and a step that
   leaves the files and the tasks alone leaves the updates where they were. *)
LEMMA LoadedKept ==
  ASSUME UInv, Booted, boot' = boot, "boot" \notin mishaps' => "boot" \notin mishaps
  PROVE  Loaded' /\ OnlyBooted'
BY DEF UInv, Loaded, OnlyBooted, Booted

LEMMA SoleKept ==
  ASSUME UInv, mishaps \subseteq mishaps', UNCHANGED <<stored, task, file, file_opened>>
  PROVE  Sole'
<1>1. Active' = Active
  BY DEF Active
<1>2. \A t : Progress(t) => Progress(t)'
  <2> TAKE t
  <2>1. (Free <=> Free') /\ (Received(t) <=> Received(t)')
    BY DEF Free, Received
  <2>2. "identity" \notin mishaps' => "identity" \notin mishaps
    OBVIOUS
  <2>3. "flush" \notin mishaps' => "flush" \notin mishaps
    OBVIOUS
  <2> QED
    BY <2>1, <2>2, <2>3 DEF Progress
<1>3. Free <=> Free'
  BY DEF Free
<1>4. Alone' => Alone
  BY AloneKept
<1>5. Sole
  BY DEF UInv
<1> QED
  BY <1>1, <1>2, <1>3, <1>4, <1>5, Zenon DEF Sole

LEMMA WholeKept ==
  ASSUME UInv, UNCHANGED <<stored, file, spoilt>>, heard' <= MaxHeard
  PROVE  Whole'
BY DEF UInv, Whole, SuccessIsWhole

(* A message is in the queue after Send when it was before, or is the one sent. *)
LEMMA SendAsks ==
  ASSUME QueueType, NEW msg \in Msgs, Send(msg)
  PROVE  /\ QueueType'
         /\ \A other \in Msgs : Asked(other)' => Asked(other) \/ other = msg
<1>1. CASE sys_cmd_queue' = sys_cmd_queue
  BY <1>1 DEF QueueType, Asked
<1>2. CASE sys_cmd_queue' = Append(sys_cmd_queue, msg)
  <2>1. QueueType'
    BY <1>2 DEF QueueType
  <2>2. ASSUME NEW other \in Msgs, NEW i \in DOMAIN sys_cmd_queue', sys_cmd_queue'[i] = other
        PROVE  Asked(other) \/ other = msg
    BY <1>2, <2>2 DEF QueueType, Asked
  <2> QED
    BY <2>1, <2>2 DEF Asked
<1> QED
  BY <1>1, <1>2 DEF Send

LEMMA HearUpdates ==
  ASSUME Inv, UInv, NEW msg \in {"UPLOAD", "RESET"}, Hear(msg)
  PROVE  UInv'
<1>1. /\ bluetooth /\ UNCHANGED <<stored, boot, mpc, bluetooth, file, file_opened, task, spoilt>>
      /\ heard' = heard + 1 /\ heard < MaxHeard /\ Send(msg)
  BY Zenon DEF Hear, writerVars
<1>2. mishaps \subseteq mishaps' /\ ("boot" \notin mishaps' => "boot" \notin mishaps)
      /\ (msg = "RESET" => "reset" \in mishaps')
  BY DEF Hear
<1>3. Booted
  BY <1>1 DEF UInv, OnlyBooted
<1>4. \A other \in Msgs : Asked(other)' => Asked(other) \/ other = msg
  BY <1>1, SendAsks DEF UInv, Msgs
<1>5. Order'
  <2>1. Active' = Active
    BY <1>1 DEF Active
  <2> QED
    BY <1>1, <1>2, <1>4, <2>1, AloneKept DEF UInv, Order, Over, Msgs
<1>6. heard' <= MaxHeard
  BY <1>1 DEF Inv, Typed
<1> QED
  BY <1>1, <1>2, <1>3, <1>5, <1>6, SendAsks, LoadedKept, SoleKept, WholeKept DEF UInv, Msgs

LEMMA SysCmdUpdates ==
  ASSUME Inv, UInv, SysCmd
  PROVE  UInv'
<1>1. CASE MRestart
  BY <1>1, RestartUpdates DEF MRestart, boundVars
<1>2. CASE MSuccess
  <2>1. /\ UNCHANGED <<stored, boot, bluetooth, file, file_opened, task, spoilt, mishaps, heard>>
        /\ mpc = "success" /\ mpc' = "receive" /\ Send("RESET")
    BY <1>2, Zenon DEF MSuccess, writerVars, historyVars, boundVars
  <2>2. Booted
    BY <2>1 DEF UInv, OnlyBooted
  <2>3. \A other \in Msgs : Asked(other)' => Asked(other) \/ other = "RESET"
    BY <2>1, SendAsks DEF UInv, Msgs
  <2>4. Active' = Active
    BY <2>1 DEF Active
  <2>5. Order'
    BY <2>1, <2>3, <2>4, AloneKept DEF UInv, Order, Over
  <2>6. heard' <= MaxHeard
    BY <2>1 DEF UInv, Whole
  <2> QED
    BY <2>1, <2>2, <2>5, <2>6, SendAsks, LoadedKept, SoleKept, WholeKept DEF UInv, Msgs
<1>3. CASE MReceive
  <2>1. /\ UNCHANGED <<stored, boot, bluetooth, file, file_opened, spoilt, heard>>
        /\ mpc = "receive" /\ sys_cmd_queue # <<>> /\ sys_cmd_queue' = Tail(sys_cmd_queue)
    BY <1>3, Zenon DEF MReceive, writerVars, boundVars
  <2>2. Booted
    BY <2>1 DEF UInv, OnlyBooted
  <2>3. /\ QueueType'
        /\ \A other \in Msgs : Asked(other)' => Asked(other)
        /\ Asked(Head(sys_cmd_queue))
    BY <2>1 DEF Asked, UInv, QueueType
  <2>4. heard' <= MaxHeard
    BY <2>1 DEF UInv, Whole
  <2>5. CASE UNCHANGED <<task, mishaps>>
    <3>1. Active' = Active
      BY <2>5 DEF Active
    <3>2. \/ mpc' = mpc \/ (mpc' = "restart" /\ Asked("RESET"))
          \/ (mpc' = "success" /\ Asked("UPLOAD_SUCCESS"))
      BY <1>3, <2>3, Zenon DEF MReceive
    <3>3. Order'
      BY <2>1, <2>3, <2>5, <3>1, <3>2, AloneKept DEF UInv, Order, Over, Msgs
    <3> QED
      BY <2>1, <2>2, <2>3, <2>4, <2>5, <3>3, LoadedKept, SoleKept, WholeKept DEF UInv
  <2>6. CASE StartUpdate /\ UNCHANGED mpc /\ ~UNCHANGED <<task, mishaps>>
    <3> DEFINE new == [Idle EXCEPT !.pc = "begin", !.show = heard]
    <3>1. PICK t \in Updaters \ Active : task' = [task EXCEPT ![t] = new]
      <4>1. Active # Updaters /\ Active \subseteq Updaters
        BY <2>6 DEF StartUpdate, Active
      <4>2. (CHOOSE t \in Updaters \ Active : TRUE) \in Updaters \ Active
        BY <4>1
      <4> QED
        BY <2>6, <4>2 DEF StartUpdate
    <3>2. mishaps' = IF Active = {} /\ bluetooth THEN mishaps ELSE mishaps \cup {"second"}
      BY <2>6, Zenon DEF StartUpdate
    <3>3. mishaps \subseteq mishaps' /\ ("boot" \notin mishaps' => "boot" \notin mishaps)
      BY <3>2
    <3>4. Alone' => Active = {} /\ bluetooth /\ mishaps' = mishaps
      BY <3>2 DEF Alone
    <3>5. Active' = Active \cup {t} /\ task'[t] = new
      <4>1. task \in [Updaters -> TaskType]
        BY DEF Inv, Typed
      <4>2. new.pc = "begin"
        BY DEF Idle
      <4>3. task'[t] = new /\ \A u \in Updaters : u # t => task'[u] = task[u]
        BY <3>1, <4>1
      <4> HIDE DEF new
      <4> QED
        BY <4>2, <4>3 DEF Active
    <3>6. Order'
      <4> SUFFICES ASSUME Alone' PROVE Order'
        BY DEF Order
      <4>1. Active = {} /\ bluetooth /\ Alone /\ Active' = {t} /\ mishaps' = mishaps
        BY <3>3, <3>4, <3>5, AloneKept
      <4>2. task'[t].pc = "begin"
        BY <3>5 DEF Idle
      <4>3. ~Over
        BY <4>1 DEF Over
      <4>4. ~Asked("UPLOAD_SUCCESS")' /\ mpc' # "success"
        BY <2>1, <2>3, <2>6, <4>1, <4>3 DEF UInv, Order, Msgs
      <4>5. mpc' # "restart"
        BY <2>1, <2>6
      <4>6. "reset" \notin mishaps' => ~Asked("RESET")'
        BY <2>1, <2>3, <2>6, <4>1, <4>3 DEF UInv, Order, Msgs
      <4> QED
        BY <4>1, <4>2, <4>4, <4>5, <4>6 DEF Order
    <3>7. Sole'
      <4> SUFFICES ASSUME Alone' PROVE Sole'
        BY DEF Sole
      <4>1. Active = {} /\ Alone /\ Active' = {t} /\ mishaps' = mishaps
        BY <3>3, <3>4, <3>5, AloneKept
      <4>2. Free /\ Free'
        BY <2>1, <4>1 DEF UInv, Sole, Free
      <4>3. /\ task'[t].pc = "begin" /\ task'[t].file = "control" /\ ~task'[t].ok
            /\ task'[t].show \in 0 .. MaxHeard
        BY <3>5 DEF Idle, UInv, Whole, Inv, Typed
      <4>4. Progress(t)'
        BY <4>2, <4>3 DEF Progress
      <4> QED
        BY <4>1, <4>4 DEF Sole
    <3> QED
      BY <2>1, <2>2, <2>3, <2>4, <3>3, <3>6, <3>7, LoadedKept, WholeKept DEF UInv
  <2>7. UNCHANGED <<task, mishaps>> \/ (StartUpdate /\ UNCHANGED mpc)
    BY <1>3, Zenon DEF MReceive
  <2> QED
    BY <2>5, <2>6, <2>7
<1> QED
  BY <1>1, <1>2, <1>3 DEF SysCmd

LEMMA WifiUpdates ==
  ASSUME UInv, WifiJoined \/ WifiFails \/ WifiDrops
  PROVE  UInv'
<1>1. UNCHANGED <<stored, boot, sys_cmd_queue, mpc, bluetooth, file, file_opened, task, spoilt,
                  mishaps, heard>>
  BY Zenon DEF WifiJoined, WifiFails, WifiDrops, WifiDropped, UpdateFault, commandVars,
     writerVars, historyVars, boundVars
<1>2. Active' = Active /\ \A msg : Asked(msg)' <=> Asked(msg)
  BY <1>1 DEF Active, Asked
<1>3. Order'
  BY <1>1, <1>2 DEF UInv, Order, Over, Alone
<1>4. OnlyBooted' /\ Loaded'
  BY <1>1, <1>2 DEF UInv, OnlyBooted, Booted, Loaded
<1> QED
  BY <1>1, <1>3, <1>4, SoleKept, WholeKept DEF UInv, Whole, QueueType

-----------------------------------------------------------------------------
(* The update task *)
LEMMA ContentPrefix == \A f, show : Content(f, show) = Prefix(f, show, Chunks)
BY DEF Content, Prefix

(* Appending the next chunk of a file to what has been received of it *)
LEMMA AppendPrefix ==
  ASSUME NEW f, NEW show, NEW n \in 0 .. Chunks - 1
  PROVE  Append(Prefix(f, show, n), Content(f, show)[n + 1]) = Prefix(f, show, n + 1)
<1> DEFINE chunk(i) == [file |-> f, show |-> show, part |-> i]
<1>1. /\ Prefix(f, show, n) = [i \in 1 .. n |-> chunk(i)]
      /\ Prefix(f, show, n + 1) = [i \in 1 .. n + 1 |-> chunk(i)]
      /\ Content(f, show)[n + 1] = chunk(n + 1)
  BY DEF Prefix, Content
<1> HIDE DEF chunk
<1>2. Len([i \in 1 .. n |-> chunk(i)]) = n /\ [i \in 1 .. n |-> chunk(i)] \in Seq({chunk(i) : i \in 1 .. n + 1})
  OBVIOUS
<1>3. Append([i \in 1 .. n |-> chunk(i)], chunk(n + 1)) = [i \in 1 .. n + 1 |-> chunk(i)]
  BY <1>2
<1> QED
  BY <1>1, <1>3

(* A step of update t after which it is still running: what remains to be shown of it
   is how far it has come, if it runs alone. *)
LEMMA TaskUpdates ==
  ASSUME Inv, UInv, NEW t \in Updaters, task[t].pc # "idle", NEW new \in TaskType,
         task' = [task EXCEPT ![t] = new], new.pc \notin {"idle", "begin"},
         UNCHANGED <<boot, mpc, sys_cmd_queue, heard>>,
         mishaps \subseteq mishaps', mishaps' \subseteq mishaps \cup {"flush", "identity"},
         bluetooth' = FALSE \/ (bluetooth' = bluetooth /\ task[t].pc # "begin"),
         file' \in Files => spoilt', SuccessIsWhole',
         Alone /\ Progress(t) => Progress(t)'
  PROVE  UInv'
<1>1. t \in Active /\ Booted
  BY DEF Active, UInv, OnlyBooted
<1>2. task'[t] = new /\ \A u \in Updaters : u # t => task'[u] = task[u]
  BY DEF Inv, Typed
<1>3. Active' = Active
  BY <1>1, <1>2 DEF Active
<1>4. Alone' => Alone
  BY AloneKept
<1>5. Alone' => Active = {t} /\ Progress(t)
  BY <1>1, <1>4 DEF UInv, Order, Sole
<1>6. Order'
  <2> SUFFICES ASSUME Alone' PROVE Order'
    BY DEF Order
  <2>1. Active = {t} /\ Active' = {t} /\ ~Over
    BY <1>3, <1>5 DEF Over
  <2>2. ~bluetooth'
    BY <1>1, <1>4 DEF UInv, Order
  <2>3. /\ ~Asked("UPLOAD_SUCCESS") /\ mpc # "success"
        /\ "reset" \notin mishaps => ~Asked("RESET") /\ mpc # "restart"
    BY <1>4, <2>1 DEF UInv, Order
  <2>4. \A msg : Asked(msg)' <=> Asked(msg)
    BY DEF Asked
  <2>5. "reset" \notin mishaps' => "reset" \notin mishaps
    OBVIOUS
  <2> QED
    BY <2>1, <2>2, <2>3, <2>4, <2>5 DEF Order
<1>7. Sole'
  BY <1>3, <1>4, <1>5 DEF Sole
<1>8. Whole'
  BY DEF UInv, Whole
<1>9. "boot" \notin mishaps' => "boot" \notin mishaps
  OBVIOUS
<1> QED
  BY <1>1, <1>6, <1>7, <1>8, <1>9, LoadedKept DEF UInv, QueueType

(* ... and the steps among them that touch neither the files nor the writer *)
LEMMA QuietUpdates ==
  ASSUME Inv, UInv, NEW t \in Updaters, task[t].pc # "idle", NEW new \in TaskType,
         task' = [task EXCEPT ![t] = new], new.pc \notin {"idle", "begin"},
         UNCHANGED <<boot, mpc, sys_cmd_queue, heard, stored, file, file_opened, spoilt>>,
         mishaps \subseteq mishaps', mishaps' \subseteq mishaps \cup {"flush", "identity"},
         bluetooth' = FALSE \/ (bluetooth' = bluetooth /\ task[t].pc # "begin"),
         Alone /\ Progress(t) => Progress(t)'
  PROVE  UInv'
<1>1. (file' \in Files => spoilt') /\ SuccessIsWhole'
  BY DEF UInv, Whole, SuccessIsWhole
<1> QED
  BY <1>1, TaskUpdates

LEMMA GiveUpUpdates ==
  ASSUME Inv, UInv, NEW t \in Updaters, task[t].pc \in {"wait", "size", "open", "close"},
         GiveUp(t), UNCHANGED <<boot, mpc, sys_cmd_queue, heard, stored, file, file_opened,
                                spoilt, mishaps, bluetooth>>,
         task[t].pc = "close" => ~file_opened
  PROVE  UInv'
<1> DEFINE new == [Idle EXCEPT !.pc = "notify"]
<1>1. new \in TaskType /\ new.pc = "notify" /\ ~new.ok /\ new.file = "control" /\ new.show = 0
  BY DEF TaskType, Idle, Points, Files
<1>2. task' = [task EXCEPT ![t] = new] /\ task'[t] = new
  BY DEF GiveUp, Inv, Typed
<1> HIDE DEF new
<1>3. Alone /\ Progress(t) => Progress(t)'
  <2> SUFFICES ASSUME Progress(t) PROVE Progress(t)'
    OBVIOUS
  <2>1. Free
    BY DEF Progress
  <2>2. Free'
    BY <2>1 DEF Free
  <2> QED
    BY <1>1, <1>2, <2>2 DEF Progress
<1> QED
  BY <1>1, <1>2, <1>3, QuietUpdates

(* The steps before a file is open *)
LEMMA StartsUpdates ==
  ASSUME Inv, UInv, NEW t \in Updaters, TBegin(t) \/ TStart(t) \/ TSize(t)
  PROVE  UInv'
<1> USE DEF commandVars, wifiVars, writerVars, boundVars, historyVars, UpdateFault
<1>0. task[t] \in TaskType /\ task \in [Updaters -> TaskType] /\ event_group \in Updaters \cup {NoTask}
  BY DEF Inv, Typed
<1>1. UNCHANGED <<boot, mpc, sys_cmd_queue, heard, stored, file, file_opened, spoilt, mishaps>>
  BY Zenon DEF TBegin, TStart, TSize
<1>2. CASE TBegin(t)
  <2> DEFINE new == [task[t] EXCEPT !.pc = "start"]
  <2>1. /\ task' = [task EXCEPT ![t] = new] /\ task'[t] = new
        /\ task[t].pc = "begin" /\ bluetooth' = FALSE
    BY <1>0, <1>2 DEF TBegin, Goto
  <2>2. /\ new \in TaskType /\ new.pc = "start" /\ new.ok = task[t].ok
        /\ new.file = task[t].file /\ new.show = task[t].show
    BY <1>0 DEF TaskType, Points
  <2> HIDE DEF new
  <2>3. Progress(t) => Progress(t)'
    BY <1>1, <2>1, <2>2 DEF Progress, Free
  <2> QED
    BY <1>1, <2>1, <2>2, <2>3, QuietUpdates
<1>3. CASE TStart(t)
  <2> DEFINE new == [task[t] EXCEPT !.pc = "wait", !.group = event_group]
  <2>1. /\ task' = [task EXCEPT ![t] = new] /\ task'[t] = new
        /\ task[t].pc = "start" /\ bluetooth' = bluetooth
    BY <1>0, <1>3 DEF TStart
  <2>2. /\ new \in TaskType /\ new.pc = "wait" /\ new.ok = task[t].ok
        /\ new.file = task[t].file /\ new.show = task[t].show
    BY <1>0 DEF TaskType, Points
  <2> HIDE DEF new
  <2>3. Progress(t) => Progress(t)'
    BY <1>1, <2>1, <2>2 DEF Progress, Free
  <2> QED
    BY <1>1, <2>1, <2>2, <2>3, QuietUpdates
<1>4. CASE TSize(t)
  <2>1. task[t].pc = "size" /\ bluetooth' = bluetooth
    BY <1>4, Zenon DEF TSize
  <2>2. ASSUME NEW to \in {"recv", "open"}, to = IF file_opened THEN "recv" ELSE "open",
               task' = [task EXCEPT ![t].pc = to, ![t].left = Chunks]
        PROVE  UInv'
    <3> DEFINE new == [task[t] EXCEPT !.pc = to, !.left = Chunks]
    <3>1. task' = [task EXCEPT ![t] = new] /\ task'[t] = new
      BY <1>0, <2>2
    <3>2. /\ new \in TaskType /\ new.pc = to /\ new.ok = task[t].ok /\ new.left = Chunks
          /\ new.file = task[t].file /\ new.show = task[t].show
      BY <1>0 DEF TaskType, Points
    <3> HIDE DEF new
    <3>3. Progress(t) => Progress(t)'
      <4> SUFFICES ASSUME Progress(t) PROVE Progress(t)'
        OBVIOUS
      <4>1. Free /\ Free' /\ ~file_opened
        BY <1>1, <2>1 DEF Progress, Free
      <4>2. to = "open"
        BY <2>2, <4>1
      <4> QED
        BY <1>1, <2>1, <3>1, <3>2, <4>1, <4>2 DEF Progress
    <3> QED
      BY <1>1, <2>1, <2>2, <3>1, <3>2, <3>3, QuietUpdates
  <2>3. GiveUp(t) \/ task' = [task EXCEPT ![t].pc = IF file_opened THEN "recv" ELSE "open",
                                          ![t].left = Chunks]
    BY <1>4, Zenon DEF TSize
  <2> QED
    BY <1>1, <2>1, <2>2, <2>3, GiveUpUpdates
<1> QED
  BY <1>2, <1>3, <1>4

LEMMA WaitUpdates ==
  ASSUME Inv, UInv, NEW t \in Updaters, TWait(t)
  PROVE  UInv'
<1> USE DEF commandVars, wifiVars, writerVars, boundVars, historyVars, UpdateFault
<1>0. task[t] \in TaskType /\ task \in [Updaters -> TaskType]
  BY DEF Inv, Typed
<1>1. UNCHANGED <<boot, mpc, sys_cmd_queue, heard, stored, file, file_opened, spoilt, bluetooth>>
      /\ task[t].pc = "wait"
  BY Zenon DEF TWait, Identify
<1>2. ASSUME NEW show \in Nat \cup {Foreign}, Leave(t, show),
             \/ show = task[t].show /\ mishaps' = mishaps
             \/ mishaps' = mishaps \cup {"identity"}
      PROVE  UInv'
  <2> DEFINE new == [task[t] EXCEPT !.pc = "size", !.group = NoTask, !.show = show]
  <2>1. task' = [task EXCEPT ![t] = new] /\ task'[t] = new
    BY <1>0, <1>2 DEF Leave
  <2>2. /\ new \in TaskType /\ new.pc = "size" /\ new.ok = task[t].ok
        /\ new.file = task[t].file /\ new.show = show
    BY <1>0 DEF TaskType, Points
  <2> HIDE DEF new
  <2>3. Progress(t) => Progress(t)'
    <3>1. Progress(t) => task[t].file = "control"
      BY <1>1 DEF Progress
    <3>2. "identity" \notin mishaps' => "identity" \notin mishaps /\ show = task[t].show
      BY <1>2
    <3>3. Free <=> Free'
      BY <1>1 DEF Free
    <3> QED
      BY <1>1, <2>1, <2>2, <3>1, <3>2, <3>3 DEF Progress
  <2>4. mishaps \subseteq mishaps' /\ mishaps' \subseteq mishaps \cup {"flush", "identity"}
    BY <1>2
  <2> QED
    BY <1>1, <2>1, <2>2, <2>3, <2>4, QuietUpdates
<1>3. \/ Leave(t, task[t].show) /\ mishaps' = mishaps
      \/ Leave(t, Foreign) /\ mishaps' = mishaps \cup {"identity"}
      \/ GiveUp(t) /\ mishaps' = mishaps
  BY Zenon DEF TWait, Identify
<1>4. task[t].show \in Nat \cup {Foreign}
  BY <1>0 DEF TaskType
<1> QED
  BY <1>1, <1>2, <1>3, <1>4, GiveUpUpdates

(* Opening empties the file, and neither file is whole any more for certain. *)
LEMMA OpenUpdates ==
  ASSUME Inv, UInv, NEW t \in Updaters, TOpen(t)
  PROVE  UInv'
<1> USE DEF commandVars, wifiVars, writerVars, boundVars, historyVars, UpdateFault
<1>0. task[t] \in TaskType /\ task \in [Updaters -> TaskType] /\ stored \in [Files -> Seq(Chunk)]
  BY DEF Inv, Typed
<1>1. UNCHANGED <<boot, mpc, sys_cmd_queue, heard, bluetooth, mishaps>> /\ task[t].pc = "open"
  BY Zenon DEF TOpen, Goto
<1>2. CASE /\ Goto(t, "open", "recv") /\ spoilt' = TRUE
           /\ stored' = [stored EXCEPT ![task[t].file] = <<>>]
           /\ file' = task[t].file /\ file_opened' = TRUE
  <2> DEFINE new == [task[t] EXCEPT !.pc = "recv"]
  <2>1. task' = [task EXCEPT ![t] = new] /\ task'[t] = new
    BY <1>0, <1>2 DEF Goto
  <2>2. /\ new \in TaskType /\ new.pc = "recv" /\ new.ok = task[t].ok /\ new.left = task[t].left
        /\ new.file = task[t].file /\ new.show = task[t].show /\ new.file \in Files
    BY <1>0 DEF TaskType, Points
  <2> HIDE DEF new
  <2>3. Progress(t) => Progress(t)'
    <3> SUFFICES ASSUME Progress(t) PROVE Progress(t)'
      OBVIOUS
    <3>1. stored'[new.file] = <<>> /\ (new.file = "frame" => stored'["control"] = stored["control"])
      BY <1>0, <1>2, <2>2 DEF Files
    <3>2. new.left = Chunks /\ ~new.ok
      BY <1>1, <2>2 DEF Progress
    <3>3. Prefix(new.file, new.show, 0) = <<>>
      BY DEF Prefix
    <3>4. Received(t)'
      BY <2>1, <3>1, <3>2, <3>3 DEF Received
    <3> QED
      BY <1>1, <1>2, <2>1, <2>2, <3>1, <3>2, <3>4 DEF Progress
  <2> QED
    BY <1>1, <1>2, <2>1, <2>2, <2>3, TaskUpdates DEF SuccessIsWhole
<1>3. CASE GiveUp(t) /\ UNCHANGED <<stored, file, file_opened, spoilt>>
  BY <1>1, <1>3, GiveUpUpdates
<1> QED
  BY <1>2, <1>3, Zenon DEF TOpen

LEMMA RefusedUpdates ==
  ASSUME Inv, UInv, NEW t \in Updaters, task[t].pc \in {"recv", "write"}, Refused(t),
         UNCHANGED <<boot, mpc, sys_cmd_queue, heard, stored, file, file_opened, spoilt,
                     mishaps, bluetooth>>
  PROVE  UInv'
<1> DEFINE new == [task[t] EXCEPT !.pc = "close", !.left = 0]
<1>0. task[t] \in TaskType /\ task \in [Updaters -> TaskType]
  BY DEF Inv, Typed
<1>1. task' = [task EXCEPT ![t] = new] /\ task'[t] = new
  BY <1>0 DEF Refused
<1>2. /\ new \in TaskType /\ new.pc = "close" /\ new.ok = task[t].ok
      /\ new.file = task[t].file /\ new.show = task[t].show
  BY <1>0 DEF TaskType, Points
<1> HIDE DEF new
<1>3. Progress(t) => Progress(t)'
  BY <1>1, <1>2 DEF Progress
<1> QED
  BY <1>1, <1>2, <1>3, QuietUpdates

LEMMA RecvUpdates ==
  ASSUME Inv, UInv, NEW t \in Updaters, TRecv(t)
  PROVE  UInv'
<1> USE DEF commandVars, wifiVars, writerVars, boundVars, historyVars, UpdateFault
<1>0. task[t] \in TaskType /\ task \in [Updaters -> TaskType]
  BY DEF Inv, Typed
<1>1. /\ UNCHANGED <<boot, mpc, sys_cmd_queue, heard, stored, file, file_opened, spoilt,
                     mishaps, bluetooth>>
      /\ task[t].pc = "recv" /\ (Refused(t) \/ Goto(t, "recv", "write"))
  BY Zenon DEF TRecv
<1>2. CASE Goto(t, "recv", "write")
  <2> DEFINE new == [task[t] EXCEPT !.pc = "write"]
  <2>1. task' = [task EXCEPT ![t] = new] /\ task'[t] = new
    BY <1>0, <1>2 DEF Goto
  <2>2. /\ new \in TaskType /\ new.pc = "write" /\ new.ok = task[t].ok /\ new.left = task[t].left
        /\ new.file = task[t].file /\ new.show = task[t].show
    BY <1>0 DEF TaskType, Points
  <2> HIDE DEF new
  <2>3. Progress(t) => Progress(t)'
    BY <1>1, <2>1, <2>2 DEF Progress, Received
  <2> QED
    BY <1>1, <2>1, <2>2, <2>3, QuietUpdates
<1> QED
  BY <1>1, <1>2, RefusedUpdates

(* What Written makes of the task *)
LEMMA WrittenTask ==
  ASSUME Inv, NEW t \in Updaters, task[t].pc = "write", Written(t)
  PROVE  \E new \in TaskType :
           /\ task' = [task EXCEPT ![t] = new] /\ task'[t] = new
           /\ new.pc = (IF task[t].left = 1 THEN "close" ELSE "recv")
           /\ new.left = task[t].left - 1 /\ new.ok = (task[t].left = 1)
           /\ new.file = task[t].file /\ new.show = task[t].show
<1>0. task[t] \in TaskType /\ task \in [Updaters -> TaskType] /\ task[t].left \in 1 .. Chunks
  BY DEF Inv, Typed
<1>1. PICK ok \in BOOLEAN : ok = (task[t].left = 1)
  OBVIOUS
<1>2. PICK to \in Points : to = IF task[t].left = 1 THEN "close" ELSE "recv"
  BY DEF Points
<1>3. PICK left \in Nat : left = task[t].left - 1
  BY <1>0
<1> DEFINE new == [task[t] EXCEPT !.pc = to, !.left = left, !.ok = ok]
<1>4. task' = [task EXCEPT ![t] = new] /\ task'[t] = new
  <2>1. task' = [task EXCEPT ![t].pc = to, ![t].left = left, ![t].ok = ok]
    BY <1>0, <1>1, <1>2, <1>3 DEF Written
  <2> QED
    BY <1>0, <2>1
<1>5. /\ new \in TaskType /\ new.pc = to /\ new.left = left /\ new.ok = ok
      /\ new.file = task[t].file /\ new.show = task[t].show
  BY <1>0 DEF TaskType
<1> HIDE DEF new
<1> QED
  BY <1>1, <1>2, <1>3, <1>4, <1>5

LEMMA WriteUpdates ==
  ASSUME Inv, UInv, NEW t \in Updaters, TWrite(t)
  PROVE  UInv'
<1> USE DEF commandVars, wifiVars, writerVars, boundVars, historyVars, UpdateFault
<1>0. /\ task[t] \in TaskType /\ task \in [Updaters -> TaskType] /\ stored \in [Files -> Seq(Chunk)]
      /\ task[t].pc = "write" /\ task[t].left \in 1 .. Chunks /\ heard' = heard
  <2>1. task[t].pc = "write" /\ heard' = heard
    BY Zenon DEF TWrite
  <2> QED
    BY <2>1 DEF Inv, Typed
<1> DEFINE quiet == UNCHANGED <<boot, mpc, sys_cmd_queue, heard, file, file_opened, spoilt,
                                mishaps, bluetooth>>
<1>1. CASE Restart
  BY <1>0, <1>1, RestartUpdates
<1>2. CASE Refused(t) /\ quiet /\ stored' = stored
  BY <1>0, <1>2, RefusedUpdates
<1>3. CASE file \notin Files /\ Written(t) /\ quiet /\ stored' = stored
  <2>1. ~Progress(t)
    BY <1>0, <1>3 DEF Progress, TaskType
  <2>2. PICK new \in TaskType :
          task' = [task EXCEPT ![t] = new] /\ new.pc \in {"close", "recv"}
    BY <1>0, <1>3, WrittenTask
  <2> QED
    BY <1>0, <1>3, <2>1, <2>2, QuietUpdates
<1>4. CASE /\ file \in Files /\ Written(t) /\ quiet
           /\ stored' = [stored EXCEPT ![file] =
                Append(@, Content(task[t].file, task[t].show)[Chunks - task[t].left + 1])]
  <2>1. PICK new \in TaskType :
          /\ task' = [task EXCEPT ![t] = new] /\ task'[t] = new
          /\ new.pc = (IF task[t].left = 1 THEN "close" ELSE "recv")
          /\ new.left = task[t].left - 1 /\ new.ok = (task[t].left = 1)
          /\ new.file = task[t].file /\ new.show = task[t].show
    BY <1>0, <1>4, WrittenTask, Zenon
  <2>2. Progress(t) => Progress(t)'
    <3> SUFFICES ASSUME Progress(t) PROVE Progress(t)'
      OBVIOUS
    <3>1. file = task[t].file /\ file_opened /\ Received(t)
      BY <1>0 DEF Progress
    <3>2. PICK n \in 0 .. Chunks - 1 : n = Chunks - task[t].left
      BY <1>0
    <3>3. stored'[file] = Prefix(task[t].file, task[t].show, n + 1)
      <4>1. stored'[file] =
              Append(stored[file], Content(task[t].file, task[t].show)[Chunks - task[t].left + 1])
        BY <1>0, <1>4
      <4>2. Chunks - task[t].left + 1 = n + 1
        BY <3>2
      <4>3. stored[file] = Prefix(task[t].file, task[t].show, n)
        BY <3>1, <3>2 DEF Received
      <4> QED
        BY <4>1, <4>2, <4>3, AppendPrefix
    <3>4. Received(t)'
      <4>1. Chunks - new.left = n + 1
        BY <1>0, <2>1, <3>2
      <4> QED
        BY <1>4, <2>1, <3>1, <3>3, <4>1 DEF Received
    <3>5. new.file = "frame" => stored'["control"] = stored["control"]
      BY <1>0, <1>4, <2>1, <3>1
    <3>6. CASE task[t].left = 1
      <4>1. new.pc = "close" /\ new.left = 0
        BY <2>1, <3>6
      <4> QED
        BY <1>0, <1>4, <2>1, <3>1, <3>4, <3>5, <4>1 DEF Progress
    <3>7. CASE task[t].left # 1
      <4>1. new.pc = "recv" /\ ~new.ok
        BY <2>1, <3>7
      <4> QED
        BY <1>0, <1>4, <2>1, <3>1, <3>4, <3>5, <4>1 DEF Progress
    <3> QED
      BY <3>6, <3>7
  <2>3. spoilt' /\ SuccessIsWhole'
    BY <1>4 DEF UInv, Whole, SuccessIsWhole
  <2>4. new.pc \notin {"idle", "begin"}
    BY <2>1
  <2> QED
    BY <1>0, <1>4, <2>1, <2>2, <2>3, <2>4, TaskUpdates
<1> QED
  BY <1>1, <1>2, <1>3, <1>4, Zenon DEF TWrite

(* What Onward makes of the task: the second file is next, or nothing. *)
LEMMA OnwardTask ==
  ASSUME Inv, NEW t \in Updaters, Onward(t)
  PROVE  \E new \in TaskType :
           /\ task' = [task EXCEPT ![t] = new] /\ task'[t] = new /\ ~new.ok
           /\ \/ /\ task[t].ok /\ task[t].file = "control"
                 /\ new.pc = "size" /\ new.file = "frame" /\ new.show = task[t].show
              \/ new.pc = "notify" /\ new.file = "control" /\ new.show = 0
<1>0. task[t] \in TaskType /\ task \in [Updaters -> TaskType]
  BY DEF Inv, Typed
<1>1. CASE task[t].ok /\ task[t].file = "control"
  <2> DEFINE new == [task[t] EXCEPT !.pc = "size", !.file = "frame", !.ok = FALSE]
  <2>1. task' = [task EXCEPT ![t] = new] /\ task'[t] = new
    BY <1>0, <1>1 DEF Onward
  <2>2. /\ new \in TaskType /\ new.pc = "size" /\ new.file = "frame" /\ ~new.ok
        /\ new.show = task[t].show
    BY <1>0 DEF TaskType, Points, Files
  <2> HIDE DEF new
  <2> QED
    BY <1>1, <2>1, <2>2
<1>2. CASE ~(task[t].ok /\ task[t].file = "control")
  <2> DEFINE new == [Idle EXCEPT !.pc = "notify"]
  <2>1. task' = [task EXCEPT ![t] = new] /\ task'[t] = new
    BY <1>0, <1>2 DEF Onward, GiveUp
  <2>2. new \in TaskType /\ new.pc = "notify" /\ new.file = "control" /\ ~new.ok /\ new.show = 0
    BY DEF TaskType, Points, Files, Idle
  <2> HIDE DEF new
  <2> QED
    BY <2>1, <2>2
<1> QED
  BY <1>1, <1>2

LEMMA CloseUpdates ==
  ASSUME Inv, UInv, NEW t \in Updaters, TClose(t)
  PROVE  UInv'
<1> USE DEF commandVars, wifiVars, writerVars, boundVars, historyVars, UpdateFault
<1>0. /\ task[t] \in TaskType /\ task \in [Updaters -> TaskType] /\ stored \in [Files -> Seq(Chunk)]
      /\ task[t].pc = "close" /\ heard' = heard
  <2>1. task[t].pc = "close" /\ heard' = heard
    BY Zenon DEF TClose, Goto
  <2> QED
    BY <2>1 DEF Inv, Typed
<1>1. CASE Restart
  BY <1>0, <1>1, RestartUpdates
<1>2. CASE /\ ~file_opened /\ Onward(t)
           /\ UNCHANGED <<boot, mpc, sys_cmd_queue, stored, file, file_opened, spoilt, mishaps,
                          bluetooth>>
  <2>1. ~Progress(t)
    BY <1>0, <1>2 DEF Progress
  <2>2. PICK new \in TaskType :
          task' = [task EXCEPT ![t] = new] /\ new.pc \in {"size", "notify"}
    BY <1>2, OnwardTask
  <2> QED
    BY <1>0, <1>2, <2>1, <2>2, QuietUpdates
<1>3. CASE /\ file_opened /\ Goto(t, "close", "unset") /\ file' = "closed"
           /\ UNCHANGED <<boot, mpc, sys_cmd_queue, file_opened, spoilt, bluetooth>>
           /\ \/ UNCHANGED <<stored, mishaps>>
              \/ /\ file \in Files /\ stored[file] # <<>>
                 /\ stored' = [stored EXCEPT ![file] = Front(@)]
                 /\ mishaps' = mishaps \cup {"flush"}
  <2> DEFINE new == [task[t] EXCEPT !.pc = "unset"]
  <2>1. task' = [task EXCEPT ![t] = new] /\ task'[t] = new
    BY <1>0, <1>3 DEF Goto
  <2>2. /\ new \in TaskType /\ new.pc = "unset" /\ new.ok = task[t].ok /\ new.left = task[t].left
        /\ new.file = task[t].file /\ new.show = task[t].show
    BY <1>0 DEF TaskType, Points
  <2> HIDE DEF new
  <2>3. Progress(t) => Progress(t)'
    <3> SUFFICES ASSUME Progress(t) PROVE Progress(t)'
      OBVIOUS
    <3>1. "flush" \notin mishaps' => stored' = stored /\ mishaps' = mishaps
      BY <1>3
    <3>2. "identity" \notin mishaps' => "identity" \notin mishaps
      BY <1>3
    <3> QED
      BY <1>0, <1>3, <2>1, <2>2, <3>1, <3>2 DEF Progress, Received
  <2>4. "closed" \notin Files
    BY DEF Files
  <2>5. SuccessIsWhole'
    BY <1>3 DEF UInv, Whole, SuccessIsWhole
  <2>6. mishaps \subseteq mishaps' /\ mishaps' \subseteq mishaps \cup {"flush", "identity"}
    BY <1>3
  <2> QED
    BY <1>0, <1>3, <2>1, <2>2, <2>3, <2>4, <2>5, <2>6, TaskUpdates
<1> QED
  BY <1>0, <1>1, <1>2, <1>3, Zenon DEF TClose

(* An update that ran alone and came to its end has left both files whole. *)
LEMMA UnsetUpdates ==
  ASSUME Inv, UInv, NEW t \in Updaters, TUnset(t)
  PROVE  UInv'
<1> USE DEF commandVars, wifiVars, writerVars, boundVars, historyVars, UpdateFault
<1>0. task[t] \in TaskType /\ task \in [Updaters -> TaskType] /\ stored \in [Files -> Seq(Chunk)]
  BY DEF Inv, Typed
<1>1. /\ task[t].pc = "unset" /\ Onward(t) /\ file' = "null" /\ file_opened' = FALSE
      /\ UNCHANGED <<boot, mpc, sys_cmd_queue, heard, stored, bluetooth, mishaps>>
  BY Zenon DEF TUnset
<1>2. spoilt' \/ ~spoilt
        \/ (task[t].ok /\ task[t].file = "frame" /\ mishaps \cap {"second", "flush", "identity"} = {})
  BY Zenon DEF TUnset
<1>3. Alone => Progress(t)
  BY <1>1 DEF UInv, Sole, Active
<1>4. SuccessIsWhole'
  <2>1. CASE task[t].ok /\ task[t].file = "frame" /\ mishaps \cap {"second", "flush", "identity"} = {}
    <3>1. Progress(t) /\ "flush" \notin mishaps /\ "identity" \notin mishaps
      BY <1>3, <2>1 DEF Alone
    <3>2. /\ task[t].show \in 0 .. MaxHeard /\ Received(t) /\ task[t].left = 0
          /\ stored["control"] = Content("control", task[t].show)
      BY <1>1, <2>1, <3>1 DEF Progress
    <3>3. stored["frame"] = Content("frame", task[t].show)
      BY <2>1, <3>2, ContentPrefix DEF Received
    <3>4. stored = Show(task[t].show)
      BY <1>0, <3>2, <3>3 DEF Show, Files
    <3> QED
      BY <1>1, <3>2, <3>4 DEF SuccessIsWhole
  <2>2. CASE spoilt' \/ ~spoilt
    BY <1>1, <2>2 DEF UInv, Whole, SuccessIsWhole
  <2> QED
    BY <1>2, <2>1, <2>2
<1>5. PICK new \in TaskType :
        /\ task' = [task EXCEPT ![t] = new] /\ task'[t] = new /\ ~new.ok
        /\ \/ /\ task[t].ok /\ task[t].file = "control"
              /\ new.pc = "size" /\ new.file = "frame" /\ new.show = task[t].show
           \/ new.pc = "notify" /\ new.file = "control" /\ new.show = 0
  BY <1>1, OnwardTask, Zenon
<1>6. Progress(t) => Progress(t)'
  <2> SUFFICES ASSUME Progress(t) PROVE Progress(t)'
    OBVIOUS
  <2>1. Free'
    BY <1>1 DEF Free
  <2>2. task[t].ok /\ task[t].file = "control" /\ "flush" \notin mishaps =>
          stored["control"] = Content("control", task[t].show)
    BY <1>1, ContentPrefix DEF Progress, Received
  <2> QED
    BY <1>1, <1>5, <2>1, <2>2 DEF Progress
<1>7. new.pc \notin {"idle", "begin"} /\ "null" \notin Files
  BY <1>5 DEF Files
<1> QED
  BY <1>1, <1>4, <1>5, <1>6, <1>7, TaskUpdates

(* An update that ran alone leaves none, and the receiver is down. *)
LEMMA NotifyUpdates ==
  ASSUME Inv, UInv, NEW t \in Updaters, TNotify(t)
  PROVE  UInv'
<1>1. /\ task[t].pc = "notify" /\ task' = [task EXCEPT ![t] = Idle] /\ Send("UPLOAD_SUCCESS")
      /\ UNCHANGED <<stored, boot, mpc, bluetooth, file, file_opened, spoilt, mishaps, heard>>
  BY Zenon DEF TNotify, writerVars, boundVars, historyVars
<1>2. t \in Active /\ Booted
  BY <1>1 DEF Active, UInv, OnlyBooted
<1>3. Active' = Active \ {t} /\ \A u \in Active' : task'[u] = task[u]
  BY <1>1 DEF Active, Idle, Inv, Typed
<1>4. QueueType' /\ \A other \in Msgs : Asked(other)' => Asked(other) \/ other = "UPLOAD_SUCCESS"
  BY <1>1, SendAsks DEF UInv, Msgs
<1>5. Alone' => Alone /\ Active = {t} /\ Active' = {} /\ ~bluetooth /\ Free
  <2> SUFFICES ASSUME Alone' PROVE Alone /\ Active = {t} /\ Active' = {} /\ ~bluetooth /\ Free
    OBVIOUS
  <2>1. Alone
    BY <1>1 DEF Alone
  <2>2. Active = {t} /\ ~bluetooth
    BY <1>1, <1>2, <2>1 DEF UInv, Order
  <2>3. Free
    BY <1>1, <2>1, <2>2 DEF UInv, Sole, Progress
  <2> QED
    BY <1>3, <2>1, <2>2, <2>3
<1>6. Order'
  <2>1. Alone' => Over'
    BY <1>1, <1>5 DEF Over
  <2> QED
    BY <1>5, <2>1 DEF Order
<1>7. Sole'
  BY <1>1, <1>5 DEF Sole, Free
<1>8. Whole'
  BY <1>1, WholeKept DEF UInv, Whole
<1> QED
  BY <1>1, <1>2, <1>4, <1>6, <1>7, <1>8, LoadedKept DEF UInv

-----------------------------------------------------------------------------
LEMMA UInvStep == Inv /\ UInv /\ [Next]_vars => UInv'
<1> SUFFICES ASSUME Inv, UInv, [Next]_vars PROVE UInv'
  OBVIOUS
<1>1. CASE BootStep /\ UNCHANGED updateVars
  BY <1>1, BootUpdates
<1>2. CASE SysCmd
  BY <1>2, SysCmdUpdates
<1>3. CASE WifiJoined \/ WifiFails \/ WifiDrops
  BY <1>3, WifiUpdates
<1>4. CASE PowerLoss
  BY <1>4, RestartUpdates DEF PowerLoss, UpdateFault
<1>5. ASSUME NEW t \in Updaters, Update(t) PROVE UInv'
  BY <1>5, StartsUpdates, WaitUpdates, OpenUpdates, RecvUpdates, WriteUpdates, CloseUpdates,
     UnsetUpdates, NotifyUpdates, Zenon DEF Update
<1>6. ASSUME NEW msg \in {"UPLOAD", "RESET"}, Hear(msg) PROVE UInv'
  BY <1>6, HearUpdates
<1>7. CASE UNCHANGED vars
  <2>1. UNCHANGED <<stored, boot, sys_cmd_queue, mpc, bluetooth, file, file_opened, task, spoilt,
                    mishaps, heard>>
    BY <1>7, Zenon DEF vars, updateVars, writerVars, historyVars
  <2>2. Active' = Active /\ \A msg : Asked(msg)' <=> Asked(msg)
    BY <2>1 DEF Active, Asked
  <2>3. Order' /\ OnlyBooted' /\ Loaded'
    BY <2>1, <2>2 DEF UInv, Order, Over, Alone, OnlyBooted, Booted, Loaded
  <2> QED
    BY <2>1, <2>3, SoleKept, WholeKept DEF UInv, Whole, QueueType
<1> QED
  BY <1>1, <1>2, <1>3, <1>4, <1>5, <1>6, <1>7, Zenon DEF Next

LEMMA UpdatesAlways == Spec => [](Inv /\ UInv)
BY InvInit, InvStep, UInvInit, UInvStep, PTL DEF Spec

(* The restart that an update asks for comes after it: whatever is heard, dropped or lost,
   it cuts no update short unless a RESET was heard besides or two updates ran
   (main.cpp:151-174). *)
THEOREM RestartsWhenDoneAlways == Spec => []RestartsWhenDone
<1>1. UInv => RestartsWhenDone
  <2> SUFFICES ASSUME UInv, mpc = "restart", mishaps \cap {"reset", "second"} = {}
               PROVE  Active = {}
    BY DEF RestartsWhenDone
  <2>1. Alone /\ "reset" \notin mishaps
    BY DEF Alone
  <2> QED
    BY <2>1 DEF UInv, Order, Over
<1> QED
  BY <1>1, UpdatesAlways, PTL

(* Files of any length survive whole what is cut short around them: the last update that ran
   alone, was received whole and flushed left both files of one show, until the next one
   opens one (tcp_client.cpp:124-190, 252-257, sd_writer.cpp:13-66). *)
THEOREM SuccessIsWholeAlways == Spec => []SuccessIsWhole
<1>1. UInv => SuccessIsWhole
  BY DEF UInv, Whole
<1> QED
  BY <1>1, UpdatesAlways, PTL

(* Boot loads, from what such an update left, the timeline and the frames of one show of
   this player's own, unless a call of boot fails (main.cpp:325-340,
   tcp_client.cpp:193-287). *)
THEOREM UpdatedShowPlaysAlways == Spec => []UpdatedShowPlays
<1>1. UInv => UpdatedShowPlays
  <2> SUFFICES ASSUME UInv, Booted, boot.whole, "boot" \notin mishaps
               PROVE  boot.frames /\ boot.timeline = boot.reader /\ boot.timeline # Foreign
    BY DEF UpdatedShowPlays
  <2>1. boot.timeline \in 0 .. MaxHeard /\ boot.reader = boot.timeline /\ boot.frames
    BY DEF UInv, Loaded, Booted
  <2> QED
    BY <2>1 DEF Foreign
<1> QED
  BY <1>1, UpdatesAlways, PTL

=============================================================================
