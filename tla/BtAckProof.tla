------------------------------- MODULE BtAckProof -------------------------------
(* Proofs about overlapping ACK tasks, for any number of them and any delays: the
   receiver hears again, and what is broadcast in between. *)
EXTENDS BtAck, TLAPS, FiniteSetTheorems, WellFoundedInduction

USE DelayAssumption, ChecksAssumption DEF DelayAssumption, ChecksAssumption, None

Points     == {"idle", "scan_off", "params", "data", "adv_on", "adv_off", "scan_on"}
Starting   == {"init", "reset", "mask", "params", "enable"}
RxPoints   == Starting \cup {"up", "stop", "deinit", "down", "failed"}

Typed ==
  /\ rx \in [pc : RxPoints, wait : Nat]
  /\ task \in [Tasks -> [pc : Points, wait : Nat, check : Nat]]
  /\ controller \in [up : BOOLEAN, events : BOOLEAN, scanParams : BOOLEAN,
                     scanning : BOOLEAN, advertising : BOOLEAN, params : BOOLEAN,
                     data : Nat]
  /\ checks \in Nat /\ deaf \in Nat

(* How far bt_hci_start_scan has come *)
Prepared ==
  /\ rx.pc \in {"reset", "mask", "params", "enable", "up"} => controller.up
  /\ rx.pc \in {"params", "enable", "up"} => controller.events
  /\ rx.pc \in {"enable", "up"} => controller.scanParams
  /\ rx.pc \in Starting => deaf = 0 /\ \A t \in Tasks : task[t].pc = "idle"

(* Advertising that is on will be switched off by some task, which the controller
   will heed. *)
Ending ==
  controller.advertising => controller.up /\ \E t \in Tasks : task[t].pc = "adv_off"

(* For how long a task that has stopped the scanning did so, as its position tells *)
Delays(pc) ==
  CASE pc = "params"  -> ScanDelay
    [] pc = "data"    -> ScanDelay + ParamDelay
    [] pc = "adv_on"  -> ScanDelay + ParamDelay + DataDelay
    [] OTHER          -> ScanDelay + ParamDelay + DataDelay + AirTime
SilentPoints == {"params", "data", "adv_on", "adv_off", "scan_on"}
SilentFor(t) == Delays(task[t].pc) - task[t].wait

(* A receiver that does not scan has a task that stopped it no later, and that will
   resume it. *)
Resuming ==
  rx.pc = "up" =>
    IF controller.scanning THEN deaf = 0
    ELSE \E t \in Tasks : task[t].pc \in SilentPoints /\ deaf <= SilentFor(t)

Inv == Typed /\ Prepared /\ Ending /\ Resuming /\ DeafBounded

-----------------------------------------------------------------------------
LEMMA InvInit == AckInit => Inv
BY DEF AckInit, Inv, Typed, Prepared, Ending, Resuming, DeafBounded, Idle, Off,
       Points, RxPoints, Starting, Checks

LEMMA InvHears == Inv => HearsAgain
<1>1. SUFFICES ASSUME Inv PROVE HearsAgain
  OBVIOUS
<1>2. ASSUME Quiet PROVE Hears /\ ~controller.advertising
  <2>1. \A t \in Tasks : task[t].pc = "idle"
    BY <1>2 DEF Quiet, Alive
  <2>2. ~controller.advertising
    BY <1>1, <2>1 DEF Inv, Ending
  <2>3. controller.scanning
    BY <1>1, <1>2, <2>1 DEF Inv, Resuming, SilentPoints, Quiet
  <2> QED
    BY <1>1, <1>2, <2>2, <2>3 DEF Inv, Prepared, Quiet, Hears
<1> QED
  BY <1>1, <1>2 DEF Inv, HearsAgain, ScanResumes

-----------------------------------------------------------------------------
LEMMA DelaysType == \A pc \in Points :
  Delays(pc) \in Nat /\ Delays(pc) <= ScanDelay + ParamDelay + DataDelay + AirTime
BY DEF Delays, Points

LEMMA StepReceiver == Inv /\ Receiver => Inv'
<1> SUFFICES ASSUME Inv, Receiver PROVE Inv'
  OBVIOUS
<1> USE DEF Inv, Typed, RxPoints, Starting, Rx, HistoryUnchanged, DeafBounded
<1>1. ASSUME rx.pc \in Starting, rx'.pc \in Starting \cup {"up", "failed"},
             Typed', deaf' = deaf, task' = task,
             controller'.advertising => controller.advertising,
             Prepared', rx'.pc = "up" => controller'.scanning
      PROVE  Inv'
  BY <1>1 DEF Prepared, Ending, Resuming
<1>2. ASSUME rx'.pc \in {"stop", "deinit", "down"}, Typed', deaf' = deaf, task' = task,
             controller'.advertising => controller.advertising /\ controller'.up
      PROVE  Inv'
  BY <1>2 DEF Prepared, Ending, Resuming
<1>3. CASE RInit
  <2>1. controller' = controller \/ controller' = [controller EXCEPT !.up = TRUE]
    BY <1>3 DEF RInit, ControllerInit
  <2>4. /\ rx' \in [pc : RxPoints, wait : Nat] /\ task' = task
        /\ checks' = checks /\ deaf' = deaf
    BY <1>3 DEF RInit
  <2>5. controller' \in [up : BOOLEAN, events : BOOLEAN, scanParams : BOOLEAN,
                         scanning : BOOLEAN, advertising : BOOLEAN, params : BOOLEAN,
                         data : Nat]
    BY <2>1
  <2>3. Typed'
    BY <2>4, <2>5
  <2>2. Prepared' BY <1>3 DEF RInit, ControllerInit, Prepared
  <2> QED BY <1>1, <1>3, <2>2, <2>3 DEF RInit, ControllerInit
<1>4. CASE RReset
  <2>1. Typed' BY <1>4 DEF RReset, Reset, Hci, Off
  <2>2. Prepared' BY <1>4 DEF RReset, Reset, Hci, Off, Prepared
  <2> QED BY <1>1, <1>4, <2>1, <2>2 DEF RReset, Reset, Hci, Off
<1>5. CASE RMask
  <2>1. Typed' BY <1>5 DEF RMask, SetEvtMask, Hci
  <2>2. Prepared' BY <1>5 DEF RMask, SetEvtMask, Hci, Prepared
  <2> QED BY <1>1, <1>5, <2>1, <2>2 DEF RMask, SetEvtMask, Hci
<1>6. CASE RParams
  <2>1. Typed' BY <1>6 DEF RParams, SetScanParams, Hci
  <2>2. Prepared' BY <1>6 DEF RParams, SetScanParams, Hci, Prepared
  <2> QED BY <1>1, <1>6, <2>1, <2>2 DEF RParams, SetScanParams, Hci
<1>7. CASE REnable
  <2>1. Typed' BY <1>7 DEF REnable, SetScanEnabled, Hci
  <2>2. Prepared' BY <1>7 DEF REnable, SetScanEnabled, Hci, Prepared
  <2> QED BY <1>1, <1>7, <2>1, <2>2 DEF REnable, SetScanEnabled, Hci, Prepared
<1>8. CASE RStop
  BY <1>2, <1>8 DEF RStop, Ending
<1>9. CASE RScanOff
  BY <1>2, <1>9 DEF RScanOff, SetScanEnabled, Hci, Ending
<1>10. CASE RDeinit
  BY <1>2, <1>10 DEF RDeinit, Off
<1> QED
  BY <1>3, <1>4, <1>5, <1>6, <1>7, <1>8, <1>9, <1>10 DEF Receiver

LEMMA GotoType ==
  ASSUME Typed, NEW t \in Tasks, NEW from \in Points, NEW to \in Points, NEW wait \in Nat,
         Goto(t, from, to, wait)
  PROVE  task' \in [Tasks -> [pc : Points, wait : Nat, check : Nat]]
<1>1. /\ task' = [[task EXCEPT ![t].pc = to] EXCEPT ![t].wait = wait]
      /\ task \in [Tasks -> [pc : Points, wait : Nat, check : Nat]]
  BY DEF Typed, Goto
<1>2. [task EXCEPT ![t].pc = to] \in [Tasks -> [pc : Points, wait : Nat, check : Nat]]
  BY <1>1
<1> QED
  BY <1>1, <1>2

(* A task that goes on with its broadcast leaves the receiver as deaf as it was. *)
LEMMA StepGoto ==
  ASSUME Inv, NEW t \in Tasks, NEW from \in SilentPoints, NEW to \in SilentPoints,
         NEW wait \in Nat, Goto(t, from, to, wait), Delays(to) = Delays(from) + wait,
         UNCHANGED <<rx, checks, deaf>>, Typed',
         controller'.up = controller.up, controller'.events = controller.events,
         controller'.scanParams = controller.scanParams,
         controller'.scanning = controller.scanning, Ending'
  PROVE  Inv'
<1> USE DEF Inv, Typed
<1>1. /\ rx.pc \notin Starting
      /\ \A s \in Tasks : task'[s].pc \in SilentPoints /\ s # t => task[s] = task'[s]
  BY DEF Goto, Prepared, SilentPoints, Starting
<1>2. Prepared'
  BY <1>1 DEF Prepared, Starting
<1>3. /\ task'[t] = [task[t] EXCEPT !.pc = to, !.wait = wait]
      /\ \A s \in Tasks \ {t} : task'[s] = task[s]
  BY DEF Goto
<1>4. task[t].pc = from /\ task[t].wait = 0 /\ task'[t].pc = to /\ task'[t].wait = wait
  BY <1>3 DEF Goto
<1>5. Delays(from) \in Nat
  BY DelaysType DEF SilentPoints, Points
<1>6. SilentFor(t)' = SilentFor(t)
  BY <1>4, <1>5 DEF SilentFor
<1>7. \A s \in Tasks \ {t} : SilentFor(s)' = SilentFor(s)
  BY <1>3 DEF SilentFor
<1>8. ASSUME rx.pc = "up", ~controller.scanning
      PROVE  \E s \in Tasks : task'[s].pc \in SilentPoints /\ deaf <= SilentFor(s)'
  <2>1. PICK s \in Tasks : task[s].pc \in SilentPoints /\ deaf <= SilentFor(s)
    BY <1>8 DEF Resuming
  <2>2. task'[s].pc \in SilentPoints
    BY <1>3, <1>4, <2>1
  <2>3. SilentFor(s)' = SilentFor(s)
    BY <1>6, <1>7
  <2> QED
    BY <2>1, <2>2, <2>3
<1>9. Resuming'
  <2>1. rx.pc = "up" /\ controller.scanning => deaf = 0
    BY DEF Resuming
  <2> QED
    BY <1>8, <2>1 DEF Resuming
<1> QED
  BY <1>2, <1>9 DEF DeafBounded

LEMMA StepAdvOff ==
  ASSUME Inv, NEW t \in Tasks, AdvOff(t)
  PROVE  Inv'
<1>1. Typed'
  <2>1. task' \in [Tasks -> [pc : Points, wait : Nat, check : Nat]]
    BY GotoType DEF AdvOff, Inv, Points
  <2>2. controller' \in [up : BOOLEAN, events : BOOLEAN, scanParams : BOOLEAN,
                         scanning : BOOLEAN, advertising : BOOLEAN, params : BOOLEAN,
                         data : Nat]
    BY DEF AdvOff, Inv, Typed, SetAdvEnabled, Hci
  <2> QED
    BY <2>1, <2>2 DEF AdvOff, Inv, Typed, HistoryUnchanged
<1>2. ~controller'.advertising
  BY DEF AdvOff, Inv, Typed, SetAdvEnabled, Hci, Ending
<1>3. /\ controller'.up = controller.up /\ controller'.events = controller.events
      /\ controller'.scanParams = controller.scanParams
      /\ controller'.scanning = controller.scanning
  BY DEF AdvOff, Inv, Typed, SetAdvEnabled, Hci
<1>4. Ending'
  BY <1>2 DEF Ending
<1>6. Delays("scan_on") = Delays("adv_off") + 0
  BY DEF Delays
<1>7. Goto(t, "adv_off", "scan_on", 0) /\ UNCHANGED <<rx, checks, deaf>>
  BY DEF AdvOff, HistoryUnchanged
<1>8. "adv_off" \in SilentPoints /\ "scan_on" \in SilentPoints
  BY DEF SilentPoints
<1> QED
  BY <1>1, <1>3, <1>4, <1>6, <1>7, <1>8, StepGoto

LEMMA StepAck ==
  ASSUME Inv, NEW t \in Tasks, Ack(t)
  PROVE  Inv'
<1> USE DEF Inv, Typed, HistoryUnchanged
<1>1. CASE ScanOff(t)
  <2> USE <1>1 DEF ScanOff, Goto, SetScanEnabled, Hci
  <2>1. Typed'
    BY DEF Points
  <2>2. Prepared' /\ Ending'
    BY DEF Prepared, Ending, Starting
  <2>3. /\ task'[t].pc = "params" /\ SilentFor(t)' = 0
        /\ \A s \in Tasks \ {t} : task'[s] = task[s] /\ SilentFor(s)' = SilentFor(s)
    BY DEF SilentFor, Delays
  <2>4. Resuming'
    BY <2>3 DEF Resuming, SilentPoints
  <2> QED
    BY <2>1, <2>2, <2>4 DEF DeafBounded
<1>2. CASE AdvParams(t)
  <2> USE <1>2 DEF AdvParams
  <2>1. Typed'
    BY DEF SetAckAdvParams, Hci, Goto, Points
  <2>2. Ending' /\ controller' = [controller EXCEPT !.params = controller'.params]
    BY DEF SetAckAdvParams, Hci, Goto, Ending
  <2> QED
    BY <2>1, <2>2, StepGoto DEF SilentPoints, Delays
<1>3. CASE AdvData(t)
  <2> USE <1>3 DEF AdvData
  <2>1. Typed'
    BY DEF SetAdvData, Hci, Goto, Points
  <2>2. Ending' /\ controller' = [controller EXCEPT !.data = controller'.data]
    BY DEF SetAdvData, Hci, Goto, Ending
  <2> QED
    BY <2>1, <2>2, StepGoto DEF SilentPoints, Delays
<1>4. CASE AdvOn(t)
  <2> USE <1>4 DEF AdvOn
  <2>1. Typed'
    BY DEF SetAdvEnabled, Hci, Goto, Points
  <2>2. Ending' /\ controller' = [controller EXCEPT !.advertising = controller'.advertising]
    BY DEF SetAdvEnabled, Hci, Goto, Ending
  <2> QED
    BY <2>1, <2>2, StepGoto DEF SilentPoints, Delays
<1>5. CASE AdvOff(t)
  BY <1>5, StepAdvOff DEF AdvOff
<1>6. CASE ScanOn(t)
  <2> USE <1>6 DEF ScanOn, SetScanEnabled, Hci, Idle
  <2>1. Typed'
    BY DEF Points
  <2>2. rx.pc \notin Starting
    BY DEF Prepared
  <2>3. Prepared' /\ Ending'
    BY <2>2 DEF Prepared, Ending, Starting
  <2>4. Resuming'
    BY DEF Resuming, Prepared
  <2> QED
    BY <2>1, <2>3, <2>4 DEF DeafBounded
<1> QED
  BY <1>1, <1>2, <1>3, <1>4, <1>5, <1>6 DEF Ack

LEMMA StepCheck ==
  ASSUME Inv, NEW t \in Tasks, Check(t)
  PROVE  Inv'
<1> USE DEF Inv, Typed, Check
<1>1. Typed'
  BY DEF Points
<1>2. \A s \in Tasks : task[s].pc # "idle" => task'[s] = task[s]
  OBVIOUS
<1>3. Prepared' /\ Ending'
  BY <1>2 DEF Prepared, Ending, Starting
<1>4. \A s \in Tasks : task[s].pc \in SilentPoints => SilentFor(s)' = SilentFor(s)
  BY <1>2 DEF SilentFor, SilentPoints
<1>5. Resuming'
  BY <1>2, <1>4 DEF Resuming, SilentPoints
<1> QED
  BY <1>1, <1>3, <1>5 DEF DeafBounded

LEMMA StepElapse == Inv /\ Elapse => Inv'
<1> SUFFICES ASSUME Inv, Elapse PROVE Inv'
  OBVIOUS
<1> USE DEF Inv, Typed
<1>1. /\ rx' = Less(rx) /\ task' = [t \in Tasks |-> Less(task[t])]
      /\ controller' = controller /\ checks' = checks
      /\ deaf' = IF rx.pc = "up" /\ ~Hears THEN deaf + 1 ELSE 0
  BY DEF Elapse
<1>2. rx'.pc = rx.pc /\ rx' \in [pc : RxPoints, wait : Nat]
  BY <1>1 DEF Less
<1>3. \A t \in Tasks : /\ task'[t].pc = task[t].pc
                       /\ task'[t] \in [pc : Points, wait : Nat, check : Nat]
                       /\ task'[t].wait = IF task[t].wait > 0 THEN task[t].wait - 1 ELSE 0
  BY <1>1 DEF Less
<1>4. Typed'
  <2>1. task' \in [Tasks -> [pc : Points, wait : Nat, check : Nat]]
    BY <1>1, <1>3
  <2> QED
    BY <1>1, <1>2, <2>1
<1>5. Prepared' /\ Ending'
  BY <1>1, <1>2, <1>3 DEF Prepared, Ending, Starting
<1>6. ASSUME rx.pc = "up", ~Hears
      PROVE  ~controller.scanning
  BY <1>6 DEF Prepared, Hears
<1>7. ASSUME NEW t \in Tasks, task[t].pc \in SilentPoints, deaf <= SilentFor(t)
      PROVE  /\ task'[t].pc \in SilentPoints /\ deaf + 1 <= SilentFor(t)'
             /\ SilentFor(t)' <= ScanDelay + ParamDelay + DataDelay + AirTime
  <2>1. task[t].wait > 0
    BY <1>7 DEF Elapse, Waiting, SilentPoints
  <2>2. task'[t].pc = task[t].pc /\ task'[t].wait = task[t].wait - 1
    BY <1>3, <2>1
  <2>3. /\ Delays(task[t].pc) \in Nat
        /\ Delays(task[t].pc) <= ScanDelay + ParamDelay + DataDelay + AirTime
    BY DelaysType
  <2>4. SilentFor(t)' = SilentFor(t) + 1
    BY <2>2, <2>3 DEF SilentFor
  <2>5. SilentFor(t)' <= ScanDelay + ParamDelay + DataDelay + AirTime
    BY <2>1, <2>2, <2>3 DEF SilentFor
  <2>6. SilentFor(t) \in Int
    BY <2>3 DEF SilentFor
  <2> QED
    BY <1>7, <2>2, <2>4, <2>5, <2>6
<1>8. CASE rx.pc = "up" /\ ~Hears
  <2>1. PICK t \in Tasks : task[t].pc \in SilentPoints /\ deaf <= SilentFor(t)
    BY <1>6, <1>8 DEF Resuming
  <2>2. /\ task'[t].pc \in SilentPoints /\ deaf' <= SilentFor(t)'
        /\ SilentFor(t)' <= ScanDelay + ParamDelay + DataDelay + AirTime
    BY <1>1, <1>7, <1>8, <2>1
  <2>3. SilentFor(t)' \in Int
    <3>1. Delays(task'[t].pc) \in Nat /\ task'[t].wait \in Nat
      BY <1>3, DelaysType
    <3> QED
      BY <3>1 DEF SilentFor
  <2>4. DeafBounded'
    BY <1>4, <2>2, <2>3 DEF DeafBounded
  <2>5. Resuming'
    BY <1>1, <1>2, <1>6, <1>8, <2>2 DEF Resuming
  <2> QED
    BY <1>4, <1>5, <2>4, <2>5
<1>9. CASE ~(rx.pc = "up" /\ ~Hears)
  <2>1. deaf' = 0
    BY <1>1, <1>9
  <2>2. rx.pc = "up" => controller.scanning
    BY <1>9 DEF Hears
  <2>3. DeafBounded' /\ Resuming'
    BY <1>1, <1>2, <2>1, <2>2 DEF DeafBounded, Resuming
  <2> QED
    BY <1>4, <1>5, <2>3
<1> QED
  BY <1>8, <1>9

LEMMA InvStep == Inv /\ [AckNext]_ackVars => Inv'
<1> SUFFICES ASSUME Inv, [AckNext]_ackVars PROVE Inv'
  OBVIOUS
<1>1. CASE UNCHANGED ackVars
  BY <1>1 DEF ackVars, Inv, Typed, Prepared, Ending, Resuming, SilentFor, DeafBounded
<1>2. CASE AckNext
  BY <1>2, StepReceiver, StepElapse, StepCheck, StepAck DEF AckNext
<1> QED
  BY <1>1, <1>2

(* However many CHECKs overlap, and whatever the delays of send_ack_task: no task is
   left that could resume the scanning only if the receiver hears, and it never misses
   more than the time one ACK takes (bt_ack.cpp:21-53). *)
THEOREM AlwaysHearsAgain == AckSpec => []HearsAgain
<1>1. AckSpec => []Inv
  BY InvInit, InvStep, PTL DEF AckSpec
<1> QED
  BY <1>1, InvHears, PTL

-----------------------------------------------------------------------------
(* Induction *)
Below == {pair \in Nat \X Nat : pair[1] < pair[2]}

LEMMA BelowWellFounded == IsWellFoundedOn(Below, Nat)
<1>1. Below = OpToRel(<, Nat)
  BY DEF Below, OpToRel
<1> QED
  BY <1>1, NatLessThanWellFounded

(* A set of numbers that is not empty has a least one. *)
LEMMA LeastOne ==
  ASSUME NEW T \in SUBSET Nat, T # {}
  PROVE  \E n \in T : \A m \in T : n <= m
<1>1. T \subseteq Nat /\ T # {}
  OBVIOUS
<1>2. \A R, S : IsWellFoundedOn(R, S) =>
        \A U : U \subseteq S /\ U # {} => \E x \in U : \A y \in U : ~(<<y, x>> \in R)
  BY WFMin, Zenon
<1>3. PICK n \in T : \A m \in T : ~(<<m, n>> \in Below)
  BY <1>1, <1>2, BelowWellFounded, Zenon
<1>4. ASSUME NEW m \in T PROVE n <= m
  <2>1. n \in Nat /\ m \in Nat
    OBVIOUS
  <2>2. m < n => <<m, n>> \in Below
    BY <2>1 DEF Below
  <2> QED
    BY <1>3, <2>1, <2>2
<1> QED
  BY <1>4

(* A set that has 0 and, with every number, the next one has every number. *)
LEMMA SetInduction ==
  ASSUME NEW S, 0 \in S, \A n \in Nat : n \in S => n + 1 \in S
  PROVE  Nat \subseteq S
<1> SUFFICES ASSUME Nat \ S # {} PROVE FALSE
  OBVIOUS
<1>1. PICK n \in Nat \ S : \A m \in Nat \ S : n <= m
  BY LeastOne
<1>2. n # 0 /\ n - 1 \in Nat
  BY <1>1
<1>3. n - 1 \in S
  BY <1>1, <1>2
<1>4. (n - 1) + 1 \in S
  BY <1>2, <1>3
<1> QED
  BY <1>1, <1>4

(* So has a set of numbers up to the last CHECK that has 0 and goes on. *)
LEMMA Upwards ==
  ASSUME NEW T \in SUBSET (0 .. MaxChecks), 0 \in T, \A k \in Checks : k - 1 \in T => k \in T
  PROVE  0 .. MaxChecks \subseteq T
<1> DEFINE S == T \cup {n \in Nat : n > MaxChecks}
<1>1. 0 \in S
  OBVIOUS
<1>2. ASSUME NEW n \in Nat, n \in S PROVE n + 1 \in S
  <2>1. CASE n + 1 > MaxChecks
    BY <2>1
  <2>2. CASE n + 1 <= MaxChecks
    <3>1. n \in T /\ n + 1 \in Checks /\ (n + 1) - 1 = n
      BY <1>2, <2>2 DEF Checks
    <3> QED
      BY <3>1
  <2> QED
    BY <2>1, <2>2
<1>3. Nat \subseteq S
  <2>1. \A n \in Nat : n \in S => n + 1 \in S
    BY <1>2
  <2> HIDE DEF S
  <2> QED
    BY <1>1, <2>1, SetInduction
<1> QED
  BY <1>3

-----------------------------------------------------------------------------
(* Sums over the CHECKs *)
Counts == [Checks -> Nat]

Sums(w, f) ==
  f \in [0 .. MaxChecks -> Nat] /\ f[0] = 0 /\ \A k \in Checks : f[k] = f[k - 1] + w[k]

Partial(w) == CHOOSE f : Sums(w, f)
Total(w)   == Partial(w)[MaxChecks]

LEMMA SumsExist ==
  ASSUME NEW w \in Counts
  PROVE  Sums(w, Partial(w)) /\ Total(w) \in Nat
<1> DEFINE Upto(n, f) ==
             f \in [0 .. n -> Nat] /\ f[0] = 0 /\ \A k \in 1 .. n : f[k] = f[k - 1] + w[k]
           T == {n \in 0 .. MaxChecks : \E f : Upto(n, f)}
<1>1. 0 \in T
  <2>1. Upto(0, [k \in 0 .. 0 |-> 0])
    OBVIOUS
  <2> HIDE DEF Upto
  <2> QED
    BY <2>1
<1>2. ASSUME NEW n \in Checks, n - 1 \in T PROVE n \in T
  <2>1. PICK f : Upto(n - 1, f)
    BY <1>2
  <2>2. n \in Nat /\ n - 1 \in 0 .. n - 1 /\ n \in 0 .. MaxChecks /\ w[n] \in Nat
    BY DEF Checks, Counts
  <2> DEFINE g == [k \in 0 .. n |-> IF k = n THEN f[n - 1] + w[n] ELSE f[k]]
  <2>3. g \in [0 .. n -> Nat]
    <3>1. \A k \in 0 .. n : k # n => k \in 0 .. n - 1
      BY <2>2
    <3> QED
      BY <2>1, <2>2, <3>1
  <2>4. ASSUME NEW k \in 1 .. n PROVE g[k] = g[k - 1] + w[k]
    <3>1. CASE k = n
      <4>1. g[n] = f[n - 1] + w[n] /\ g[n - 1] = f[n - 1]
        BY <2>2
      <4> QED
        BY <3>1, <4>1
    <3>2. CASE k # n
      <4>1. k \in 1 .. n - 1 /\ k \in 0 .. n /\ k - 1 \in 0 .. n /\ k - 1 # n
        BY <2>2, <3>2
      <4>2. g[k] = f[k] /\ g[k - 1] = f[k - 1] /\ f[k] = f[k - 1] + w[k]
        BY <2>1, <3>2, <4>1
      <4> QED
        BY <4>2
    <3> QED
      BY <3>1, <3>2
  <2>5. Upto(n, g)
    <3>1. g[0] = 0
      BY <2>1, <2>2
    <3> HIDE DEF g
    <3> QED
      BY <2>3, <2>4, <3>1
  <2> HIDE DEF Upto, g
  <2> QED
    BY <2>2, <2>5
<1>3. MaxChecks \in T
  <2>1. \A k \in Checks : k - 1 \in T => k \in T
    BY <1>2
  <2>2. T \in SUBSET (0 .. MaxChecks)
    OBVIOUS
  <2> HIDE DEF T
  <2>3. 0 .. MaxChecks \subseteq T
    BY <1>1, <2>1, <2>2, Upwards
  <2> QED
    BY <2>3
<1>4. \E f : Sums(w, f)
  BY <1>3 DEF Sums, Checks
<1>5. Sums(w, Partial(w))
  BY <1>4 DEF Partial
<1> QED
  BY <1>5 DEF Sums, Total

(* What is counted more often has the larger sum, and the larger by one if there is one
   that is counted once more. *)
LEMMA SumGrows ==
  ASSUME NEW w \in Counts, NEW v \in Counts, \A k \in Checks : w[k] <= v[k]
  PROVE  Total(w) <= Total(v)
<1> DEFINE f == Partial(w)
           g == Partial(v)
           T == {n \in 0 .. MaxChecks : f[n] <= g[n]}
<1>1. Sums(w, f) /\ Sums(v, g)
  BY SumsExist
<1> HIDE DEF f, g
<1>2. 0 \in T
  BY <1>1 DEF Sums
<1>3. ASSUME NEW n \in Checks, n - 1 \in T PROVE n \in T
  <2>1. n \in 0 .. MaxChecks /\ n - 1 \in 0 .. MaxChecks
    BY DEF Checks
  <2>2. /\ f[n] = f[n - 1] + w[n] /\ g[n] = g[n - 1] + v[n] /\ w[n] <= v[n] /\ w[n] \in Nat
        /\ v[n] \in Nat /\ f[n - 1] \in Nat /\ g[n - 1] \in Nat /\ f[n - 1] <= g[n - 1]
    BY <1>1, <1>3, <2>1 DEF Sums, Counts
  <2> QED
    BY <2>1, <2>2
<1>4. MaxChecks \in T
  <2>1. T \in SUBSET (0 .. MaxChecks) /\ \A k \in Checks : k - 1 \in T => k \in T
    BY <1>3
  <2> HIDE DEF T
  <2> QED
    BY <1>2, <2>1, Upwards
<1> QED
  BY <1>4 DEF Total, f, g

LEMMA SumOneMore ==
  ASSUME NEW w \in Counts, NEW v \in Counts, \A k \in Checks : w[k] <= v[k],
         NEW c \in Checks, w[c] + 1 <= v[c]
  PROVE  Total(w) + 1 <= Total(v)
<1> DEFINE f == Partial(w)
           g == Partial(v)
           T == {n \in 0 .. MaxChecks : f[n] <= g[n] /\ (n >= c => f[n] + 1 <= g[n])}
<1>1. Sums(w, f) /\ Sums(v, g)
  BY SumsExist
<1> HIDE DEF f, g
<1>2. 0 \in T
  BY <1>1 DEF Sums, Checks
<1>3. ASSUME NEW n \in Checks, n - 1 \in T PROVE n \in T
  <2>1. n \in 0 .. MaxChecks /\ n - 1 \in 0 .. MaxChecks /\ n \in Nat /\ c \in Nat
    BY DEF Checks
  <2>2. /\ f[n] = f[n - 1] + w[n] /\ g[n] = g[n - 1] + v[n] /\ w[n] <= v[n] /\ w[n] \in Nat
        /\ v[n] \in Nat /\ f[n - 1] \in Nat /\ g[n - 1] \in Nat /\ f[n - 1] <= g[n - 1]
        /\ (n - 1 >= c => f[n - 1] + 1 <= g[n - 1])
    BY <1>1, <1>3, <2>1 DEF Sums, Counts
  <2>3. CASE n = c
    <3>1. w[n] + 1 <= v[n]
      BY <2>3
    <3> QED
      BY <2>1, <2>2, <3>1
  <2>4. CASE n # c
    BY <2>1, <2>2, <2>4
  <2> QED
    BY <2>3, <2>4
<1>4. MaxChecks \in T
  <2>1. T \in SUBSET (0 .. MaxChecks) /\ \A k \in Checks : k - 1 \in T => k \in T
    BY <1>3
  <2> HIDE DEF T
  <2> QED
    BY <1>2, <2>1, Upwards
<1> QED
  BY <1>4 DEF Total, f, g, Checks

LEMMA SumAbove ==
  ASSUME NEW w \in Counts, NEW c \in Checks
  PROVE  w[c] <= Total(w)
<1> DEFINE f == Partial(w)
           T == {n \in 0 .. MaxChecks : n >= c => w[c] <= f[n]}
<1>1. Sums(w, f)
  BY SumsExist
<1> HIDE DEF f
<1>2. 0 \in T
  BY DEF Checks
<1>3. ASSUME NEW n \in Checks, n - 1 \in T PROVE n \in T
  <2>1. n \in 0 .. MaxChecks /\ n - 1 \in 0 .. MaxChecks /\ n \in Nat /\ c \in Nat
    BY DEF Checks
  <2>2. /\ f[n] = f[n - 1] + w[n] /\ w[n] \in Nat /\ w[c] \in Nat /\ f[n - 1] \in Nat
        /\ (n - 1 >= c => w[c] <= f[n - 1])
    BY <1>1, <1>3, <2>1 DEF Sums, Counts
  <2>3. CASE n = c
    BY <2>1, <2>2, <2>3
  <2>4. CASE n # c
    BY <2>1, <2>2, <2>4
  <2> QED
    BY <2>3, <2>4
<1>4. MaxChecks \in T
  <2>1. T \in SUBSET (0 .. MaxChecks) /\ \A k \in Checks : k - 1 \in T => k \in T
    BY <1>3
  <2> HIDE DEF T
  <2> QED
    BY <1>2, <2>1, Upwards
<1> QED
  BY <1>4 DEF Total, f, Checks

(* No sum is larger than the number of what is counted times the largest count. *)
LEMMA SumBelow ==
  ASSUME NEW w \in Counts, NEW S \in SUBSET Checks, NEW m \in Nat,
         \A k \in S : w[k] <= m, \A k \in Checks \ S : w[k] = 0
  PROVE  Cardinality(S) \in Nat /\ Total(w) <= Cardinality(S) * m
<1> DEFINE f == Partial(w)
           C(n) == Cardinality(S \cap (1 .. n))
           T == {n \in 0 .. MaxChecks : f[n] <= C(n) * m}
<1>1. Sums(w, f)
  BY SumsExist
<1>2. \A n \in Nat : IsFiniteSet(S \cap (1 .. n)) /\ C(n) \in Nat
  <2>1. ASSUME NEW n \in Nat PROVE IsFiniteSet(S \cap (1 .. n))
    <3>1. IsFiniteSet(1 .. n) /\ S \cap (1 .. n) \in SUBSET (1 .. n)
      BY FS_Interval
    <3> QED
      BY <3>1, FS_Subset
  <2> QED
    BY <2>1, FS_CardinalityType
<1> HIDE DEF f
<1>3. 0 \in T
  <2>1. S \cap (1 .. 0) = {}
    OBVIOUS
  <2>2. C(0) = 0
    BY <2>1, FS_EmptySet
  <2> HIDE DEF C
  <2> QED
    BY <1>1, <2>2 DEF Sums
<1>4. ASSUME NEW n \in Checks, n - 1 \in T PROVE n \in T
  <2>1. n \in 0 .. MaxChecks /\ n - 1 \in 0 .. MaxChecks /\ n \in Nat /\ n - 1 \in Nat
    BY DEF Checks
  <2>2. /\ f[n] = f[n - 1] + w[n] /\ w[n] \in Nat /\ f[n - 1] \in Nat
        /\ f[n - 1] <= C(n - 1) * m
    BY <1>1, <1>4, <2>1 DEF Sums, Counts
  <2>3. C(n) = IF n \in S THEN C(n - 1) + 1 ELSE C(n - 1)
    <3>1. CASE n \in S
      <4>1. /\ S \cap (1 .. n) = (S \cap (1 .. n - 1)) \cup {n}
            /\ n \notin S \cap (1 .. n - 1)
        BY <2>1, <3>1
      <4> QED
        BY <1>2, <2>1, <3>1, <4>1, FS_AddElement
    <3>2. CASE n \notin S
      <4>1. S \cap (1 .. n) = S \cap (1 .. n - 1)
        BY <2>1, <3>2
      <4> QED
        BY <3>2, <4>1
    <3> QED
      BY <3>1, <3>2
  <2>4. PICK x \in Nat : x = C(n - 1)
    BY <1>2, <2>1
  <2> HIDE DEF C
  <2>5. PICK p \in Nat : p = x * m
    OBVIOUS
  <2>6. (x + 1) * m = p + m
    BY <2>5
  <2>7. CASE n \in S
    <3>1. f[n] <= p + m /\ C(n) = x + 1
      BY <2>2, <2>3, <2>4, <2>5, <2>7
    <3> QED
      BY <2>1, <2>6, <3>1
  <2>8. CASE n \notin S
    <3>1. f[n] <= p /\ C(n) = x
      BY <2>2, <2>3, <2>4, <2>5, <2>8
    <3> QED
      BY <2>1, <2>5, <3>1
  <2> QED
    BY <2>7, <2>8
<1>5. MaxChecks \in T
  <2>1. T \in SUBSET (0 .. MaxChecks) /\ \A k \in Checks : k - 1 \in T => k \in T
    BY <1>4
  <2> HIDE DEF T
  <2> QED
    BY <1>3, <2>1, Upwards
<1>6. S \cap (1 .. MaxChecks) = S
  BY DEF Checks
<1> QED
  BY <1>2, <1>5, <1>6 DEF Total, f

(* Of the CHECKs in a set, one was on air for longest. *)
LEMMA LargestOne ==
  ASSUME NEW w \in Counts, NEW S \in SUBSET Checks, S # {}
  PROVE  \E c \in S : \A d \in S : w[d] <= w[c]
<1> DEFINE T == {n \in 0 .. MaxChecks : S \cap (1 .. n) # {} =>
                   \E c \in S \cap (1 .. n) : \A d \in S \cap (1 .. n) : w[d] <= w[c]}
<1>1. 0 \in T
  OBVIOUS
<1>2. ASSUME NEW n \in Checks, n - 1 \in T PROVE n \in T
  <2>1. n \in 0 .. MaxChecks /\ n \in Nat /\ n - 1 \in Nat
    BY DEF Checks
  <2>2. \A k \in Checks : w[k] \in Nat
    BY DEF Counts
  <2>3. \A k \in S : k \in Checks
    OBVIOUS
  <2>4. \A k \in 1 .. n : k = n \/ k \in 1 .. n - 1
    BY <2>1
  <2>5. \A k \in 1 .. n - 1 : k \in 1 .. n
    BY <2>1
  <2>6. CASE n \notin S
    <3>1. S \cap (1 .. n) = S \cap (1 .. n - 1)
      BY <2>4, <2>5, <2>6
    <3> QED
      BY <1>2, <2>1, <3>1
  <2>7. CASE n \in S /\ S \cap (1 .. n - 1) = {}
    <3>1. n \in 1 .. n /\ S \cap (1 .. n) = {n}
      BY <2>1, <2>4, <2>7
    <3>2. \A d \in S \cap (1 .. n) : w[d] <= w[n]
      BY <2>2, <2>3, <2>7, <3>1
    <3> QED
      BY <2>1, <2>7, <3>1, <3>2
  <2>8. CASE n \in S /\ S \cap (1 .. n - 1) # {}
    <3>1. PICK c \in S \cap (1 .. n - 1) : \A d \in S \cap (1 .. n - 1) : w[d] <= w[c]
      BY <1>2, <2>8
    <3>2. /\ n \in S \cap (1 .. n) /\ c \in S \cap (1 .. n) /\ w[c] \in Nat /\ w[n] \in Nat
      BY <2>1, <2>2, <2>3, <2>5, <2>8, <3>1
    <3>3. CASE w[c] <= w[n]
      <4>1. ASSUME NEW d \in S \cap (1 .. n) PROVE w[d] <= w[n]
        <5>1. w[d] \in Nat /\ (d = n \/ w[d] <= w[c])
          BY <2>2, <2>3, <2>4, <3>1
        <5> QED
          BY <3>2, <3>3, <5>1
      <4> QED
        BY <2>1, <3>2, <4>1
    <3>4. CASE w[n] <= w[c]
      <4>1. ASSUME NEW d \in S \cap (1 .. n) PROVE w[d] <= w[c]
        BY <2>4, <3>1, <3>4
      <4> QED
        BY <2>1, <3>2, <4>1
    <3> QED
      BY <3>2, <3>3, <3>4
  <2> QED
    BY <2>6, <2>7, <2>8
<1>3. MaxChecks \in T
  <2>1. T \in SUBSET (0 .. MaxChecks) /\ \A k \in Checks : k - 1 \in T => k \in T
    BY <1>2
  <2> HIDE DEF T
  <2> QED
    BY <1>1, <2>1, Upwards
<1>4. S \cap (1 .. MaxChecks) = S
  BY DEF Checks
<1> QED
  BY <1>3, <1>4

-----------------------------------------------------------------------------
(* What is on air *)
Answers == {task[t].check : t \in Alive}

(* For how long from now until a task stops its broadcast *)
Rest(pc) ==
  CASE pc = "scan_off" -> ScanDelay + ParamDelay + DataDelay + AirTime
    [] pc = "params"   -> ParamDelay + DataDelay + AirTime
    [] pc = "data"     -> DataDelay + AirTime
    [] pc = "adv_on"   -> AirTime
    [] OTHER           -> 0
Due(t) == Rest(task[t].pc) + task[t].wait

AirTypes ==
  /\ checks \in 0 .. MaxChecks /\ shared \subseteq 1 .. checks
  /\ aired \in Counts /\ \A c \in Checks : c > checks => aired[c] = 0
  /\ \A t \in Alive : /\ task[t].check \in 1 .. checks
                      /\ Due(t) <= SafetyDelay + Rest("scan_off")
                      /\ task[t].pc = "scan_on" => task[t].wait = 0

(* Two tasks alive have met. *)
Met ==
  \A s, t \in Alive : s # t => task[s].check # task[t].check /\ task[s].check \in shared

(* What is broadcast is the answer of a task that is alive or has met one that is. *)
OnAir ==
  /\ controller.advertising => controller.params /\ controller.data \in shared \cup Answers
  /\ \A t \in Tasks :
       /\ task[t].pc \in {"data", "adv_on", "adv_off"} => controller.params
       /\ task[t].pc \in {"adv_on", "adv_off"} => controller.data \in shared \cup Answers

(* A task that has met no other has been on air for as long as its position tells. *)
Lone ==
  \A t \in Alive : task[t].check \notin shared =>
    /\ task[t].pc \in {"scan_off", "params", "data", "adv_on"} =>
         ~controller.advertising /\ aired[task[t].check] = 0
    /\ task[t].pc = "adv_on" => controller.data = task[t].check
    /\ task[t].pc = "adv_off" => /\ controller.advertising /\ controller.data = task[t].check
                                 /\ aired[task[t].check] + task[t].wait = AirTime
    /\ task[t].pc = "scan_on" => ~controller.advertising /\ aired[task[t].check] = AirTime

Gone == \A c \in 1 .. checks : c \notin shared \cup Answers => aired[c] \in {0, AirTime}

(* Of tasks that met, the one that is due first keeps the broadcast on until then,
   whoever's data it carries. *)
Weights == [c \in Checks |-> IF c \in shared THEN aired[c] ELSE 0]
Leads(t) ==
  /\ t \in Alive /\ task[t].check \in shared /\ Due(t) > 0 /\ \A s \in Alive : Due(t) <= Due(s)
  /\ AirTime <= Total(Weights) + Due(t)
  /\ task[t].pc = "adv_off" => controller.advertising
Covered == shared # {} => AirTime <= Total(Weights) \/ \E t \in Tasks : Leads(t)

Airs == AirTypes /\ Met /\ OnAir /\ Lone /\ Gone /\ Covered

AirInv ==
  /\ rx.pc \in Starting => checks = 0 /\ shared = {} /\ aired = [c \in Checks |-> 0]
  /\ rx.pc = "up" => Airs

LEMMA RestType == \A pc \in Points : Rest(pc) \in Nat
BY DEF Rest, Points

LEMMA WeightsType == AirTypes => Weights \in Counts /\ Total(Weights) \in Nat
BY SumsExist DEF AirTypes, Weights, Counts

LEMMA DueType ==
  ASSUME Typed, NEW t \in Tasks
  PROVE  Due(t) \in Nat
<1>1. Rest(task[t].pc) \in Nat /\ task[t].wait \in Nat
  BY RestType DEF Typed
<1> QED
  BY <1>1 DEF Due

(* With no task alive, the answers that met had the air for as long as one takes, so the
   one that had most of it had its part. *)
LEMMA AirsOnAir ==
  ASSUME Inv, AirInv
  PROVE  AckOnAir
<1> SUFFICES ASSUME Quiet PROVE
      /\ \A c \in 1 .. checks : c \notin shared => aired[c] \in {0, AirTime}
      /\ shared # {} => \E c \in shared : Cardinality(shared) * aired[c] >= AirTime
  BY DEF AckOnAir
<1>1. Airs /\ Alive = {}
  BY DEF Quiet, AirInv
<1>2. \A c \in 1 .. checks : c \notin shared => aired[c] \in {0, AirTime}
  BY <1>1 DEF Airs, Gone, Answers
<1>3. ASSUME shared # {}
      PROVE  \E c \in shared : Cardinality(shared) * aired[c] >= AirTime
  <2>1. /\ AirTime <= Total(Weights) /\ Weights \in Counts /\ Total(Weights) \in Nat
        /\ shared \subseteq Checks /\ aired \in Counts
    BY <1>1, <1>3, WeightsType DEF Airs, Covered, Leads, AirTypes, Checks
  <2>2. PICK c \in shared : \A d \in shared : aired[d] <= aired[c]
    BY <1>3, <2>1, LargestOne
  <2>3. aired[c] \in Nat /\ \A k \in shared : Weights[k] <= aired[c]
    BY <2>1, <2>2 DEF Weights, Counts
  <2>4. \A k \in Checks \ shared : Weights[k] = 0
    BY DEF Weights
  <2>5. Cardinality(shared) \in Nat /\ Total(Weights) <= Cardinality(shared) * aired[c]
    BY <2>1, <2>3, <2>4, SumBelow
  <2>6. PICK p \in Nat : p = Cardinality(shared) * aired[c]
    BY <2>3, <2>5
  <2>7. AirTime <= p
    BY <2>1, <2>5, <2>6
  <2> QED
    BY <2>6, <2>7
<1> QED
  BY <1>2, <1>3

LEMMA AirInvInit == AckInit => AirInv
BY DEF AckInit, AirInv, Starting, Checks

LEMMA AirReceiver ==
  ASSUME Inv, AirInv, Receiver
  PROVE  AirInv'
<1>1. UNCHANGED <<task, checks, aired>> /\ (rx.pc = "up" \/ UNCHANGED shared)
  BY DEF Receiver, RInit, RReset, RMask, RParams, REnable, RStop, RScanOff, RDeinit,
         HistoryUnchanged, Rx
<1>0. \/ rx.pc = "init" /\ rx'.pc \in {"reset", "failed"}
      \/ rx.pc = "reset" /\ rx'.pc = "mask"
      \/ rx.pc = "mask" /\ rx'.pc = "params"
      \/ rx.pc = "params" /\ rx'.pc = "enable"
      \/ rx.pc = "enable" /\ rx'.pc = "up" /\ SetScanEnabled(TRUE)
      \/ rx.pc \in {"up", "stop", "deinit"} /\ rx'.pc \in {"stop", "deinit", "down"}
  <2>1. \A from, to, wait : Rx(from, to, wait) => rx.pc = from /\ rx'.pc = to
    BY DEF Rx
  <2> QED
    BY <2>1 DEF Receiver, RInit, RReset, RMask, RParams, REnable, RStop, RScanOff, RDeinit
<1>2. CASE rx'.pc \in Starting
  <2>1. rx.pc \in Starting
    BY <1>0, <1>2 DEF Starting
  <2> QED
    BY <1>1, <1>2, <2>1 DEF AirInv, Starting
<1>3. CASE rx'.pc = "up"
  <2>1. rx.pc = "enable" /\ SetScanEnabled(TRUE)
    BY <1>0, <1>3
  <2>2. /\ checks' = 0 /\ shared' = {} /\ aired' = [c \in Checks |-> 0]
        /\ \A t \in Tasks : task'[t].pc = "idle"
    BY <1>1, <2>1 DEF AirInv, Inv, Prepared, Starting
  <2>3. ~controller'.advertising
    <3>1. ~controller.advertising
      BY <1>1, <2>2 DEF Inv, Ending
    <3> QED
      BY <2>1, <3>1 DEF SetScanEnabled, Hci, Inv, Typed
  <2>4. Alive' = {} /\ Answers' = {}
    BY <2>2 DEF Alive, Answers
  <2>5. AirTypes' /\ Met' /\ Lone' /\ Covered'
    BY <2>2, <2>4 DEF AirTypes, Met, Lone, Covered, Counts
  <2>6. OnAir' /\ Gone'
    BY <2>2, <2>3 DEF OnAir, Gone
  <2> QED
    BY <1>3, <2>5, <2>6 DEF AirInv, Airs, Starting
<1> QED
  BY <1>2, <1>3 DEF AirInv

(* A step of a task that stays alive *)
LEMMA AirGoto ==
  ASSUME Typed, Airs, NEW t \in Tasks, NEW from \in Points \ {"idle"},
         NEW to \in Points \ {"idle"}, NEW wait \in Nat, Goto(t, from, to, wait), Rest(from) = Rest(to) + wait,
         to = "scan_on" => wait = 0, UNCHANGED <<checks, aired, shared>>
  PROVE  /\ AirTypes' /\ Met' /\ Gone' /\ Alive' = Alive /\ Answers' = Answers
         /\ Weights' = Weights /\ task'[t].pc = to /\ task'[t].wait = wait
         /\ \A s \in Tasks : task'[s].check = task[s].check /\ Due(s)' = Due(s)
         /\ \A s \in Tasks \ {t} : task'[s] = task[s]
<1>1. /\ task[t].pc = from /\ task[t].wait = 0
      /\ task'[t] = [task[t] EXCEPT !.pc = to, !.wait = wait]
      /\ \A s \in Tasks \ {t} : task'[s] = task[s]
  BY DEF Goto, Typed
<1>2. task'[t].pc = to /\ task'[t].wait = wait /\ task'[t].check = task[t].check
  BY <1>1 DEF Typed
<1>3. \A s \in Tasks : task'[s].check = task[s].check
  BY <1>1, <1>2
<1>4. Alive' = Alive /\ t \in Alive
  <2>1. \A s \in Tasks : task'[s].pc # "idle" <=> task[s].pc # "idle"
    BY <1>1, <1>2
  <2> QED
    BY <1>1, <2>1 DEF Alive
<1>5. Answers' = Answers
  BY <1>3, <1>4 DEF Answers, Alive
<1>6. Rest(to) \in Nat
  BY RestType
<1>7. \A s \in Tasks : Due(s)' = Due(s)
  <2>1. Due(t)' = Due(t)
    BY <1>1, <1>2, <1>6 DEF Due
  <2> QED
    BY <1>1, <2>1 DEF Due
<1>8. \A s \in Alive : s \in Tasks
  BY DEF Alive
<1>9. AirTypes'
  <2>1. \A s \in Alive : task'[s].pc = "scan_on" => task'[s].wait = 0
    BY <1>1, <1>2, <1>8 DEF Airs, AirTypes
  <2> QED
    BY <1>3, <1>4, <1>7, <1>8, <2>1 DEF Airs, AirTypes
<1>10. Met' /\ Gone'
  BY <1>3, <1>4, <1>5, <1>8 DEF Airs, Met, Gone
<1>11. Weights' = Weights
  BY DEF Weights
<1> QED
  BY <1>1, <1>2, <1>3, <1>4, <1>5, <1>7, <1>9, <1>10, <1>11

LEMMA CoveredStill ==
  ASSUME Airs, shared' = shared, Weights' = Weights, Alive' = Alive,
         \A s \in Tasks : task'[s].check = task[s].check /\ Due(s)' = Due(s),
         \A s \in Tasks : Leads(s) /\ task'[s].pc = "adv_off" => controller'.advertising
  PROVE  Covered'
<1>1. \A s \in Tasks : Leads(s) => Leads(s)'
  BY DEF Leads, Alive
<1> QED
  BY <1>1 DEF Airs, Covered

(* A task that is due stops the broadcast: nobody leads any more. *)
LEMMA DueLast ==
  ASSUME Typed, NEW t \in Alive, Due(t) = 0
  PROVE  \A s \in Tasks : ~Leads(s)
<1>1. ASSUME NEW s \in Tasks, Leads(s) PROVE FALSE
  <2>1. Due(s) > 0 /\ Due(s) <= Due(t) /\ Due(s) \in Nat
    BY <1>1, DueType DEF Leads
  <2> QED
    BY <2>1
<1> QED
  BY <1>1

(* What the commands to the controller change *)
LEMMA Commands ==
  ASSUME Typed, controller.up, NEW b \in BOOLEAN, NEW d \in Nat
  PROVE  /\ SetScanEnabled(b) => /\ controller'.advertising = controller.advertising
                                 /\ controller'.params = controller.params
                                 /\ controller'.data = controller.data
         /\ SetAckAdvParams => /\ controller'.advertising = controller.advertising
                               /\ controller'.params /\ controller'.data = controller.data
         /\ SetAdvData(d) => /\ controller'.advertising = controller.advertising
                             /\ controller'.params = controller.params /\ controller'.data = d
         /\ SetAdvEnabled(b) => /\ controller'.advertising = b
                                /\ controller'.params = controller.params
                                /\ controller'.data = controller.data
BY DEF Typed, SetScanEnabled, SetAckAdvParams, SetAdvData, SetAdvEnabled, Hci

LEMMA AirScanOff ==
  ASSUME Inv, Airs, rx.pc = "up", NEW t \in Tasks, ScanOff(t)
  PROVE  Airs'
<1>1. Goto(t, "scan_off", "params", ScanDelay) /\ UNCHANGED <<checks, aired, shared>>
  BY DEF ScanOff, HistoryUnchanged
<1>2. /\ AirTypes' /\ Met' /\ Gone' /\ Alive' = Alive /\ Answers' = Answers
      /\ Weights' = Weights /\ task'[t].pc = "params"
      /\ \A s \in Tasks : task'[s].check = task[s].check /\ Due(s)' = Due(s)
      /\ \A s \in Tasks \ {t} : task'[s] = task[s]
  <2>1. "scan_off" \in Points \ {"idle"} /\ "params" \in Points \ {"idle"} /\ ScanDelay \in Nat
    BY DEF Points
  <2>2. Rest("scan_off") = Rest("params") + ScanDelay
    BY DEF Rest
  <2>3. Typed
    BY DEF Inv
  <2> QED
    BY <1>1, <2>1, <2>2, <2>3, AirGoto
<1>3. /\ controller'.advertising = controller.advertising
      /\ controller'.params = controller.params /\ controller'.data = controller.data
  BY Commands DEF ScanOff, Inv, Prepared
<1>4. OnAir'
  BY <1>1, <1>2, <1>3 DEF Airs, OnAir
<1>5. Lone'
  <2>1. t \in Alive /\ task[t].pc = "scan_off"
    BY <1>1 DEF Goto, Alive
  <2>2. \A s \in Alive : s # t => task[s].check \in shared
    BY <2>1 DEF Airs, Met
  <2> QED
    BY <1>1, <1>2, <1>3, <2>1, <2>2 DEF Airs, Lone, Alive
<1>6. \A s \in Tasks : Leads(s) /\ task'[s].pc = "adv_off" => controller'.advertising
  BY <1>2, <1>3 DEF Leads
<1> QED
  BY <1>1, <1>2, <1>4, <1>5, <1>6, CoveredStill DEF Airs

LEMMA AirAdvParams ==
  ASSUME Inv, Airs, rx.pc = "up", NEW t \in Tasks, AdvParams(t)
  PROVE  Airs'
<1>1. Goto(t, "params", "data", ParamDelay) /\ UNCHANGED <<checks, aired, shared>>
  BY DEF AdvParams, HistoryUnchanged
<1>2. /\ AirTypes' /\ Met' /\ Gone' /\ Alive' = Alive /\ Answers' = Answers
      /\ Weights' = Weights /\ task'[t].pc = "data"
      /\ \A s \in Tasks : task'[s].check = task[s].check /\ Due(s)' = Due(s)
      /\ \A s \in Tasks \ {t} : task'[s] = task[s]
  <2>1. "params" \in Points \ {"idle"} /\ "data" \in Points \ {"idle"} /\ ParamDelay \in Nat
    BY DEF Points
  <2>2. Rest("params") = Rest("data") + ParamDelay
    BY DEF Rest
  <2>3. Typed
    BY DEF Inv
  <2> QED
    BY <1>1, <2>1, <2>2, <2>3, AirGoto
<1>3. /\ controller'.advertising = controller.advertising
      /\ controller'.params /\ controller'.data = controller.data
  <2>1. CASE controller.advertising
    BY <2>1 DEF AdvParams, Airs, OnAir
  <2>2. CASE ~controller.advertising
    BY <2>2, Commands DEF AdvParams, Inv, Prepared
  <2> QED
    BY <2>1, <2>2
<1>4. OnAir'
  BY <1>1, <1>2, <1>3 DEF Airs, OnAir
<1>5. Lone'
  <2>1. t \in Alive /\ task[t].pc = "params"
    BY <1>1 DEF Goto, Alive
  <2>2. \A s \in Alive : s # t => task[s].check \in shared
    BY <2>1 DEF Airs, Met
  <2> QED
    BY <1>1, <1>2, <1>3, <2>1, <2>2 DEF Airs, Lone, Alive
<1>6. \A s \in Tasks : Leads(s) /\ task'[s].pc = "adv_off" => controller'.advertising
  BY <1>2, <1>3 DEF Leads
<1> QED
  BY <1>1, <1>2, <1>4, <1>5, <1>6, CoveredStill DEF Airs

LEMMA AirAdvData ==
  ASSUME Inv, Airs, rx.pc = "up", NEW t \in Tasks, AdvData(t)
  PROVE  Airs'
<1>1. Goto(t, "data", "adv_on", DataDelay) /\ UNCHANGED <<checks, aired, shared>>
  BY DEF AdvData, HistoryUnchanged
<1>2. /\ AirTypes' /\ Met' /\ Gone' /\ Alive' = Alive /\ Answers' = Answers
      /\ Weights' = Weights /\ task'[t].pc = "adv_on"
      /\ \A s \in Tasks : task'[s].check = task[s].check /\ Due(s)' = Due(s)
      /\ \A s \in Tasks \ {t} : task'[s] = task[s]
  <2>1. "data" \in Points \ {"idle"} /\ "adv_on" \in Points \ {"idle"} /\ DataDelay \in Nat
    BY DEF Points
  <2>2. Rest("data") = Rest("adv_on") + DataDelay
    BY DEF Rest
  <2>3. Typed
    BY DEF Inv
  <2> QED
    BY <1>1, <2>1, <2>2, <2>3, AirGoto
<1>3. /\ controller'.advertising = controller.advertising
      /\ controller'.params = controller.params /\ controller'.data = task[t].check
  <2>1. task[t].check \in Nat
    BY DEF Inv, Typed
  <2> QED
    BY <2>1, Commands DEF AdvData, Inv, Prepared
<1>4. t \in Alive /\ task[t].pc = "data" /\ task[t].check \in Answers
  BY <1>1 DEF Goto, Alive, Answers
<1>5. OnAir'
  BY <1>1, <1>2, <1>3, <1>4 DEF Airs, OnAir, Goto
<1>6. \A s \in Alive : s # t => task[s].check \in shared
  BY <1>4 DEF Airs, Met
<1>7. Lone'
  BY <1>1, <1>2, <1>3, <1>4, <1>6 DEF Airs, Lone, Alive
<1>8. \A s \in Tasks : Leads(s) /\ task'[s].pc = "adv_off" => controller'.advertising
  BY <1>2, <1>3 DEF Leads
<1> QED
  BY <1>1, <1>2, <1>5, <1>7, <1>8, CoveredStill DEF Airs

LEMMA AirAdvOn ==
  ASSUME Inv, Airs, rx.pc = "up", NEW t \in Tasks, AdvOn(t)
  PROVE  Airs'
<1>1. Goto(t, "adv_on", "adv_off", AirTime) /\ UNCHANGED <<checks, aired, shared>>
  BY DEF AdvOn, HistoryUnchanged
<1>2. /\ AirTypes' /\ Met' /\ Gone' /\ Alive' = Alive /\ Answers' = Answers
      /\ Weights' = Weights /\ task'[t].pc = "adv_off" /\ task'[t].wait = AirTime
      /\ \A s \in Tasks : task'[s].check = task[s].check /\ Due(s)' = Due(s)
      /\ \A s \in Tasks \ {t} : task'[s] = task[s]
  <2>1. "adv_on" \in Points \ {"idle"} /\ "adv_off" \in Points \ {"idle"} /\ AirTime \in Nat
    BY DEF Points
  <2>2. Rest("adv_on") = Rest("adv_off") + AirTime
    BY DEF Rest
  <2>3. Typed
    BY DEF Inv
  <2> QED
    BY <1>1, <2>1, <2>2, <2>3, AirGoto
<1>3. /\ controller'.advertising /\ controller'.params = controller.params
      /\ controller'.data = controller.data
  BY Commands DEF AdvOn, Inv, Prepared
<1>4. t \in Alive /\ task[t].pc = "adv_on"
  BY <1>1 DEF Goto, Alive
<1>5. OnAir'
  BY <1>1, <1>2, <1>3, <1>4 DEF Airs, OnAir
<1>6. \A s \in Alive : s # t => task[s].check \in shared
  BY <1>4 DEF Airs, Met
<1>7. Lone'
  BY <1>1, <1>2, <1>3, <1>4, <1>6 DEF Airs, Lone, Alive
<1>8. \A s \in Tasks : Leads(s) /\ task'[s].pc = "adv_off" => controller'.advertising
  BY <1>3
<1> QED
  BY <1>1, <1>2, <1>5, <1>7, <1>8, CoveredStill DEF Airs

LEMMA AirAdvOff ==
  ASSUME Inv, Airs, rx.pc = "up", NEW t \in Tasks, AdvOff(t)
  PROVE  Airs'
<1>1. Goto(t, "adv_off", "scan_on", 0) /\ UNCHANGED <<checks, aired, shared>>
  BY DEF AdvOff, HistoryUnchanged
<1>2. /\ AirTypes' /\ Met' /\ Gone' /\ Alive' = Alive /\ Answers' = Answers
      /\ Weights' = Weights /\ task'[t].pc = "scan_on" /\ task'[t].wait = 0
      /\ \A s \in Tasks : task'[s].check = task[s].check /\ Due(s)' = Due(s)
      /\ \A s \in Tasks \ {t} : task'[s] = task[s]
  BY <1>1, AirGoto DEF Inv, Points, Rest
<1>3. /\ ~controller'.advertising /\ controller'.params = controller.params
      /\ controller'.data = controller.data
  BY Commands DEF AdvOff, Inv, Prepared
<1>4. t \in Alive /\ task[t].pc = "adv_off" /\ task[t].wait = 0
  BY <1>1 DEF Goto, Alive
<1>5. OnAir'
  BY <1>1, <1>2, <1>3, <1>4 DEF Airs, OnAir
<1>6. \A s \in Alive : s # t => task[s].check \in shared
  BY <1>4 DEF Airs, Met
<1>7. Lone'
  <2>1. task[t].check \notin shared => aired[task[t].check] = AirTime
    <3>1. task[t].check \notin shared => aired[task[t].check] + 0 = AirTime
      BY <1>4 DEF Airs, Lone
    <3>2. aired[task[t].check] \in Nat
      BY <1>4 DEF Airs, AirTypes, Counts, Checks
    <3> QED
      BY <3>1, <3>2
  <2> QED
    BY <1>1, <1>2, <1>3, <1>4, <1>6, <2>1 DEF Lone, Alive
<1>8. \A s \in Tasks : ~Leads(s)
  <2>1. Due(t) = 0
    BY <1>4 DEF Due, Rest
  <2> QED
    BY <1>4, <2>1, DueLast DEF Inv
<1> QED
  BY <1>1, <1>2, <1>5, <1>7, <1>8, CoveredStill DEF Airs

LEMMA AirScanOn ==
  ASSUME Inv, Airs, rx.pc = "up", NEW t \in Tasks, ScanOn(t)
  PROVE  Airs'
<1>1. /\ task[t].pc = "scan_on" /\ UNCHANGED <<checks, aired, shared>>
      /\ task'[t] = Idle /\ \A s \in Tasks \ {t} : task'[s] = task[s]
  BY DEF ScanOn, Inv, Typed
<1>2. /\ controller'.advertising = controller.advertising
      /\ controller'.params = controller.params /\ controller'.data = controller.data
  BY Commands DEF ScanOn, Inv, Prepared
<1>3. t \in Alive /\ Alive' = Alive \ {t}
  BY <1>1 DEF Alive, Idle
<1>4. \A s \in Alive : /\ s \in Tasks
                      /\ s # t => task[s].check \in shared /\ task[t].check \in shared
  BY <1>3 DEF Airs, Met, Alive
<1>5. \A s \in Alive' : /\ s \in Alive /\ s \in Tasks \ {t} /\ task'[s] = task[s]
                       /\ Due(s)' = Due(s)
  <2>1. \A s \in Tasks \ {t} : Due(s)' = Due(s)
    BY <1>1 DEF Due
  <2>2. \A s \in Alive' : s \in Alive /\ s \in Tasks \ {t}
    <3>1. \A s \in Alive : s \in Tasks
      BY DEF Alive
    <3> QED
      BY <1>3, <3>1
  <2> QED
    BY <1>1, <2>1, <2>2
<1>6. \A c \in Answers : c \in Answers' \/ c = task[t].check
  BY <1>3, <1>5 DEF Answers
<1>7. task[t].check \notin shared => ~controller.advertising /\ aired[task[t].check] = AirTime
  BY <1>1, <1>3 DEF Airs, Lone
<1>8. AirTypes' /\ Met'
  BY <1>1, <1>5 DEF Airs, AirTypes, Met
<1>9. OnAir'
  <2>1. controller'.advertising =>
          controller'.params /\ controller'.data \in shared' \cup Answers'
    BY <1>1, <1>2, <1>6, <1>7 DEF Airs, OnAir
  <2>2. ASSUME NEW s \in Tasks, task'[s].pc \in {"data", "adv_on", "adv_off"}
        PROVE  /\ controller'.params
               /\ task'[s].pc \in {"adv_on", "adv_off"} =>
                    controller'.data \in shared' \cup Answers'
    <3>1. s \in Alive /\ s # t /\ task'[s] = task[s]
      BY <1>1, <2>2 DEF Idle, Alive
    <3>2. task[t].check \in shared
      BY <1>4, <3>1
    <3> QED
      BY <1>1, <1>2, <1>6, <2>2, <3>1, <3>2 DEF Airs, OnAir
  <2> QED
    BY <2>1, <2>2 DEF OnAir
<1>10. Lone'
  BY <1>1, <1>4, <1>5 DEF Lone
<1>11. Gone'
  BY <1>1, <1>6, <1>7 DEF Airs, Gone
<1>12. Covered'
  <2>1. Due(t) = 0
    BY <1>1, <1>3 DEF Airs, AirTypes, Due, Rest
  <2>2. shared # {} => AirTime <= Total(Weights)
    BY <1>3, <2>1, DueLast DEF Airs, Covered, Inv
  <2>3. Weights' = Weights
    BY <1>1 DEF Weights
  <2> QED
    BY <1>1, <2>2, <2>3 DEF Covered
<1> QED
  BY <1>8, <1>9, <1>10, <1>11, <1>12 DEF Airs

(* A CHECK whose task could not be created *)
LEMMA AirNoTask ==
  ASSUME Inv, Airs, rx.pc = "up", checks < MaxChecks, checks' = checks + 1,
         UNCHANGED <<task, shared, controller, aired>>
  PROVE  Airs'
<1>1. checks \in Nat /\ checks + 1 \in Checks /\ aired[checks + 1] = 0
  BY DEF Airs, AirTypes, Checks
<1>2. Alive' = Alive /\ Answers' = Answers /\ Weights' = Weights
  BY DEF Alive, Answers, Weights
<1>3. \A s \in Tasks : Due(s)' = Due(s)
  BY DEF Due
<1>4. AirTypes'
  <2>1. /\ checks + 1 \in 0 .. MaxChecks /\ \A k \in 1 .. checks : k \in 1 .. checks + 1
        /\ \A c \in Checks : c > checks + 1 => c > checks
    BY <1>1 DEF Checks
  <2>2. \A s \in Alive : s \in Tasks
    BY DEF Alive
  <2> QED
    BY <1>2, <1>3, <2>1, <2>2 DEF Airs, AirTypes
<1>5. Met' /\ OnAir' /\ Lone'
  BY <1>2 DEF Airs, Met, OnAir, Lone
<1>6. Gone'
  BY <1>1, <1>2 DEF Airs, Gone
<1>7. Covered'
  BY <1>2, <1>3, CoveredStill DEF Leads, Airs
<1> QED
  BY <1>4, <1>5, <1>6, <1>7 DEF Airs

LEMMA AirNewTask ==
  ASSUME Inv, Airs, rx.pc = "up", NEW t \in Tasks, task[t].pc = "idle", checks < MaxChecks,
         checks' = checks + 1, UNCHANGED <<controller, aired>>,
         task' = [task EXCEPT ![t] = [pc |-> "scan_off", wait |-> SafetyDelay,
                                      check |-> checks + 1]],
         shared' = IF Alive = {} THEN shared
                   ELSE shared \cup {checks + 1} \cup {task[s].check : s \in Alive}
  PROVE  Airs'
<1>1. checks \in Nat /\ checks + 1 \in Checks /\ aired[checks + 1] = 0
  BY DEF Airs, AirTypes, Checks
<1>2. /\ task'[t].pc = "scan_off" /\ task'[t].wait = SafetyDelay /\ task'[t].check = checks + 1
      /\ \A s \in Tasks \ {t} : task'[s] = task[s]
  BY DEF Inv, Typed
<1>3. t \notin Alive /\ Alive' = Alive \cup {t}
  BY <1>2 DEF Alive
<1>4. \A s \in Alive : s \in Tasks \ {t} /\ task'[s] = task[s] /\ Due(s)' = Due(s)
  BY <1>2 DEF Alive, Due
<1>5. Answers' = Answers \cup {checks + 1}
  BY <1>2, <1>3, <1>4 DEF Answers
<1>6. /\ shared \subseteq shared' /\ shared' \subseteq 1 .. checks + 1
      /\ Alive # {} => \A s \in Alive' : task'[s].check \in shared'
  <2>1. checks + 1 \in 1 .. checks + 1 /\ \A k \in 1 .. checks : k \in 1 .. checks + 1
    BY <1>1
  <2>2. shared \subseteq 1 .. checks /\ \A s \in Alive : task[s].check \in 1 .. checks
    BY DEF Airs, AirTypes
  <2>3. shared' \subseteq 1 .. checks + 1
    BY <2>1, <2>2
  <2>4. Alive # {} => \A s \in Alive' : task'[s].check \in shared'
    BY <1>2, <1>3, <1>4
  <2> QED
    BY <2>3, <2>4
<1>7. Due(t)' = SafetyDelay + Rest("scan_off")
  BY <1>2 DEF Due, Rest
<1>8. Rest("scan_off") \in Nat /\ \A s \in Alive : Due(s) \in Nat /\ Due(s) <= Due(t)'
  BY <1>4, <1>7, RestType, DueType DEF Airs, AirTypes, Inv, Points
<1>9. AirTypes'
  <2>1. ASSUME NEW s \in Alive'
        PROVE  /\ task'[s].check \in 1 .. checks' /\ Due(s)' <= SafetyDelay + Rest("scan_off")
               /\ task'[s].pc = "scan_on" => task'[s].wait = 0
    BY <1>1, <1>2, <1>3, <1>4, <1>7, <1>8 DEF Airs, AirTypes
  <2>2. checks + 1 \in 0 .. MaxChecks /\ \A c \in Checks : c > checks + 1 => c > checks
    BY <1>1 DEF Checks
  <2> QED
    BY <1>6, <2>1, <2>2 DEF Airs, AirTypes
<1>10. Met'
  <2>1. ASSUME NEW s \in Alive', NEW u \in Alive', s # u
        PROVE  task'[s].check # task'[u].check /\ task'[s].check \in shared'
    <3>1. Alive # {}
      BY <1>3, <2>1
    <3>2. \A v \in Alive : task[v].check \in 1 .. checks
      BY DEF Airs, AirTypes
    <3>3. \A v \in Alive : task'[v].check # task'[t].check
      BY <1>1, <1>2, <1>4, <3>2
    <3>4. task'[s].check # task'[u].check
      BY <1>3, <1>4, <2>1, <3>3 DEF Airs, Met
    <3> QED
      BY <1>6, <3>1, <3>4
  <2> QED
    BY <2>1 DEF Met
<1>11. OnAir'
  <2>1. \A s \in Tasks : task'[s].pc \in {"data", "adv_on", "adv_off"} => task'[s] = task[s]
    BY <1>2
  <2> QED
    BY <1>5, <1>6, <2>1 DEF Airs, OnAir
<1>12. Lone'
  <2>1. CASE Alive # {}
    BY <1>6, <2>1 DEF Lone
  <2>2. CASE Alive = {}
    <3>1. ~controller.advertising
      BY <2>2 DEF Inv, Ending, Alive
    <3> QED
      BY <1>1, <1>2, <1>3, <2>2, <3>1 DEF Lone
  <2> QED
    BY <2>1, <2>2
<1>13. Gone'
  <2>1. \A c \in 1 .. checks + 1 : c \notin Answers' => c \in 1 .. checks
    BY <1>1, <1>5
  <2> QED
    BY <1>5, <1>6, <2>1 DEF Airs, Gone
<1>14. /\ Weights \in Counts /\ Weights' \in Counts
       /\ Total(Weights) \in Nat /\ Total(Weights') \in Nat
  BY <1>9, WeightsType, SumsExist DEF Airs, AirTypes, Weights, Counts
<1>15. Total(Weights) <= Total(Weights')
  <2>1. \A k \in Checks : Weights[k] <= Weights'[k]
    BY <1>6, <1>14 DEF Weights, Counts, Airs, AirTypes
  <2> QED
    BY <1>14, <2>1, SumGrows
<1>16. ASSUME NEW s \in Alive, \A u \in Alive : Due(s) <= Due(u), Due(s) > 0,
              AirTime <= Total(Weights') + Due(s),
              task[s].pc = "adv_off" => controller.advertising
       PROVE  Covered'
  <2>1. s \in Tasks /\ s \in Alive' /\ task'[s].check \in shared'
    BY <1>3, <1>4, <1>6, <1>16
  <2>2. \A u \in Alive' : Due(s)' <= Due(u)'
    BY <1>3, <1>4, <1>8, <1>16
  <2>3. Leads(s)'
    BY <1>4, <1>16, <2>1, <2>2 DEF Leads
  <2> QED
    BY <2>1, <2>3 DEF Covered
<1>17. Covered'
  <2>1. CASE Alive = {}
    <3>1. shared' = shared /\ Weights' = Weights /\ \A s \in Tasks : ~Leads(s)
      BY <2>1 DEF Weights, Leads
    <3> QED
      BY <3>1 DEF Airs, Covered
  <2>2. CASE shared # {} /\ AirTime <= Total(Weights)
    BY <1>14, <1>15, <2>2 DEF Covered
  <2>3. ASSUME NEW s \in Tasks, Leads(s) PROVE Covered'
    <3>1. AirTime <= Total(Weights') + Due(s)
      BY <1>8, <1>14, <1>15, <2>3 DEF Leads
    <3> QED
      BY <1>16, <2>3, <3>1 DEF Leads
  <2>4. CASE Alive # {} /\ shared = {}
    <3>1. PICK s \in Alive : TRUE
      BY <2>4
    <3>2. /\ s \in Tasks /\ task[s].check \notin shared /\ task[s].check \in shared'
          /\ task[s].check \in Checks /\ \A u \in Alive : u = s
      BY <1>1, <1>4, <2>4, <3>1 DEF Airs, Met, AirTypes, Checks
    <3>3. Weights'[task[s].check] = aired[task[s].check] /\ aired[task[s].check] \in Nat
      BY <3>2 DEF Weights, Airs, AirTypes, Counts
    <3>4. aired[task[s].check] <= Total(Weights')
      BY <1>14, <3>2, <3>3, SumAbove
    <3>5. task[s].pc \in Points \ {"idle"} /\ task[s].wait \in Nat /\ Due(s) \in Nat
      BY <1>8, <3>1, <3>2 DEF Alive, Inv, Typed
    <3>6. CASE task[s].pc = "scan_on" \/ (task[s].pc = "adv_off" /\ task[s].wait = 0)
      <4>1. aired[task[s].check] = AirTime
        BY <3>1, <3>2, <3>3, <3>6 DEF Airs, Lone
      <4> QED
        BY <3>4, <4>1 DEF Covered
    <3>7. CASE task[s].pc = "adv_off" /\ task[s].wait # 0
      <4>1. Due(s) = task[s].wait
        BY <3>5, <3>7 DEF Due, Rest
      <4>2. controller.advertising /\ aired[task[s].check] + task[s].wait = AirTime
        BY <3>1, <3>2, <3>7 DEF Airs, Lone
      <4>3. AirTime <= Total(Weights') + Due(s) /\ Due(s) > 0
        BY <1>14, <3>3, <3>4, <3>5, <3>7, <4>1, <4>2
      <4> QED
        BY <1>16, <3>1, <3>2, <3>5, <4>2, <4>3
    <3>8. CASE task[s].pc \in {"scan_off", "params", "data", "adv_on"}
      <4>1. Rest(task[s].pc) \in Nat /\ AirTime <= Rest(task[s].pc)
        BY <3>8 DEF Rest
      <4>2. AirTime <= Total(Weights') + Due(s) /\ Due(s) > 0
        BY <1>14, <3>5, <4>1 DEF Due
      <4> QED
        BY <1>16, <3>1, <3>2, <3>5, <3>8, <4>2
    <3> QED
      BY <3>5, <3>6, <3>7, <3>8 DEF Points
  <2> QED
    BY <2>1, <2>2, <2>3, <2>4 DEF Airs, Covered
<1> QED
  BY <1>9, <1>10, <1>11, <1>12, <1>13, <1>17 DEF Airs

LEMMA AirElapse ==
  ASSUME Inv, Airs, rx.pc = "up", Elapse
  PROVE  Airs'
<1>1. /\ UNCHANGED <<controller, checks, shared>>
      /\ aired' = [c \in Checks |-> IF controller.advertising /\ controller.params
                                       /\ controller.data = c
                                    THEN aired[c] + 1 ELSE aired[c]]
  BY DEF Elapse
<1>2. \A s \in Tasks : /\ task'[s].pc = task[s].pc /\ task'[s].check = task[s].check
                       /\ task'[s].wait = IF task[s].wait > 0 THEN task[s].wait - 1 ELSE 0
                       /\ task[s].wait \in Nat
  BY DEF Elapse, Less, Inv, Typed
<1>3. Alive' = Alive /\ Answers' = Answers
  BY <1>2 DEF Alive, Answers
<1>4. \A s \in Alive : s \in Tasks /\ task[s].wait > 0
  BY DEF Elapse, Waiting, Alive, Inv, Typed, Points
<1>5. \A s \in Alive : /\ task[s].pc # "scan_on" /\ task'[s].wait = task[s].wait - 1
                       /\ Due(s) \in Nat /\ Due(s)' = Due(s) - 1
  <2>1. \A s \in Alive : task[s].pc # "scan_on" /\ task'[s].wait = task[s].wait - 1
    BY <1>2, <1>4 DEF Airs, AirTypes
  <2>2. \A s \in Alive : Rest(task[s].pc) \in Nat
    BY <1>4, RestType DEF Inv, Typed
  <2> QED
    BY <1>2, <1>4, <2>1, <2>2 DEF Due
<1>6. aired \in Counts /\ aired' \in Counts
  BY <1>1 DEF Airs, AirTypes, Counts
<1>7. \A c \in 1 .. checks : c \in Checks
  BY DEF Airs, AirTypes, Checks
<1>8. controller.advertising => controller.data \in shared \cup Answers
  BY DEF Airs, OnAir
<1>9. AirTypes'
  <2>1. ASSUME NEW c \in Checks, c > checks PROVE aired'[c] = 0
    <3>1. aired[c] = 0 /\ c \notin 1 .. checks
      BY <2>1 DEF Airs, AirTypes, Checks
    <3>2. c \notin shared \cup Answers
      BY <3>1 DEF Airs, AirTypes, Answers
    <3> QED
      BY <1>1, <1>8, <3>1, <3>2
  <2>2. \A s \in Alive : Due(s)' <= SafetyDelay + Rest("scan_off")
    BY <1>5, RestType DEF Airs, AirTypes, Points
  <2> QED
    BY <1>1, <1>2, <1>3, <1>4, <1>5, <1>6, <2>1, <2>2 DEF Airs, AirTypes
<1>10. Met' /\ OnAir'
  BY <1>1, <1>2, <1>3, <1>4 DEF Airs, Met, OnAir
<1>11. Lone'
  <2>1. ASSUME NEW s \in Alive, task[s].check \notin shared,
               task[s].pc \in {"scan_off", "params", "data", "adv_on"}
        PROVE  ~controller.advertising /\ aired'[task[s].check] = 0
    <3>1. ~controller.advertising /\ aired[task[s].check] = 0 /\ task[s].check \in Checks
      BY <1>7, <2>1 DEF Airs, Lone, AirTypes
    <3> QED
      BY <1>1, <3>1
  <2>2. ASSUME NEW s \in Alive, task[s].check \notin shared, task[s].pc = "adv_off"
        PROVE  /\ controller.advertising /\ controller.data = task[s].check
               /\ aired'[task[s].check] + task'[s].wait = AirTime
    <3>1. /\ controller.advertising /\ controller.data = task[s].check
          /\ aired[task[s].check] + task[s].wait = AirTime /\ task[s].check \in Checks
      BY <1>7, <2>2 DEF Airs, Lone, AirTypes
    <3>2. controller.params
      BY <1>4, <2>2 DEF Airs, OnAir
    <3>3. aired'[task[s].check] = aired[task[s].check] + 1 /\ aired[task[s].check] \in Nat
      BY <1>1, <1>6, <3>1, <3>2 DEF Counts
    <3> QED
      BY <1>2, <1>4, <1>5, <3>1, <3>3
  <2>3. \A s \in Alive : task[s].pc = "adv_on" /\ task[s].check \notin shared =>
                          controller.data = task[s].check
    BY DEF Airs, Lone
  <2> QED
    BY <1>1, <1>2, <1>3, <1>4, <1>5, <2>1, <2>2, <2>3 DEF Lone
<1>12. Gone'
  BY <1>1, <1>3, <1>7, <1>8 DEF Airs, Gone
<1>13. /\ Weights \in Counts /\ Weights' \in Counts
       /\ Total(Weights) \in Nat /\ Total(Weights') \in Nat
  BY <1>9, WeightsType, SumsExist DEF Airs, AirTypes, Weights, Counts
<1>14. \A k \in Checks : Weights[k] <= Weights'[k]
  BY <1>1, <1>6 DEF Weights, Counts
<1>15. Total(Weights) <= Total(Weights')
  BY <1>13, <1>14, SumGrows
<1>16. ASSUME NEW s \in Tasks, Leads(s) PROVE Covered'
  <2>1. s \in Alive /\ Due(s)' \in Nat
    BY <1>5, <1>16 DEF Leads
  <2>2. task'[s].check \in shared' /\ \A u \in Alive' : Due(s)' <= Due(u)'
    BY <1>1, <1>2, <1>3, <1>5, <1>16 DEF Leads
  <2>3. CASE task[s].pc = "adv_off"
    <3>1. controller.advertising /\ controller.params
      BY <1>16, <2>3 DEF Leads, Airs, OnAir
    <3>2. controller.data \in shared
      <4>1. ASSUME NEW u \in Alive, controller.data = task[u].check
            PROVE  controller.data \in shared
        BY <1>16, <2>1, <4>1 DEF Leads, Airs, Met
      <4> QED
        BY <1>8, <3>1, <4>1 DEF Answers
    <3>3. controller.data \in Checks
      BY <1>7, <3>2 DEF Airs, AirTypes
    <3>4. Weights[controller.data] + 1 <= Weights'[controller.data]
      BY <1>1, <1>6, <3>1, <3>2, <3>3 DEF Weights, Counts
    <3>5. Total(Weights) + 1 <= Total(Weights')
      BY <1>13, <1>14, <3>3, <3>4, SumOneMore
    <3>6. AirTime <= Total(Weights') + Due(s)'
      BY <1>5, <1>13, <1>16, <2>1, <3>5 DEF Leads
    <3>7. CASE Due(s)' = 0
      BY <1>13, <3>6, <3>7 DEF Covered
    <3>8. CASE Due(s)' > 0
      <4>1. Leads(s)'
        BY <1>1, <1>3, <2>1, <2>2, <3>1, <3>6, <3>8 DEF Leads
      <4> QED
        BY <4>1 DEF Covered
    <3> QED
      BY <2>1, <3>7, <3>8
  <2>4. CASE task[s].pc # "adv_off"
    <3>1. task[s].pc \in {"scan_off", "params", "data", "adv_on"}
      BY <1>5, <2>1, <2>4 DEF Alive, Inv, Typed, Points
    <3>2. Rest(task[s].pc) \in Nat /\ AirTime <= Rest(task[s].pc)
      BY <3>1 DEF Rest
    <3>3. Due(s)' = Rest(task[s].pc) + (task[s].wait - 1) /\ task[s].wait - 1 \in Nat
      BY <1>2, <1>4, <1>5, <2>1 DEF Due
    <3>4. AirTime <= Total(Weights') + Due(s)' /\ Due(s)' > 0
      BY <1>13, <3>2, <3>3
    <3>5. Leads(s)'
      BY <1>2, <1>3, <2>1, <2>2, <2>4, <3>4 DEF Leads
    <3> QED
      BY <3>5 DEF Covered
  <2> QED
    BY <2>3, <2>4
<1>17. Covered'
  <2>1. CASE AirTime <= Total(Weights)
    BY <1>13, <1>15, <2>1 DEF Covered
  <2>2. CASE shared = {}
    BY <1>1, <2>2 DEF Covered
  <2> QED
    BY <1>16, <2>1, <2>2 DEF Airs, Covered
<1> QED
  BY <1>9, <1>10, <1>11, <1>12, <1>17 DEF Airs

LEMMA AirInvStep == Inv /\ AirInv /\ [AckNext]_ackVars => AirInv'
<1> SUFFICES ASSUME Inv, AirInv, [AckNext]_ackVars PROVE AirInv'
  OBVIOUS
<1>1. CASE UNCHANGED ackVars
  BY <1>1 DEF ackVars, AirInv, Airs, AirTypes, Met, OnAir, Lone, Gone, Covered, Leads,
              Weights, Answers, Alive, Due
<1>2. CASE Receiver
  BY <1>2, AirReceiver
<1>3. ASSUME rx'.pc = rx.pc, rx.pc \in Starting => UNCHANGED <<checks, shared, aired>>,
             rx.pc = "up" => Airs'
      PROVE  AirInv'
  BY <1>3 DEF AirInv
<1>4. CASE Elapse
  <2>1. rx'.pc = rx.pc
    BY <1>4 DEF Elapse, Less, Inv, Typed
  <2>2. ASSUME rx.pc \in Starting PROVE UNCHANGED <<checks, shared, aired>>
    <3>1. ~controller.advertising
      BY <2>2 DEF Inv, Prepared, Ending
    <3>2. aired' = [c \in Checks |-> aired[c]] /\ aired = [c \in Checks |-> 0]
      BY <1>4, <2>2, <3>1 DEF Elapse, AirInv
    <3> QED
      BY <1>4, <3>2 DEF Elapse
  <2>3. rx.pc = "up" => Airs'
    BY <1>4, AirElapse DEF AirInv
  <2> QED
    BY <1>3, <2>1, <2>2, <2>3
<1>5. ASSUME NEW t \in Tasks, Check(t) PROVE AirInv'
  <2>1. rx.pc = "up" /\ rx' = rx
    BY <1>5 DEF Check
  <2>2. Airs'
    BY <1>5, <2>1, AirNoTask, AirNewTask DEF Check, AirInv
  <2> QED
    BY <1>3, <2>1, <2>2 DEF Starting
<1>6. ASSUME NEW t \in Tasks, Ack(t) PROVE AirInv'
  <2>1. UNCHANGED <<rx, checks, shared, aired>>
    BY <1>6 DEF Ack, ScanOff, AdvParams, AdvData, AdvOn, AdvOff, ScanOn, HistoryUnchanged
  <2>2. rx.pc = "up" => Airs'
    BY <1>6, AirScanOff, AirAdvParams, AirAdvData, AirAdvOn, AirAdvOff, AirScanOn
       DEF Ack, AirInv
  <2> QED
    BY <1>3, <2>1, <2>2
<1> QED
  BY <1>1, <1>2, <1>4, <1>5, <1>6 DEF AckNext

(* However many CHECKs overlap, and whatever the delays of send_ack_task: an answer whose
   task met no other is on air for its whole time or, if the task could not be created, not
   at all; and those that met others have the air between them for as long as one takes,
   though each stops whatever is broadcast (bt_ack.cpp:21-53). *)
THEOREM AlwaysOnAir == AckSpec => []AckOnAir
<1>1. AckSpec => []Inv
  BY InvInit, InvStep, PTL DEF AckSpec
<1>2. AckInit => AirInv
  BY AirInvInit
<1>3. Inv /\ AirInv /\ [AckNext]_ackVars => AirInv'
  BY AirInvStep
<1>4. Inv /\ AirInv => AckOnAir
  BY AirsOnAir
<1> QED
  BY <1>1, <1>2, <1>3, <1>4, PTL DEF AckSpec

=============================================================================
