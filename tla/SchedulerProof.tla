----------------------------- MODULE SchedulerProof -----------------------------
(* Proofs about locking and dispatch, the red light of a PLAY and the feedback that a slot
   withholds, for any commands, window and queues, any number of packets, and a teardown
   at any step. *)
EXTENDS Scheduler, TLAPS

USE CommandsAssumption, WindowAssumption, BoundsAssumption

(* What a packet says of its command's time is right or 100 ms late. *)
Packets ==
  {p \in [command : Sent, target : Nat] :
     p.command.at <= p.target /\ p.target <= p.command.at + 1}

(* The samples of a window are of one command, so is their mean. *)
Window ==
  /\ adv_queue \in Seq(Packets)
  /\ following = NoPacket \/ following \in Packets
  /\ collecting =>
       /\ current \in Sent /\ samples.sum \in Nat /\ samples.count \in Nat \ {0}
       /\ samples.count * current.at <= samples.sum
       /\ samples.sum <= samples.count * (current.at + 1)

(* A command is locked before its time, for its time. *)
Locking ==
  spc \in {"write", "stop", "start"} =>
    /\ collecting /\ wait \in Int /\ current.at <= now + wait /\ now < current.at
    /\ spc # "write" => slot_ctx[current.id] = current

Holds(i) == slot_ctx[i] \in Sent /\ slot_ctx[i].id = i

Timers ==
  /\ now \in Nat /\ armed \in [Slots -> Int] /\ DOMAIN slot_ctx = Slots
  /\ \A i \in Slots : armed[i] # Off => Holds(i) /\ slot_ctx[i].at <= armed[i]

(* An expired slot is not armed again, as its command's time has come. *)
Dispatching ==
  /\ cpc \in {"read", "clear", "dispatch"} =>
       /\ cslot \in Slots /\ Holds(cslot) /\ armed[cslot] = Off
       /\ slot_ctx[cslot].at <= now /\ fired[slot_ctx[cslot]] = 0
  /\ cpc \in {"clear", "dispatch"} => ccmd = slot_ctx[cslot]

Fired ==
  /\ ~early /\ fired \in [Sent -> {0, 1}]
  /\ \A k \in Sent : fired[k] = 1 => k.at <= now /\ armed[k.id] = Off

Core == Window /\ Locking /\ Timers /\ Dispatching /\ Fired

Inv == OwnSlots /\ Jitter <= 1 => Core

coreVars == <<adv_queue, following, collecting, current, samples, wait, now, slot_ctx, armed,
              cpc, cslot, ccmd, fired, early>>

-----------------------------------------------------------------------------
LEMMA MeanIsRight ==
  ASSUME NEW sum \in Nat, NEW count \in Nat \ {0}, NEW at \in Nat,
         count * at <= sum, sum <= count * (at + 1)
  PROVE  sum \div count \in Nat /\ at <= sum \div count /\ sum \div count <= at + 1
<1>1. PICK q \in Nat : q = sum \div count
  OBVIOUS
<1>2. count * q <= sum /\ sum < count * (q + 1)
  BY <1>1
<1>3. at <= q
  <2>1. CASE q < at
    <3>1. count * (q + 1) <= count * at
      BY <2>1
    <3> QED
      BY <1>2, <3>1
  <2> QED
    BY <2>1
<1>4. q <= at + 1
  <2>1. CASE at + 1 < q
    <3>1. count * (at + 2) <= count * q
      BY <2>1
    <3>2. count * (at + 2) = count * (at + 1) + count
      OBVIOUS
    <3> QED
      BY <1>2, <3>1, <3>2
  <2> QED
    BY <2>1
<1> QED
  BY <1>1, <1>3, <1>4

LEMMA OneMore ==
  ASSUME NEW count \in Nat, NEW at \in Nat
  PROVE  (count + 1) * at = count * at + at
OBVIOUS

LEMMA InvInit == Init => Inv
<1> SUFFICES ASSUME Init, OwnSlots, Jitter <= 1 PROVE Core
  BY DEF Inv
<1> USE DEF Init
<1>1. Window
  BY DEF Window
<1>2. Timers /\ Dispatching /\ Locking
  BY DEF Timers, Dispatching, Locking, Off, Slots
<1>3. Fired
  BY DEF Fired
<1> QED
  BY <1>1, <1>2, <1>3 DEF Core

-----------------------------------------------------------------------------
(* Steps that leave what matters alone, and those that only stop timers *)
LEMMA StepQuiet ==
  ASSUME Core, UNCHANGED coreVars, spc' = spc \/ spc' \notin {"write", "stop", "start"}
  PROVE  Core'
BY DEF Core, coreVars, Window, Locking, Timers, Dispatching, Fired, Holds

LEMMA StepStops ==
  ASSUME Core, UNCHANGED <<following, collecting, current, samples, wait, now, slot_ctx,
                           cpc, cslot, ccmd, fired, early>>,
         adv_queue' \in {adv_queue, <<>>},
         spc' = spc \/ spc' \notin {"write", "stop", "start"},
         armed' \in [Slots -> Int], \A i \in Slots : armed'[i] \in {armed[i], Off}
  PROVE  Core'
<1> USE DEF Core
<1>1. <<>> \in Seq(Packets)
  OBVIOUS
<1>2. Window' /\ Locking'
  BY <1>1 DEF Window, Locking
<1>3. Timers' /\ Dispatching'
  BY DEF Timers, Dispatching, Holds
<1>4. Fired'
  BY CommandsAssumption DEF Fired, Slots
<1> QED
  BY <1>2, <1>3, <1>4

LEMMA StepHear ==
  ASSUME Core, Jitter <= 1, NEW k \in Sent, Hear(k)
  PROVE  Core'
<1>1. PICK jitter \in 0 .. Jitter : Enqueue([command |-> k, target |-> k.at + jitter])
  BY DEF Hear
<1>2. [command |-> k, target |-> k.at + jitter] \in Packets
  BY DEF Packets
<1>3. adv_queue' \in Seq(Packets)
  BY <1>1, <1>2 DEF Enqueue, Core, Window
<1>4. UNCHANGED <<spc, following, collecting, current, samples, wait, now, slot_ctx, armed,
                  cpc, cslot, ccmd, fired, early>>
  BY Zenon DEF Hear, windowVars, slotVars, timerVars, historyVars
<1> QED
  BY <1>3, <1>4 DEF Core, Window, Locking, Timers, Dispatching, Fired, Holds

LEMMA OpenStep ==
  ASSUME NEW packet \in Packets, OpenWindow(packet), adv_queue' \in Seq(Packets)
  PROVE  Window'
BY DEF OpenWindow, Window, Packets

LEMMA CloseStep ==
  ASSUME Core, collecting, CloseWindow,
         UNCHANGED <<current, samples, collecting, now, slot_ctx>>
  PROVE  Locking'
<1>1. CASE spc' = "write"
  <2>1. Remaining > 1 /\ wait' = Remaining
    BY <1>1 DEF CloseWindow
  <2>2. PICK mean \in Nat : mean = samples.sum \div samples.count /\ current.at <= mean
                            /\ mean <= current.at + 1
    BY MeanIsRight DEF Core, Window
  <2>3. wait' = mean - now /\ mean - now > 1
    BY <2>1, <2>2 DEF Remaining
  <2> QED
    BY <1>1, <2>2, <2>3 DEF Locking, Core, Timers, Window
<1> QED
  BY <1>1 DEF CloseWindow, Locking

LEMMA StepReceive ==
  ASSUME Core, OwnSlots, SReceive
  PROVE  Core'
<1> USE DEF Core
<1>1. UNCHANGED <<now, slot_ctx, armed, cpc, cslot, ccmd, fired, early>>
  BY Zenon DEF SReceive, slotVars, timerVars, historyVars
<1>2. Timers' /\ Dispatching' /\ Fired'
  BY <1>1 DEF Timers, Dispatching, Fired, Holds
<1> DEFINE packet == Head(adv_queue)
<1>3. packet \in Packets /\ adv_queue' \in Seq(Packets)
  BY DEF SReceive, Window
<1>4. CASE ~collecting /\ OpenWindow(packet) /\ spc' = "check"
  BY <1>2, <1>3, <1>4, OpenStep DEF Locking
<1>5. CASE /\ collecting /\ packet.command.id = current.id /\ spc' = "check"
           /\ UNCHANGED <<collecting, current, following>>
           /\ samples' = IF InWindow
                         THEN [sum |-> samples.sum + packet.target, count |-> samples.count + 1]
                         ELSE samples
  <2>1. packet.command = current
    BY <1>3, <1>5 DEF OwnSlots, Packets, Window
  <2>2. /\ packet.target \in Nat /\ current.at \in Nat
        /\ current.at <= packet.target /\ packet.target <= current.at + 1
    BY <1>3, <1>5, <2>1 DEF Packets, Window
  <2>3. /\ (samples.count + 1) * current.at = samples.count * current.at + current.at
        /\ (samples.count + 1) * (current.at + 1)
             = samples.count * (current.at + 1) + current.at + 1
    <3>1. samples.count \in Nat
      BY <1>5 DEF Window
    <3>2. (samples.count + 1) * (current.at + 1)
            = samples.count * (current.at + 1) + (current.at + 1)
      BY <2>2, <3>1, OneMore
    <3>3. (samples.count + 1) * current.at = samples.count * current.at + current.at
      BY <2>2, <3>1, OneMore
    <3>4. samples.count * (current.at + 1) \in Int
      BY <2>2, <3>1
    <3> QED
      BY <2>2, <3>2, <3>3, <3>4
  <2>4. Window'
    <3>1. CASE InWindow
      <4>1. samples'.sum = samples.sum + packet.target /\ samples'.count = samples.count + 1
        BY <1>5, <3>1
      <4>2. /\ samples.count * current.at \in Nat /\ samples.count * (current.at + 1) \in Nat
            /\ samples.count * current.at <= samples.sum
            /\ samples.sum <= samples.count * (current.at + 1)
            /\ samples.sum \in Nat /\ samples.count \in Nat
        BY <1>5, <2>2 DEF Window
      <4>3. /\ samples'.count * current.at <= samples'.sum
            /\ samples'.sum <= samples'.count * (current.at + 1)
        BY <2>2, <2>3, <4>1, <4>2
      <4>4. samples'.sum \in Nat /\ samples'.count \in Nat \ {0}
        BY <2>2, <4>1, <4>2
      <4>5. /\ collecting' = collecting /\ current' = current /\ following' = following
            /\ current \in Sent /\ (following = NoPacket \/ following \in Packets)
        BY <1>5 DEF Window
      <4> QED
        BY <1>3, <4>3, <4>4, <4>5 DEF Window
    <3>2. CASE ~InWindow
      BY <1>3, <1>5, <3>2 DEF Window
    <3> QED
      BY <3>1, <3>2
  <2> QED
    BY <1>2, <1>5, <2>4 DEF Locking
<1>6. CASE /\ collecting /\ following' = packet /\ CloseWindow
           /\ UNCHANGED <<collecting, current, samples>>
  <2>1. Window'
    BY <1>3, <1>6 DEF Window
  <2> QED
    BY <1>1, <1>2, <1>6, <2>1, CloseStep
<1> QED
  BY <1>4, <1>5, <1>6, Zenon DEF SReceive

LEMMA StepCheck ==
  ASSUME Core, SCheck
  PROVE  Core'
<1>1. UNCHANGED <<adv_queue, following, collecting, current, samples, now, slot_ctx, armed,
                  cpc, cslot, ccmd, fired, early>>
  BY Zenon DEF SCheck, rxVars, windowVars, slotVars, timerVars, historyVars
<1>2. CASE collecting /\ CloseWindow
  BY <1>1, <1>2, CloseStep DEF Core, Window, Timers, Dispatching, Fired, Holds
<1>3. CASE spc' = "receive" /\ UNCHANGED wait
  BY <1>1, <1>3, StepQuiet DEF coreVars
<1> QED
  BY <1>2, <1>3, Zenon DEF SCheck

LEMMA StepWrite ==
  ASSUME Core, OwnSlots, SWrite
  PROVE  Core'
<1> USE DEF Core
<1>1. /\ spc = "write" /\ spc' = "stop" /\ slot_ctx' = [slot_ctx EXCEPT ![current.id] = current]
      /\ UNCHANGED <<adv_queue, following, collecting, current, samples, wait, now, armed,
                     cpc, cslot, ccmd, fired, early>>
  BY DEF SWrite, SGoto, rxVars, windowVars, timerVars, historyVars
<1>2. current \in Sent /\ current.id \in Slots
  BY <1>1 DEF Locking, Window, Slots
<1>3. \A i \in Slots : Holds(i) => slot_ctx'[i] = slot_ctx[i] /\ Holds(i)'
  BY <1>1, <1>2 DEF Holds, OwnSlots, Timers
<1>4. Window' /\ Fired'
  BY <1>1 DEF Window, Fired
<1>5. Locking'
  BY <1>1, <1>2 DEF Locking, Timers
<1>6. Timers'
  BY <1>1, <1>3 DEF Timers
<1>7. Dispatching'
  BY <1>1, <1>3 DEF Dispatching
<1> QED
  BY <1>4, <1>5, <1>6, <1>7

LEMMA StepStop ==
  ASSUME Core, SStop
  PROVE  Core'
<1> USE DEF Core
<1>1. /\ spc = "stop" /\ spc' = "start" /\ armed' = [armed EXCEPT ![current.id] = Off]
      /\ UNCHANGED <<adv_queue, following, collecting, current, samples, wait, now, slot_ctx,
                     cpc, cslot, ccmd, fired, early>>
  BY DEF SStop, SGoto, rxVars, windowVars, timerVars, historyVars
<1>2. current.id \in Slots
  BY <1>1 DEF Locking, Window, Slots
<1>3. Window' /\ Locking'
  BY <1>1 DEF Window, Locking
<1>4. armed' \in [Slots -> Int] /\ \A i \in Slots : armed'[i] \in {armed[i], Off}
  BY <1>1, <1>2 DEF Timers, Off
<1>5. Timers' /\ Dispatching'
  BY <1>1, <1>4 DEF Timers, Dispatching, Holds
<1>6. Fired'
  BY <1>1, <1>4 DEF Fired, Slots
<1> QED
  BY <1>3, <1>5, <1>6

LEMMA StepStart ==
  ASSUME Core, OwnSlots, SStart
  PROVE  Core'
<1> USE DEF Core
<1>1. /\ spc = "start" /\ spc' = "feedback"
      /\ armed' = [armed EXCEPT ![current.id] = StartOnce(@, now + wait)]
      /\ UNCHANGED <<adv_queue, following, collecting, current, samples, wait, now, slot_ctx,
                     cpc, cslot, ccmd, fired, early>>
  BY DEF SStart, SGoto, rxVars, windowVars, timerVars, historyVars
<1>2. /\ current \in Sent /\ current.id \in Slots /\ slot_ctx[current.id] = current
      /\ current.at \in Nat /\ now < current.at /\ now + wait \in Int
      /\ current.at <= now + wait
  <2>1. /\ collecting /\ wait \in Int /\ current.at <= now + wait /\ now < current.at
        /\ slot_ctx[current.id] = current
    BY <1>1 DEF Locking
  <2>2. current \in Sent
    BY <2>1 DEF Window
  <2>3. current.id \in Slots /\ current.at \in Nat
    BY <2>2 DEF Slots
  <2>4. now + wait \in Int
    BY <2>1 DEF Timers
  <2> QED
    BY <2>1, <2>2, <2>3, <2>4
<1>3. /\ armed' \in [Slots -> Int]
      /\ \A i \in Slots \ {current.id} : armed'[i] = armed[i]
      /\ armed'[current.id] \in {armed[current.id], now + wait}
  BY <1>1, <1>2 DEF StartOnce, Timers
<1>4. Window' /\ Locking'
  BY <1>1 DEF Window, Locking
<1>5. Timers'
  BY <1>1, <1>2, <1>3 DEF Timers, Holds
<1>6. cpc \in {"read", "clear", "dispatch"} => cslot # current.id
  BY <1>2 DEF Dispatching, Timers
<1>7. Dispatching'
  BY <1>1, <1>3, <1>6 DEF Dispatching, Holds
<1>8. \A k \in Sent : fired[k] = 1 => k.id # current.id
  BY <1>2 DEF Fired, OwnSlots, Timers
<1>9. Fired'
  BY <1>1, <1>3, <1>8 DEF Fired, Slots
<1> QED
  BY <1>4, <1>5, <1>7, <1>9

LEMMA StepLocked ==
  ASSUME Core, SLocked
  PROVE  Core'
<1>1. /\ spc' \in {"check", "receive"}
      /\ UNCHANGED <<adv_queue, wait, now, slot_ctx, armed, cpc, cslot, ccmd, fired, early>>
  BY DEF SLocked, SGoto, rxVars, slotVars, timerVars, historyVars
<1>2. Window'
  <2>1. CASE following # NoPacket /\ OpenWindow(following)
    BY <1>1, <2>1, OpenStep DEF Core, Window
  <2>2. CASE ~collecting' /\ UNCHANGED following
    BY <1>1, <2>2 DEF Core, Window
  <2> QED
    BY <2>1, <2>2 DEF SLocked
<1> QED
  BY <1>1, <1>2 DEF Core, Locking, Timers, Dispatching, Fired, Holds

LEMMA StepSync ==
  ASSUME Core, OwnSlots, Sync
  PROVE  Core'
<1>1. ASSUME SFeedback \/ SLedTimer \/ SAckDone \/ SLast \/ SExit
      PROVE  UNCHANGED coreVars /\ spc' \notin {"write", "stop", "start"}
  BY <1>1 DEF SFeedback, SLedTimer, SAckDone, SLast, SExit, SGoto, coreVars, rxVars,
     windowVars, slotVars, timerVars, historyVars
<1> QED
  BY <1>1, StepQuiet, StepReceive, StepCheck, StepWrite, StepStop, StepStart, StepLocked,
     Zenon DEF Sync

-----------------------------------------------------------------------------
LEMMA StepExpire ==
  ASSUME Core, NEW i \in Slots, CExpire(i)
  PROVE  Core'
<1> USE DEF Core
<1>1. /\ cpc' = "read" /\ armed[i] # Off /\ now >= armed[i]
      /\ armed' = [armed EXCEPT ![i] = Off] /\ cslot' = i
      /\ UNCHANGED <<spc, adv_queue, following, collecting, current, samples, wait, now,
                     slot_ctx, ccmd, fired, early>>
  BY DEF CExpire, CGoto, rxVars, windowVars, historyVars
<1>2. Holds(i) /\ slot_ctx[i].at <= now
  BY <1>1 DEF Timers, Holds
<1>3. fired[slot_ctx[i]] = 0
  BY <1>1, <1>2 DEF Holds, Fired
<1>4. armed' \in [Slots -> Int] /\ \A j \in Slots : armed'[j] \in {armed[j], Off}
  BY <1>1 DEF Timers, Off
<1>5. Window' /\ Locking'
  BY <1>1 DEF Window, Locking
<1>6. Timers'
  BY <1>1, <1>4 DEF Timers, Holds
<1>7. Dispatching'
  BY <1>1, <1>2, <1>3 DEF Dispatching, Holds, Timers
<1>8. Fired'
  BY <1>1, <1>4 DEF Fired, Slots
<1> QED
  BY <1>5, <1>6, <1>7, <1>8

LEMMA StepDispatch ==
  ASSUME Core, CDispatch
  PROVE  Core'
<1> USE DEF Core
<1>1. /\ cpc = "dispatch" /\ cpc' \in {"idle", "cancel_clear"}
      /\ fired' = [fired EXCEPT ![ccmd] = @ + 1] /\ early' = (early \/ now < ccmd.at)
      /\ UNCHANGED <<spc, adv_queue, following, collecting, current, samples, wait, now,
                     slot_ctx>>
  BY DEF CDispatch, Record, rxVars, windowVars
<1>2. /\ ccmd \in Sent /\ ccmd.id = cslot /\ cslot \in Slots /\ armed[cslot] = Off
      /\ ccmd.at <= now /\ fired[ccmd] = 0
  BY <1>1 DEF Dispatching, Holds
<1>3. armed' \in [Slots -> Int] /\ \A i \in Slots : armed'[i] \in {armed[i], Off}
  <2>1. armed' = armed \/ armed' = [i \in Slots |-> IF i = ccmd.data THEN Off ELSE armed[i]]
    BY Zenon DEF CDispatch
  <2> QED
    BY <2>1 DEF Timers, Off
<1>4. Window' /\ Locking'
  BY <1>1 DEF Window, Locking
<1>5. Timers' /\ Dispatching'
  BY <1>1, <1>3 DEF Timers, Dispatching, Holds
<1>6. ~early'
  <2>1. ~(now < ccmd.at)
    BY <1>2 DEF Timers
  <2> QED
    BY <1>1, <2>1, Zenon DEF Fired
<1>7. /\ fired' \in [Sent -> {0, 1}] /\ fired'[ccmd] = 1
      /\ \A k \in Sent \ {ccmd} : fired'[k] = fired[k]
  BY <1>1, <1>2 DEF Fired
<1>8. Fired'
  BY <1>1, <1>2, <1>3, <1>6, <1>7 DEF Fired, Slots
<1> QED
  BY <1>4, <1>5, <1>8

LEMMA StepTimerTask ==
  ASSUME Core, TimerTask
  PROVE  Core'
<1>1. CASE CRead
  <2>1. /\ cpc = "read" /\ cpc' = "clear" /\ ccmd' = slot_ctx[cslot]
        /\ UNCHANGED <<spc, adv_queue, following, collecting, current, samples, wait, now,
                       slot_ctx, armed, cslot, fired, early>>
    BY <1>1 DEF CRead, CGoto, rxVars, windowVars, slotVars, historyVars
  <2> QED
    BY <2>1 DEF Core, Window, Locking, Timers, Dispatching, Fired, Holds
<1>2. CASE CClear
  <2>1. /\ cpc = "clear" /\ cpc' = "dispatch"
        /\ UNCHANGED <<spc, adv_queue, following, collecting, current, samples, wait, now,
                       slot_ctx, armed, cslot, ccmd, fired, early>>
    BY <1>2 DEF CClear, CGoto, rxVars, windowVars, slotVars, historyVars
  <2> QED
    BY <2>1 DEF Core, Window, Locking, Timers, Dispatching, Fired, Holds
<1>3. CASE CCancelClear \/ CCancelLed \/ CCancelStop
  <2>1. /\ cpc' \notin {"read", "clear", "dispatch"}
        /\ UNCHANGED <<spc, adv_queue, following, collecting, current, samples, wait, now,
                       slot_ctx, armed, cslot, ccmd, fired, early>>
    BY <1>3 DEF CCancelClear, CCancelLed, CCancelStop, CGoto, rxVars, windowVars, slotVars,
       historyVars
  <2> QED
    BY <2>1 DEF Core, Window, Locking, Timers, Dispatching, Fired, Holds
<1>4. CASE CLed
  <2>1. UNCHANGED coreVars /\ spc' = spc
    BY <1>4, Zenon DEF CLed, coreVars, rxVars, windowVars, slotVars, timerVars, historyVars
  <2> QED
    BY <2>1, StepQuiet
<1> QED
  BY <1>1, <1>2, <1>3, <1>4, StepExpire, StepDispatch, Zenon DEF TimerTask

LEMMA StepDown ==
  ASSUME Core, DDown
  PROVE  Core'
<1>1. /\ UNCHANGED <<following, collecting, current, samples, wait, now, slot_ctx,
                     cpc, cslot, ccmd, fired, early>>
      /\ adv_queue' \in {adv_queue, <<>>}
      /\ spc' = spc \/ spc' = "dead"
      /\ armed' = armed \/ armed' = [i \in Slots |-> Off]
  BY DEF DDown, DRequestStop, DStopTimers, DDelete, windowVars, timerVars, historyVars
<1>2. armed' \in [Slots -> Int] /\ \A i \in Slots : armed'[i] \in {armed[i], Off}
  BY <1>1 DEF Core, Timers, Off
<1> QED
  BY <1>1, <1>2, StepStops

LEMMA StepElapse ==
  ASSUME Core, Elapse
  PROVE  Core'
<1>1. /\ spc \in {"receive", "dead"} /\ spc' = spc /\ now' = now + 1
      /\ UNCHANGED <<adv_queue, following, collecting, current, samples, wait, slot_ctx, armed,
                     cpc, cslot, ccmd, fired, early>>
  BY DEF Elapse, rxVars, windowVars, slotVars, timerVars, historyVars
<1> QED
  BY <1>1 DEF Core, Window, Locking, Timers, Dispatching, Fired, Holds

LEMMA InvStep == Inv /\ [Next]_vars => Inv'
<1> SUFFICES ASSUME Core, OwnSlots, Jitter <= 1, [Next]_vars PROVE Core'
  BY DEF Inv
<1>1. CASE UNCHANGED vars
  <2>1. UNCHANGED coreVars /\ spc' = spc
    BY <1>1, Zenon DEF vars, coreVars, rxVars, windowVars, slotVars, timerVars, historyVars
  <2> QED
    BY <2>1, StepQuiet
<1> QED
  BY <1>1, StepHear, StepSync, StepTimerTask, StepDown, StepElapse, Zenon DEF Next

(* A command whose slot is its own and whose packets disagree by no more than 100 ms is
   dispatched at most once and never early, however its packets are averaged, repeated,
   dropped or heard after its window has closed, and whenever the receiver is torn down
   (bt_scheduler.cpp:181-204, 254-272). *)
THEOREM OnceOnTimeAlways == Spec => []OnceOnTime
<1>1. Spec => []Inv
  BY InvInit, InvStep, PTL DEF Spec
<1>2. Inv => OnceOnTime
  <2>1. Fired => ~early /\ \A k \in Sent : fired[k] <= 1
    <3>1. ASSUME Fired, NEW k \in Sent PROVE fired[k] <= 1
      <4>1. fired[k] \in {0, 1}
        BY <3>1 DEF Fired
      <4> QED
        BY <4>1
    <3>2. Fired => ~early
      BY Zenon DEF Fired
    <3> QED
      BY <3>1, <3>2
  <2> QED
    BY <2>1, Zenon DEF Inv, Core, OnceOnTime
<1> QED
  BY <1>1, <1>2, PTL

-----------------------------------------------------------------------------
(* What holds of the commands, the slots and the timers without any assumption on the
   commands on air *)
OnAir   == [command : Sent, target : Nat]
Held    == Sent \cup {None}
Lit     == {"feedback", "led_stop", "led_start", "ack_done"}
LockPoints == {"write", "stop", "start", "last", "stamp", "locked"} \cup Lit

Queued ==
  /\ adv_queue \in Seq(OnAir)
  /\ following = NoPacket \/ following \in OnAir
  /\ collecting => current \in Sent /\ samples.sum \in Nat /\ samples.count \in Nat \ {0}
  /\ spc \in LockPoints => collecting
  /\ spc \in {"write", "stop", "start"} => wait \in Int /\ wait > 1

Slotted ==
  /\ now \in Nat /\ slot_ctx \in [Slots -> Held] /\ armed \in [Slots -> Int]
  /\ cpc \in {"read", "clear", "dispatch"} => cslot \in Slots
  /\ cpc \in {"clear", "dispatch"} => ccmd \in Held

Known == Queued /\ Slotted

(* A command just locked is not due while its feedback is given. *)
Pending ==
  /\ cpc \notin {"cancel_clear", "cancel_led", "cancel_stop"}
  /\ visual_ack_done \in [Slots -> BOOLEAN]
  /\ dpc = "up" =>
       /\ spc = "start" => armed[current.id] = Off
       /\ spc \in Lit => now < armed[current.id]

NoCancel == \A k \in Sent : k.cmd # "CANCEL"

PendingInv == Pending /\ FeedbackPending

knownVars == <<adv_queue, following, collecting, current, samples, wait, now, slot_ctx,
               armed, cpc, cslot, ccmd>>

LEMMA OffIsInt == Off \in Int
BY DEF Off

LEMMA RemainingInt ==
  ASSUME Known, collecting
  PROVE  Remaining \in Int
<1>1. samples.sum \div samples.count \in Int
  BY DEF Known, Queued
<1> QED
  BY <1>1 DEF Remaining, Known, Slotted

LEMMA KnownInit == Init => Known
<1> SUFFICES ASSUME Init PROVE Known
  OBVIOUS
<1>1. <<>> \in Seq(OnAir)
  OBVIOUS
<1> QED
  BY <1>1 DEF Init, Known, Queued, Slotted, LockPoints, Lit, Held, Off

LEMMA KnownQuiet ==
  ASSUME Known, UNCHANGED knownVars,
         \/ spc' = spc
         \/ spc \in LockPoints /\ spc' \notin {"write", "stop", "start"}
         \/ spc' \notin LockPoints
  PROVE  Known'
BY DEF Known, Queued, Slotted, knownVars, LockPoints, Lit

LEMMA KnownReceive == Known /\ SReceive => Known'
<1> SUFFICES ASSUME Known, SReceive PROVE Known'
  OBVIOUS
<1> USE DEF Known
<1>1. UNCHANGED <<now, slot_ctx, armed, cpc, cslot, ccmd>>
  BY Zenon DEF SReceive, slotVars, timerVars
<1>2. Slotted'
  BY <1>1 DEF Slotted
<1> DEFINE packet == Head(adv_queue)
<1>3. packet \in OnAir /\ adv_queue' \in Seq(OnAir)
  BY DEF SReceive, Queued
<1>4. spc = "receive"
  BY Zenon DEF SReceive
<1>5. CASE OpenWindow(packet) /\ spc' = "check"
  BY <1>2, <1>3, <1>5 DEF Queued, OpenWindow, OnAir, LockPoints, Lit
<1>6. CASE /\ collecting /\ spc' = "check" /\ UNCHANGED <<collecting, current, following>>
           /\ samples' = IF InWindow
                         THEN [sum |-> samples.sum + packet.target, count |-> samples.count + 1]
                         ELSE samples
  <2>1. samples'.sum \in Nat /\ samples'.count \in Nat \ {0}
    BY <1>3, <1>6 DEF Queued, OnAir
  <2> QED
    BY <1>2, <1>3, <1>6, <2>1 DEF Queued, LockPoints, Lit
<1>7. CASE /\ collecting /\ following' = packet /\ CloseWindow
           /\ UNCHANGED <<collecting, current, samples>>
  BY <1>2, <1>3, <1>7, RemainingInt DEF Queued, CloseWindow, LockPoints, Lit
<1> QED
  BY <1>5, <1>6, <1>7, Zenon DEF SReceive

LEMMA KnownSync == Known /\ Sync => Known'
<1> SUFFICES ASSUME Known, Sync PROVE Known'
  OBVIOUS
<1>1. CASE SCheck
  <2>1. UNCHANGED <<adv_queue, following, collecting, current, samples, now, slot_ctx, armed,
                    cpc, cslot, ccmd>>
    BY <1>1, Zenon DEF SCheck, rxVars, windowVars, slotVars, timerVars
  <2>2. CASE collecting /\ CloseWindow
    BY <2>1, <2>2, RemainingInt DEF CloseWindow, Known, Queued, Slotted, LockPoints, Lit
  <2>3. CASE spc' = "receive" /\ UNCHANGED wait
    BY <2>1, <2>3, KnownQuiet DEF knownVars, LockPoints, Lit
  <2> QED
    BY <1>1, <2>2, <2>3, Zenon DEF SCheck
<1>2. CASE SWrite
  <2>1. /\ spc = "write" /\ spc' = "stop"
        /\ slot_ctx' = [slot_ctx EXCEPT ![current.id] = current]
        /\ UNCHANGED <<adv_queue, following, collecting, current, samples, wait, now, armed,
                       cpc, cslot, ccmd>>
    BY <1>2 DEF SWrite, SGoto, rxVars, windowVars, timerVars
  <2>2. current \in Sent
    BY <2>1 DEF Known, Queued, LockPoints
  <2>3. slot_ctx' \in [Slots -> Held]
    BY <2>1, <2>2 DEF Known, Slotted, Held
  <2> QED
    BY <2>1, <2>3 DEF Known, Queued, Slotted, LockPoints
<1>3. CASE SStop
  <2>1. /\ spc = "stop" /\ spc' = "start" /\ armed' = [armed EXCEPT ![current.id] = Off]
        /\ UNCHANGED <<adv_queue, following, collecting, current, samples, wait, now, slot_ctx,
                       cpc, cslot, ccmd>>
    BY <1>3 DEF SStop, SGoto, rxVars, windowVars, timerVars
  <2>2. armed' \in [Slots -> Int]
    BY <2>1, OffIsInt DEF Known, Slotted
  <2> QED
    BY <2>1, <2>2 DEF Known, Queued, Slotted, LockPoints
<1>4. CASE SStart
  <2>1. /\ spc = "start" /\ spc' = "feedback"
        /\ armed' = [armed EXCEPT ![current.id] = StartOnce(@, now + wait)]
        /\ UNCHANGED <<adv_queue, following, collecting, current, samples, wait, now, slot_ctx,
                       cpc, cslot, ccmd>>
    BY <1>4 DEF SStart, SGoto, rxVars, windowVars, timerVars
  <2>2. now + wait \in Int
    BY <2>1 DEF Known, Queued, Slotted
  <2>3. armed' \in [Slots -> Int]
    BY <2>1, <2>2 DEF Known, Slotted, StartOnce
  <2> QED
    BY <2>1, <2>3 DEF Known, Queued, Slotted, LockPoints, Lit
<1>5. CASE SFeedback \/ SLedTimer \/ SAckDone \/ SLast \/ SExit
  <2>1. UNCHANGED knownVars
    BY <1>5 DEF SFeedback, SLedTimer, SAckDone, SLast, SExit, knownVars, rxVars,
       windowVars, slotVars, timerVars
  <2>2. \/ spc \in LockPoints /\ spc' \notin {"write", "stop", "start"}
        \/ spc' \notin LockPoints
    BY <1>5 DEF SFeedback, SLedTimer, SAckDone, SLast, SExit, SGoto, LockPoints, Lit
  <2> QED
    BY <2>1, <2>2, KnownQuiet
<1>6. CASE SLocked
  <2>1. /\ spc' \in {"check", "receive"}
        /\ UNCHANGED <<adv_queue, wait, now, slot_ctx, armed, cpc, cslot, ccmd>>
    BY <1>6 DEF SLocked, SGoto, rxVars, slotVars, timerVars
  <2>2. CASE following \in OnAir /\ OpenWindow(following)
    BY <2>1, <2>2 DEF Known, Queued, Slotted, OpenWindow, OnAir, LockPoints, Lit
  <2>3. CASE ~collecting' /\ UNCHANGED following
    BY <2>1, <2>3 DEF Known, Queued, Slotted, LockPoints, Lit
  <2>4. following = NoPacket \/ following \in OnAir
    BY DEF Known, Queued
  <2> QED
    BY <1>6, <2>2, <2>3, <2>4, Zenon DEF SLocked
<1> QED
  BY <1>1, <1>2, <1>3, <1>4, <1>5, <1>6, KnownReceive, Zenon DEF Sync

LEMMA KnownTimerTask == Known /\ TimerTask => Known'
<1> SUFFICES ASSUME Known, TimerTask PROVE Known'
  OBVIOUS
<1>1. /\ spc' = spc
      /\ UNCHANGED <<adv_queue, following, collecting, current, samples, wait, now, slot_ctx>>
  BY Zenon DEF TimerTask, CExpire, CRead, CClear, CDispatch, CCancelClear, CCancelLed,
     CCancelStop, CLed, rxVars, windowVars, slotVars
<1>2. armed' \in [Slots -> Int]
  <2>1. ASSUME NEW i \in Slots, CExpire(i) PROVE armed' \in [Slots -> Int]
    BY <2>1 DEF CExpire, Known, Slotted, Off
  <2>2. CASE CDispatch
    <3>1. armed' = armed \/ armed' = [i \in Slots |-> IF i = ccmd.data THEN Off ELSE armed[i]]
      BY <2>2, Zenon DEF CDispatch
    <3> QED
      BY <3>1 DEF Known, Slotted, Off
  <2>3. ASSUME CRead \/ CClear \/ CCancelClear \/ CCancelLed \/ CCancelStop \/ CLed
        PROVE  UNCHANGED armed
    BY <2>3, Zenon DEF CRead, CClear, CCancelClear, CCancelLed, CCancelStop, CLed, slotVars
  <2> QED
    BY <2>1, <2>2, <2>3 DEF TimerTask, Known, Slotted
<1>3. /\ cpc' \in {"read", "clear", "dispatch"} => cslot' \in Slots
      /\ cpc' \in {"clear", "dispatch"} => ccmd' \in Held
  <2>1. ASSUME NEW i \in Slots, CExpire(i) PROVE cpc' = "read" /\ cslot' = i
    BY <2>1 DEF CExpire, CGoto
  <2>2. CASE CRead
    BY <2>2 DEF CRead, CGoto, Known, Slotted
  <2>3. CASE CClear
    BY <2>3 DEF CClear, CGoto, Known, Slotted
  <2>4. CASE CDispatch \/ CCancelClear \/ CCancelLed \/ CCancelStop
    BY <2>4 DEF CDispatch, CCancelClear, CCancelLed, CCancelStop, CGoto
  <2>5. CASE CLed
    BY <2>5 DEF CLed, timerVars, Known, Slotted
  <2> QED
    BY <2>1, <2>2, <2>3, <2>4, <2>5 DEF TimerTask
<1> QED
  BY <1>1, <1>2, <1>3 DEF Known, Queued, Slotted

LEMMA KnownStep == Known /\ [Next]_vars => Known'
<1> SUFFICES ASSUME Known, [Next]_vars PROVE Known'
  OBVIOUS
<1>1. ASSUME NEW k \in Sent, Hear(k) PROVE Known'
  <2>1. PICK jitter \in 0 .. Jitter : Enqueue([command |-> k, target |-> k.at + jitter])
    BY <1>1 DEF Hear
  <2>2. [command |-> k, target |-> k.at + jitter] \in OnAir
    BY DEF OnAir
  <2>3. adv_queue' \in Seq(OnAir)
    BY <2>1, <2>2 DEF Enqueue, Known, Queued
  <2>4. UNCHANGED <<spc, following, collecting, current, samples, wait, now, slot_ctx, armed,
                    cpc, cslot, ccmd>>
    BY <1>1, Zenon DEF Hear, windowVars, slotVars, timerVars
  <2> QED
    BY <2>3, <2>4 DEF Known, Queued, Slotted
<1>2. CASE DDown
  <2>1. UNCHANGED <<following, collecting, current, samples, wait, now, slot_ctx, cpc, cslot,
                    ccmd>>
    BY <1>2, Zenon DEF DDown, windowVars, timerVars
  <2>2. /\ adv_queue' = adv_queue \/ adv_queue' = <<>>
        /\ spc' = spc \/ spc' = "dead"
        /\ armed' = armed \/ armed' = [i \in Slots |-> Off]
    BY <1>2 DEF DDown, DRequestStop, DStopTimers, DDelete
  <2>3. adv_queue' \in Seq(OnAir)
    <3>1. <<>> \in Seq(OnAir)
      OBVIOUS
    <3> QED
      BY <2>2, <3>1 DEF Known, Queued
  <2>4. armed' \in [Slots -> Int]
    BY <2>2, OffIsInt DEF Known, Slotted
  <2> QED
    BY <2>1, <2>2, <2>3, <2>4 DEF Known, Queued, Slotted, LockPoints, Lit
<1>3. CASE Elapse
  <2>1. /\ spc' = spc /\ now' = now + 1
        /\ UNCHANGED <<adv_queue, following, collecting, current, samples, wait, slot_ctx,
                       armed, cpc, cslot, ccmd>>
    BY <1>3 DEF Elapse, rxVars, windowVars, slotVars, timerVars
  <2> QED
    BY <2>1 DEF Known, Queued, Slotted
<1>4. CASE UNCHANGED vars
  <2>1. UNCHANGED knownVars /\ spc' = spc
    BY <1>4, Zenon DEF vars, knownVars, rxVars, windowVars, slotVars, timerVars
  <2> QED
    BY <2>1, KnownQuiet
<1> QED
  BY <1>1, <1>2, <1>3, <1>4, KnownSync, KnownTimerTask, Zenon DEF Next

-----------------------------------------------------------------------------
(* Only PLAY's feedback makes the test colour the red light, and nothing leaves TEST
   but what also puts it out. *)
LEMMA DeliverKeeps ==
  ASSUME NEW event, Deliver(event, FALSE), player' = "TEST", prep'
  PROVE  player = "TEST" /\ prep
<1>1. player' = Transition(event) /\ event # "TEST" /\ prep
  BY DEF Deliver
<1>2. Transition(event) # "TEST" \/ player = "TEST"
  BY <1>1 DEF Transition
<1> QED
  BY <1>1, <1>2

LEMMA LightStep == Known /\ LightEnds /\ [Next]_vars => LightEnds'
<1> SUFFICES ASSUME Known, LightEnds, [Next]_vars, dpc' = "up", player' = "TEST", prep'
             PROVE  led_timer' # Off \/ spc' \in {"led_stop", "led_start"} \/ cpc' = "cancel_stop"
  BY DEF LightEnds
<1> DEFINE Ends == led_timer # Off \/ spc \in {"led_stop", "led_start"} \/ cpc = "cancel_stop"
<1>1. ASSUME dpc = "up", player = "TEST", prep PROVE Ends
  BY <1>1 DEF LightEnds
<1>2. CASE SFeedback
  <2>1. spc = "feedback" /\ UNCHANGED <<dpc, led_timer, cpc>>
    BY <1>2, Zenon DEF SFeedback, timerVars
  <2>2. spc' = "led_stop" \/ UNCHANGED playerVars
    BY <1>2, Zenon DEF SFeedback
  <2>3. spc' = "led_stop" \/ (player = "TEST" /\ prep)
    BY <2>2, Zenon DEF playerVars
  <2> QED
    BY <1>1, <2>1, <2>3
<1>3. CASE SLedTimer
  <2>1. CASE SGoto("led_stop", "led_start")
    BY <2>1 DEF SGoto
  <2>2. CASE SGoto("led_start", "ack_done") /\ led_timer' = StartOnce(led_timer, now + current.prep)
    <3>1. now + current.prep # Off
      <4>1. now \in Nat
        BY DEF Known, Slotted
      <4>2. current.prep \in Nat
        BY <2>2 DEF SGoto, Known, Queued, LockPoints, Lit
      <4> QED
        BY <4>1, <4>2 DEF Off
    <3> QED
      BY <2>2, <3>1 DEF StartOnce
  <2> QED
    BY <1>3, <2>1, <2>2, Zenon DEF SLedTimer
<1>4. ASSUME SReceive \/ SCheck \/ SWrite \/ SStop \/ SStart \/ SAckDone \/ SLast \/ SLocked
             \/ SExit \/ Elapse \/ \E k \in Sent : Hear(k)
      PROVE  UNCHANGED <<dpc, player, prep, led_timer, cpc>>
  BY <1>4, Zenon DEF SReceive, SCheck, SWrite, SStop, SStart, SAckDone, SLast, SLocked, SExit,
     Elapse, Hear, playerVars, timerVars
<1>5. ASSUME SReceive \/ SCheck \/ SWrite \/ SStop \/ SStart \/ SAckDone \/ SLast \/ SLocked
             \/ SExit \/ Elapse \/ \E k \in Sent : Hear(k)
      PROVE  spc \notin {"led_stop", "led_start"}
             \/ spc' = spc
  BY <1>5 DEF SReceive, SCheck, SWrite, SStop, SStart, SAckDone, SLast, SLocked, SExit,
     Elapse, Hear, SGoto
<1>6. CASE SReceive \/ SCheck \/ SWrite \/ SStop \/ SStart \/ SAckDone \/ SLast \/ SLocked
           \/ SExit \/ Elapse \/ \E k \in Sent : Hear(k)
  BY <1>1, <1>4, <1>5, <1>6
<1>7. ASSUME TimerTask PROVE spc' = spc /\ dpc' = dpc
  BY <1>7, Zenon DEF TimerTask, CExpire, CRead, CClear, CDispatch, CCancelClear, CCancelLed,
     CCancelStop, CLed
<1>8. ASSUME CRead \/ CClear \/ CCancelClear \/ \E i \in Slots : CExpire(i)
      PROVE  UNCHANGED <<player, prep, led_timer>> /\ cpc # "cancel_stop"
  BY <1>8 DEF CRead, CClear, CCancelClear, CExpire, CGoto, playerVars
<1>9. CASE CRead \/ CClear \/ CCancelClear \/ \E i \in Slots : CExpire(i)
  BY <1>1, <1>7, <1>8, <1>9 DEF TimerTask
<1>10. CASE CDispatch
  <2>1. UNCHANGED led_timer /\ cpc = "dispatch"
    BY <1>10, Zenon DEF CDispatch
  <2>2. (player = "TEST" /\ prep) \/ UNCHANGED playerVars
    BY <1>10, DeliverKeeps, Zenon DEF CDispatch
  <2>3. player = "TEST" /\ prep
    BY <2>2 DEF playerVars
  <2> QED
    BY <1>1, <1>7, <1>10, <2>1, <2>3 DEF TimerTask
<1>11. CASE CCancelLed
  BY <1>1, <1>7, <1>11 DEF CCancelLed, CGoto, playerVars, TimerTask
<1>12. CASE CCancelStop
  BY <1>12 DEF CCancelStop, Deliver, Transition
<1>13. CASE CLed
  <2>1. player # "TEST" /\ UNCHANGED playerVars
    BY <1>13 DEF CLed, Deliver, Transition
  <2> QED
    BY <2>1 DEF playerVars
<1>14. CASE DDown
  BY <1>14 DEF DDown, DRequestStop, DStopTimers, DDelete, DGoto
<1>15. CASE UNCHANGED vars
  BY <1>1, <1>15 DEF vars, playerVars, timerVars
<1> QED
  BY <1>2, <1>3, <1>6, <1>9, <1>10, <1>11, <1>12, <1>13, <1>14, <1>15, Zenon
     DEF Next, Sync, TimerTask

(* The red light of a PLAY is always going to be put out, for any commands on air, their
   CANCELs among them, and whatever the two tasks do in between
   (bt_scheduler.cpp:105-108, 219-223). *)
THEOREM LightAlwaysEnds == Spec => []LightEnds
<1>1. Init => Known /\ LightEnds
  BY KnownInit DEF Init, LightEnds
<1>2. Known /\ LightEnds /\ [Next]_vars => (Known /\ LightEnds)'
  BY KnownStep, LightStep
<1> QED
  BY <1>1, <1>2, PTL DEF Spec

-----------------------------------------------------------------------------
(* Without CANCEL, the feedback of a command is given while its timer runs. *)
LEMMA HeldIsNoCancel == NoCancel => \A k \in Held : k.cmd # "CANCEL"
<1>1. None.cmd # "CANCEL"
  BY DEF None
<1> QED
  BY <1>1, Zenon DEF NoCancel, Held

LEMMA PendingInit == Init => PendingInv
BY DEF Init, PendingInv, Pending, FeedbackPending, Lit

LEMMA PendingSync == NoCancel /\ Known /\ PendingInv /\ Sync => PendingInv'
<1> SUFFICES ASSUME Known, PendingInv, Sync PROVE PendingInv'
  OBVIOUS
<1> USE DEF PendingInv
<1>1. UNCHANGED <<now, cpc, cslot, ccmd, dpc>>
  BY Zenon DEF Sync, SReceive, SCheck, SWrite, SStop, SStart, SFeedback, SLedTimer, SAckDone,
     SLast, SLocked, SExit, timerVars
<1>2. ASSUME spc \in LockPoints PROVE current.id \in Slots
  BY <1>2 DEF Known, Queued, Slots
<1>3. CASE SStop
  <2>1. /\ spc = "stop" /\ spc' = "start" /\ armed' = [armed EXCEPT ![current.id] = Off]
        /\ UNCHANGED <<current, visual_ack_done>>
    BY <1>3 DEF SStop, SGoto, windowVars
  <2>2. current.id \in Slots /\ armed' \in [Slots -> Int] /\ armed'[current.id] = Off
    BY <1>2, <2>1, OffIsInt DEF Known, Slotted, LockPoints
  <2>3. Pending'
    BY <1>1, <2>1, <2>2 DEF Pending, Lit
  <2>4. FeedbackPending'
    BY <1>1, <2>1 DEF FeedbackPending, Known, Slotted
  <2> QED
    BY <2>3, <2>4
<1>4. CASE SStart
  <2>1. /\ spc = "start" /\ spc' = "feedback"
        /\ armed' = [armed EXCEPT ![current.id] = StartOnce(@, now + wait)]
        /\ UNCHANGED <<current, visual_ack_done>>
    BY <1>4 DEF SStart, SGoto, windowVars
  <2>2. current.id \in Slots /\ now + wait \in Int /\ now < now + wait /\ now + wait # Off
    BY <1>2, <2>1 DEF Known, Queued, Slotted, LockPoints, Off
  <2>3. dpc = "up" => armed'[current.id] = now + wait
    BY <2>1, <2>2 DEF Pending, StartOnce, Known, Slotted
  <2>4. \A i \in Slots \ {current.id} : armed'[i] = armed[i]
    BY <2>1 DEF Known, Slotted
  <2>5. Pending'
    BY <1>1, <2>1, <2>2, <2>3 DEF Pending, Lit
  <2>6. FeedbackPending'
    BY <1>1, <2>1, <2>2, <2>3, <2>4 DEF FeedbackPending
  <2> QED
    BY <2>5, <2>6
<1>5. CASE SAckDone
  <2>1. /\ spc = "ack_done" /\ spc' \in {"last", "locked"}
        /\ visual_ack_done' = [visual_ack_done EXCEPT ![current.id] = TRUE]
        /\ UNCHANGED <<current, armed>>
    BY <1>5 DEF SAckDone, SGoto, windowVars, slotVars
  <2>2. current.id \in Slots /\ (dpc = "up" => armed[current.id] # Off)
    BY <1>2, <2>1 DEF Pending, Known, Slotted, LockPoints, Lit, Off
  <2>3. Pending'
    BY <1>1, <2>1, <2>2 DEF Pending, Lit
  <2>4. FeedbackPending'
    BY <1>1, <2>1, <2>2 DEF FeedbackPending, Pending
  <2> QED
    BY <2>3, <2>4
<1>6. CASE SFeedback \/ SLedTimer
  <2>1. /\ spc \in Lit /\ spc' \in Lit
        /\ UNCHANGED <<current, visual_ack_done, armed>>
    BY <1>6 DEF SFeedback, SLedTimer, SGoto, Lit, windowVars, slotVars
  <2> QED
    BY <1>1, <2>1 DEF Pending, FeedbackPending, Lit
<1>7. ASSUME SReceive \/ SCheck \/ SWrite \/ SLast \/ SLocked \/ SExit
      PROVE  /\ spc \notin {"stop", "start"} /\ spc' \notin {"start"} \cup Lit
             /\ UNCHANGED <<visual_ack_done, armed>>
  <2>1. ASSUME CloseWindow PROVE spc' \in {"write", "locked"}
    BY <2>1 DEF CloseWindow
  <2> QED
    BY <1>7, <2>1 DEF SReceive, SCheck, SWrite, SLast, SLocked, SExit, SGoto, Lit, slotVars
<1>8. CASE SReceive \/ SCheck \/ SWrite \/ SLast \/ SLocked \/ SExit
  BY <1>1, <1>7, <1>8 DEF Pending, FeedbackPending, Lit
<1> QED
  BY <1>3, <1>4, <1>5, <1>6, <1>8, Zenon DEF Sync

LEMMA PendingTimerTask == NoCancel /\ Known /\ PendingInv /\ TimerTask => PendingInv'
<1> SUFFICES ASSUME NoCancel, Known, PendingInv, TimerTask PROVE PendingInv'
  OBVIOUS
<1> USE DEF PendingInv
<1>1. UNCHANGED <<now, spc, current, dpc>>
  BY Zenon DEF TimerTask, CExpire, CRead, CClear, CDispatch, CCancelClear, CCancelLed,
     CCancelStop, CLed, windowVars
<1>2. ASSUME NEW i \in Slots, CExpire(i) PROVE PendingInv'
  <2>1. /\ cpc' = "read" /\ cslot' = i /\ armed[i] <= now
        /\ armed' = [armed EXCEPT ![i] = Off] /\ UNCHANGED visual_ack_done /\ cpc = "idle"
    BY <1>2 DEF CExpire, CGoto, Known, Slotted
  <2>2. \A j \in Slots \ {i} : armed'[j] = armed[j]
    BY <2>1 DEF Known, Slotted
  <2>3. armed'[i] = Off
    BY <2>1 DEF Known, Slotted
  <2>4. spc \in LockPoints => current.id \in Slots
    BY DEF Known, Queued, Slots
  <2>5. dpc = "up" /\ spc \in Lit => current.id # i
    <3>1. SUFFICES ASSUME dpc = "up", spc \in Lit, current.id = i PROVE FALSE
      OBVIOUS
    <3>2. now < armed[i]
      BY <3>1 DEF Pending
    <3> QED
      BY <2>1, <3>2 DEF Known, Slotted
  <2>6. Pending'
    BY <1>1, <2>1, <2>2, <2>3, <2>4, <2>5 DEF Pending, LockPoints, Lit
  <2>7. FeedbackPending'
    BY <1>1, <2>1, <2>2 DEF FeedbackPending, Pending
  <2> QED
    BY <2>6, <2>7
<1>3. CASE CRead
  BY <1>1, <1>3 DEF CRead, CGoto, slotVars, Pending, FeedbackPending
<1>4. CASE CClear
  <2>1. /\ cpc = "clear" /\ cpc' = "dispatch" /\ UNCHANGED <<cslot, armed>> /\ cslot \in Slots
        /\ visual_ack_done' = [visual_ack_done EXCEPT ![cslot] = FALSE]
    BY <1>4 DEF CClear, CGoto, slotVars, Known, Slotted
  <2>2. \A i \in Slots \ {cslot} : visual_ack_done'[i] = visual_ack_done[i]
    BY <2>1 DEF Pending
  <2>3. visual_ack_done' \in [Slots -> BOOLEAN] /\ ~visual_ack_done'[cslot]
    BY <2>1 DEF Pending
  <2>4. Pending'
    BY <1>1, <2>1, <2>3 DEF Pending
  <2>5. FeedbackPending'
    BY <1>1, <2>1, <2>2, <2>3 DEF FeedbackPending
  <2> QED
    BY <2>4, <2>5
<1>5. CASE CDispatch
  <2>1. cpc = "dispatch" /\ UNCHANGED visual_ack_done
    BY <1>5, Zenon DEF CDispatch
  <2>2. ccmd.cmd # "CANCEL"
    BY <2>1, HeldIsNoCancel DEF Known, Slotted
  <2>3. cpc' = "idle" /\ UNCHANGED armed
    BY <1>5, <2>2, Zenon DEF CDispatch
  <2> QED
    BY <1>1, <2>1, <2>3 DEF Pending, FeedbackPending
<1>6. CASE CCancelClear \/ CCancelLed \/ CCancelStop
  BY <1>6 DEF CCancelClear, CCancelLed, CCancelStop, CGoto, Pending
<1>7. CASE CLed
  BY <1>1, <1>7 DEF CLed, slotVars, timerVars, Pending, FeedbackPending
<1> QED
  BY <1>2, <1>3, <1>4, <1>5, <1>6, <1>7, Zenon DEF TimerTask

LEMMA PendingStep == NoCancel /\ Known /\ PendingInv /\ [Next]_vars => PendingInv'
<1> SUFFICES ASSUME NoCancel, Known, PendingInv, [Next]_vars PROVE PendingInv'
  OBVIOUS
<1> USE DEF PendingInv
<1>1. CASE DDown
  <2>1. dpc' # "up" /\ UNCHANGED <<cpc, visual_ack_done>>
    BY <1>1 DEF DDown, DRequestStop, DStopTimers, DDelete, DGoto, timerVars
  <2> QED
    BY <2>1 DEF Pending, FeedbackPending
<1>2. CASE Elapse
  <2>1. /\ spc \in {"receive", "dead"} /\ spc' = spc
        /\ UNCHANGED <<current, armed, cpc, cslot, ccmd, dpc, visual_ack_done>>
    BY <1>2 DEF Elapse, windowVars, slotVars, timerVars
  <2> QED
    BY <2>1 DEF Pending, FeedbackPending, Lit
<1>3. ASSUME UNCHANGED vars \/ \E k \in Sent : Hear(k)
      PROVE  UNCHANGED <<now, spc, current, armed, cpc, cslot, ccmd, dpc, visual_ack_done>>
  BY <1>3, Zenon DEF vars, Hear, windowVars, slotVars, timerVars
<1>4. CASE UNCHANGED vars \/ \E k \in Sent : Hear(k)
  BY <1>3, <1>4 DEF Pending, FeedbackPending
<1> QED
  BY <1>1, <1>2, <1>4, PendingSync, PendingTimerTask, Zenon DEF Next

(* When nothing is cancelled, feedback is withheld only from a slot whose command is
   pending or being dispatched, for any commands that share slots or not, windows that
   close each other, and a teardown (bt_scheduler.cpp:73-76, 103, 205-225). *)
THEOREM FeedbackOnlyWhilePending ==
  ASSUME NoCancel
  PROVE  Spec => []FeedbackPending
<1>1. Init => Known /\ PendingInv
  BY KnownInit, PendingInit
<1>2. Known /\ PendingInv /\ [Next]_vars => (Known /\ PendingInv)'
  BY NoCancel, KnownStep, PendingStep
<1>3. Known /\ PendingInv => FeedbackPending
  BY DEF PendingInv
<1> QED
  BY <1>1, <1>2, <1>3, PTL DEF Spec

=============================================================================
