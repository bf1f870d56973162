--------------------------- MODULE PlayerClockProof ---------------------------
(***************************************************************************)
(* Proofs about PlayerClock, for any set of seek targets, any length of     *)
(* time, and whether or not the timer driver fails.                         *)
(***************************************************************************)
EXTENDS PlayerClock, TLAPS

(* The step from the metronome's own state to the hardware timer behind it. *)
Driven == metronome = "RUNNING" => timer = "running"

Counting == state = "RUNNING" /\ with_metronome /\ ~muted => metronome = "RUNNING"

USE DEF clockVars, metronomeVars

-----------------------------------------------------------------------------
(* The clock operations keep the types. *)
LEMMA TypeStep == TypeOK /\ [Next]_vars => TypeOK'
<1> SUFFICES ASSUME TypeOK, [Next]_vars PROVE TypeOK'
  OBVIOUS
<1> USE TargetsAssumption DEF TypeOK
<1>1. ASSUME NEW metro \in BOOLEAN, ClockInit(metro) PROVE TypeOK'
  BY <1>1 DEF ClockInit, MetronomeInit
<1>2. CASE ClockDeinit
  <2>1. with_metronome' \in BOOLEAN /\ muted' \in BOOLEAN
    BY <1>2, Zenon DEF ClockDeinit
  <2>2. metronome' \in {"UNINIT", "STOPPED", "RUNNING"}
        /\ timer' \in {"none", "created", "enabled", "running"}
    BY <1>2, Zenon DEF ClockDeinit, MetronomeDeinit
  <2>3. /\ now' \in Nat /\ accumulated_us' \in Nat /\ last_start_us' \in 0 .. now'
        /\ state' \in {"UNINIT", "STOPPED", "RUNNING", "PAUSED"}
    <3>1. /\ now' = now
          /\ \/ UNCHANGED <<state, accumulated_us, last_start_us>>
             \/ accumulated_us' = 0 /\ last_start_us' = 0 /\ state' = "UNINIT"
      BY <1>2, Zenon DEF ClockDeinit
    <3> QED
      BY <3>1
  <2> QED
    BY <2>1, <2>2, <2>3
<1>3. CASE Start
  BY <1>3 DEF Start, MetronomeStart
<1>4. CASE Pause
  <2>1. with_metronome' \in BOOLEAN /\ muted' \in BOOLEAN
    BY <1>4, Zenon DEF Pause
  <2>2. /\ metronome' \in {"UNINIT", "STOPPED", "RUNNING"}
        /\ timer' \in {"none", "created", "enabled", "running"}
    BY <1>4, Zenon DEF Pause, MetronomeStop
  <2> QED
    BY <1>4, <2>1, <2>2 DEF Pause
<1>5. CASE Reset
  <2>1. with_metronome' \in BOOLEAN /\ muted' \in BOOLEAN
    BY <1>5, Zenon DEF Reset
  <2>2. /\ metronome' \in {"UNINIT", "STOPPED", "RUNNING"}
        /\ timer' \in {"none", "created", "enabled", "running"}
    BY <1>5, Zenon DEF Reset, MetronomeStop
  <2> QED
    BY <1>5, <2>1, <2>2 DEF Reset
<1>6. ASSUME NEW t \in Targets, SetTime(t) PROVE TypeOK'
  BY <1>6 DEF SetTime
<1>7. CASE Elapse
  BY <1>7 DEF Elapse
<1>8. CASE UNCHANGED vars
  BY <1>8 DEF vars
<1> QED
  BY <1>1, <1>2, <1>3, <1>4, <1>5, <1>6, <1>7, <1>8 DEF Next

(* Every state of the clock is well typed. *)
THEOREM TypeCorrect == Spec => []TypeOK
<1>1. Init => TypeOK
  <2> SUFFICES ASSUME Init PROVE TypeOK
    OBVIOUS
  <2>1. with_metronome \in BOOLEAN /\ muted \in BOOLEAN
    BY Zenon DEF Init
  <2> QED
    BY <2>1 DEF Init, TypeOK
<1> QED
  BY <1>1, TypeStep, PTL DEF Spec

-----------------------------------------------------------------------------
(* No call makes the clock count without the timer, whatever the driver does. *)
LEMMA SilentStep == Driven /\ Counting /\ [Next]_vars => Driven' /\ Counting'
<1> SUFFICES ASSUME Driven, Counting, [Next]_vars PROVE Driven' /\ Counting'
  OBVIOUS
<1> USE DEF Driven, Counting
<1>1. ASSUME NEW metro \in BOOLEAN, ClockInit(metro) PROVE Driven' /\ Counting'
  BY <1>1 DEF ClockInit, MetronomeInit
<1>2. CASE ClockDeinit
  BY <1>2 DEF ClockDeinit, MetronomeDeinit
<1>3. CASE Start
  BY <1>3 DEF Start, MetronomeStart
<1>4. CASE Pause
  BY <1>4 DEF Pause, MetronomeStop
<1>5. CASE Reset
  BY <1>5 DEF Reset, MetronomeStop
<1>6. ASSUME NEW t \in Targets, SetTime(t) PROVE Driven' /\ Counting'
  BY <1>6 DEF SetTime
<1>7. CASE Elapse
  BY <1>7 DEF Elapse
<1>8. CASE UNCHANGED vars
  BY <1>8 DEF vars
<1> QED
  BY <1>1, <1>2, <1>3, <1>4, <1>5, <1>6, <1>7, <1>8 DEF Next

(* Whenever the clock counts, the timer that wakes the player is running. *)
THEOREM ClockNeverSilent == Spec => []NeverSilent
<1>1. Init => Driven /\ Counting
  BY DEF Init, Driven, Counting
<1>2. Driven /\ Counting => NeverSilent
  BY DEF Driven, Counting, NeverSilent
<1> QED
  BY <1>1, <1>2, SilentStep, PTL DEF Spec

-----------------------------------------------------------------------------
(* Each operation of the clock is an operation of the stopwatch, or leaves it
   alone when a driver call fails. *)
LEMMA StopwatchStep == TypeOK /\ [Next]_vars => [SW!Next]_(SW!vars)
<1> SUFFICES ASSUME TypeOK, [Next]_vars PROVE [SW!Next]_(SW!vars)
  OBVIOUS
<1> USE DEF TypeOK, Mode, Shown, SW!vars
<1>1. ASSUME NEW metro \in BOOLEAN, ClockInit(metro) PROVE [SW!Next]_(SW!vars)
  BY <1>1 DEF ClockInit, SW!Open, SW!Next
<1>2. CASE ClockDeinit
  <2>1. CASE UNCHANGED clockVars
    BY <1>2, <2>1 DEF ClockDeinit
  <2>2. CASE state' = "UNINIT"
    BY <1>2, <2>2 DEF ClockDeinit, SW!Close, SW!Next
  <2>3. UNCHANGED clockVars \/ state' = "UNINIT"
    BY <1>2, Zenon DEF ClockDeinit
  <2> QED
    BY <2>1, <2>2, <2>3
<1>3. CASE Start
  <2>1. /\ state \in {"STOPPED", "PAUSED"}
        /\ now' = now /\ accumulated_us' = accumulated_us /\ last_start_us' = now
        /\ state' = state \/ state' = "RUNNING"
    BY <1>3, Zenon DEF Start
  <2>2. CASE state' = state
    BY <2>1, <2>2
  <2>3. CASE state' = "RUNNING"
    BY <2>1, <2>3 DEF SW!Run, SW!Next
  <2> QED
    BY <2>1, <2>2, <2>3
<1>4. CASE Pause
  BY <1>4 DEF Pause, SW!Hold, SW!Next
<1>5. CASE Reset
  BY <1>5 DEF Reset, SW!Zero, SW!Next
<1>6. ASSUME NEW t \in Targets, SetTime(t) PROVE [SW!Next]_(SW!vars)
  BY <1>6, TargetsAssumption DEF SetTime, SW!Set, SW!Next
<1>7. CASE Elapse
  BY <1>7 DEF Elapse, SW!Elapse, SW!Next
<1>8. CASE UNCHANGED vars
  BY <1>8 DEF vars
<1> HIDE DEF TypeOK, Mode, Shown, SW!vars
<1> QED
  BY <1>1, <1>2, <1>3, <1>4, <1>5, <1>6, <1>7, <1>8 DEF Next

(* The clock with its metronome implements the stopwatch. *)
THEOREM ClockIsStopwatch == Spec => IsStopwatch
<1>1. Init => SW!Init
  BY DEF Init, SW!Init, Mode, Shown
<1> QED
  BY <1>1, TypeCorrect, StopwatchStep, PTL DEF Spec, SW!Spec, IsStopwatch

=============================================================================
