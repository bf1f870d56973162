------------------------------ MODULE PlayerClock ------------------------------
(***************************************************************************)
(* PlayerClock and the PlayerMetronome it owns (Player/src/player_clock.cpp)*)
(* over the ESP timer (the wall clock now) and one general purpose timer.   *)
(* The player task makes every call, one at a time.                         *)
(***************************************************************************)
EXTENDS Integers

CONSTANTS
  Targets,   \* times a seek may ask for
  MaxNow,    \* bound: the last wall-clock time
  Faults     \* whether a call to the timer driver may fail

ASSUME TargetsAssumption == Targets \subseteq Nat
ASSUME MaxNowAssumption  == MaxNow \in Nat
ASSUME FaultsAssumption  == Faults \in BOOLEAN

VARIABLES
  now,                                    \* esp_timer_get_time()
  state, accumulated_us, last_start_us,   \* PlayerClock
  with_metronome,
  metronome,                              \* PlayerMetronome::state
  timer,    \* the gptimer behind metronome.timer, "none" for nullptr
  muted     \* history: a deinit of the running clock has failed, and it was not stopped since

clockVars == <<state, accumulated_us, last_start_us, with_metronome>>
metronomeVars == <<metronome, timer>>
vars == <<now, clockVars, metronomeVars, muted>>

Init ==
  /\ now = 0
  /\ state = "UNINIT" /\ accumulated_us = 0 /\ last_start_us = 0
  /\ with_metronome = FALSE
  /\ metronome = "UNINIT" /\ timer = "none"
  /\ muted = FALSE

-----------------------------------------------------------------------------
(* PlayerMetronome.  Each operator says how one call may leave the metronome
   and whether it returns ESP_OK. *)

(* gptimer_new_timer, then three calls that configure the timer.  When one of
   those fails, deinit() cannot disable a timer that was never enabled, and
   leaves it behind. *)
MetronomeInit(ok) ==
  \/ /\ ok /\ metronome = "UNINIT"
     /\ metronome' = "STOPPED" /\ timer' = "enabled"
  \/ /\ ok /\ metronome # "UNINIT"
     /\ UNCHANGED metronomeVars
  \/ /\ ~ok /\ Faults /\ metronome = "UNINIT"
     /\ timer' \in {timer, "created"} /\ UNCHANGED metronome

(* start: nothing to do when it is running.  A timer that a failed deinit has disabled
   cannot be started. *)
MetronomeStart(ok) ==
  \/ ok /\ metronome = "RUNNING" /\ UNCHANGED metronomeVars
  \/ /\ ok /\ metronome = "STOPPED" /\ timer = "enabled"
     /\ metronome' = "RUNNING" /\ timer' = "running"
  \/ ~ok /\ metronome = "STOPPED" /\ (timer = "enabled" => Faults) /\ UNCHANGED metronomeVars

(* stop, whose result pause, reset and deinit ignore *)
MetronomeStop ==
  \/ metronome = "RUNNING" /\ metronome' = "STOPPED" /\ timer' = "enabled"
  \/ (metronome = "RUNNING" => Faults) /\ UNCHANGED metronomeVars

(* deinit: stop, disable, delete.  Only an enabled, stopped timer can be
   disabled, only a disabled one deleted. *)
MetronomeDeinit(ok) ==
  \/ /\ ok /\ timer \in {"running", "enabled"}
     /\ metronome' = "UNINIT" /\ timer' = "none"
  \/ /\ ok /\ metronome = "UNINIT" /\ timer = "none"
     /\ UNCHANGED metronomeVars
  \/ /\ ~ok /\ timer \in {"running", "enabled"} /\ Faults
     /\ \/ UNCHANGED metronomeVars
        \/ metronome' = "STOPPED" /\ timer' \in {"enabled", "created"}
  \/ /\ ~ok /\ timer = "created"
     /\ UNCHANGED metronomeVars

-----------------------------------------------------------------------------
(* PlayerClock *)

Shown ==          \* now_us()
  CASE state = "UNINIT"  -> 0
    [] state = "RUNNING" -> accumulated_us + (now - last_start_us)
    [] OTHER             -> accumulated_us

ClockInit(metro) ==
  /\ state = "UNINIT"
  /\ accumulated_us' = 0 /\ last_start_us' = 0
  /\ with_metronome' = metro
  /\ \/ /\ IF metro THEN MetronomeInit(TRUE) ELSE UNCHANGED metronomeVars
        /\ state' = "STOPPED"
     \/ /\ metro /\ MetronomeInit(FALSE)
        /\ UNCHANGED state
  /\ UNCHANGED <<now, muted>>

ClockDeinit ==
  /\ state # "UNINIT"
  /\ \/ /\ IF with_metronome THEN MetronomeDeinit(TRUE)
                             ELSE UNCHANGED metronomeVars
        /\ accumulated_us' = 0 /\ last_start_us' = 0
        /\ with_metronome' = FALSE
        /\ state' = "UNINIT" /\ muted' = FALSE
     \/ /\ with_metronome /\ MetronomeDeinit(FALSE)
        /\ muted' = (state = "RUNNING")
        /\ UNCHANGED clockVars
  /\ UNCHANGED now

\* Mutant of Start: the clock runs although its metronome did not start.
StartRegardless ==
  /\ state \in {"STOPPED", "PAUSED"}
  /\ last_start_us' = now
  /\ IF with_metronome THEN \E ok \in BOOLEAN : MetronomeStart(ok)
                       ELSE UNCHANGED metronomeVars
  /\ state' = "RUNNING"
  /\ UNCHANGED <<now, accumulated_us, with_metronome, muted>>

Start ==
  /\ state \in {"STOPPED", "PAUSED"}
  /\ last_start_us' = now
  /\ \/ /\ IF with_metronome THEN MetronomeStart(TRUE)
                             ELSE UNCHANGED metronomeVars
        /\ state' = "RUNNING"
     \/ /\ with_metronome /\ MetronomeStart(FALSE)
        /\ UNCHANGED state
  /\ UNCHANGED <<now, accumulated_us, with_metronome, muted>>

\* Mutant of Pause: the run is not accumulated.
PauseForgets ==
  /\ state = "RUNNING"
  /\ IF with_metronome THEN MetronomeStop ELSE UNCHANGED metronomeVars
  /\ state' = "PAUSED" /\ muted' = FALSE
  /\ UNCHANGED <<now, accumulated_us, last_start_us, with_metronome>>

Pause ==
  /\ state = "RUNNING"
  /\ accumulated_us' = accumulated_us + (now - last_start_us)
  /\ IF with_metronome THEN MetronomeStop ELSE UNCHANGED metronomeVars
  /\ state' = "PAUSED" /\ muted' = FALSE
  /\ UNCHANGED <<now, last_start_us, with_metronome>>

Reset ==
  /\ state # "UNINIT"
  /\ accumulated_us' = 0
  /\ last_start_us' = IF state = "RUNNING" THEN now ELSE last_start_us
  /\ IF with_metronome THEN MetronomeStop ELSE UNCHANGED metronomeVars
  /\ state' = "STOPPED" /\ muted' = FALSE
  /\ UNCHANGED <<now, with_metronome>>

SetTime(t) ==
  /\ state \in {"STOPPED", "PAUSED"}
  /\ accumulated_us' = t
  /\ last_start_us' = now
  /\ UNCHANGED <<now, state, with_metronome, metronomeVars, muted>>

(* The wall clock moves on. *)
Elapse ==
  /\ now < MaxNow
  /\ now' = now + 1
  /\ UNCHANGED <<clockVars, metronomeVars, muted>>

Next ==
  \/ \E metro \in BOOLEAN : ClockInit(metro)
  \/ ClockDeinit \/ Start \/ Pause \/ Reset
  \/ \E t \in Targets : SetTime(t)
  \/ Elapse

Spec == Init /\ [][Next]_vars

-----------------------------------------------------------------------------
TypeOK ==
  /\ now \in Nat
  /\ state \in {"UNINIT", "STOPPED", "RUNNING", "PAUSED"}
  /\ accumulated_us \in Nat
  /\ last_start_us \in 0 .. now
  /\ with_metronome \in BOOLEAN
  /\ metronome \in {"UNINIT", "STOPPED", "RUNNING"}
  /\ timer \in {"none", "created", "enabled", "running"}
  /\ muted \in BOOLEAN

(* A running clock is never silent: the timer that notifies the player is running
   whenever the clock counts, even after earlier calls to the timer driver failed or a
   failed deinit was followed by a reset.  Only the failed deinit of a running clock leaves
   it counting without one, until it is stopped (player_clock.cpp:116-141, 221-295). *)
NeverSilent ==
  state = "RUNNING" /\ with_metronome /\ ~muted => timer = "running"

(* The clock is a stopwatch: pausing, resuming, failed starts and failed
   deinits never move the time, and it never runs backwards. *)
Mode == CASE state = "UNINIT" -> "closed" [] state = "RUNNING" -> "running"
          [] OTHER -> "held"

SW == INSTANCE Stopwatch WITH mode <- Mode, shown <- Shown

IsStopwatch == SW!Spec

=============================================================================
