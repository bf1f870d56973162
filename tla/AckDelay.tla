-------------------------------- MODULE AckDelay --------------------------------
(***************************************************************************)
(* What an ACK says: the command locked last and the time it has left.  The *)
(* delay goes from the packet's milliseconds (Messenger/src/                *)
(* bt_protocol.cpp) through the microseconds of s_last_locked_cmd           *)
(* (bt_scheduler.cpp) back to the ACK's milliseconds.  The synchronisation  *)
(* task writes the cache field by field while a CHECK, in the timer task,   *)
(* reads it.                                                                *)
(***************************************************************************)
EXTENDS Integers, Sequences, FiniteSetsExt

CONSTANTS
  Word,          \* 2^32: unsigned integers wrap there, signed ones at half of it
  UsPerMs,       \* 1000
  Delays,        \* bound: the delays of packets, in ms
  Waits,         \* bound: the time that passes between two steps
  MaxLocks,      \* bound: commands locked
  MaxNow         \* bound: time

ASSUME AckDelayAssumption ==
  /\ Word \in Nat \ {0} /\ UsPerMs \in Nat \ {0} /\ Delays \subseteq Nat /\ Waits \subseteq Nat
  /\ MaxLocks \in Nat /\ MaxNow \in Nat

VARIABLES
  clock,         \* esp_timer_get_time, 64 bits wide
  lock,          \* the synchronisation task: its point, the command it locks and its wait_us
  cache,         \* s_last_locked_cmd
  check,         \* the CHECK: its point, remaining_us and, as history, when it read it
  answer,        \* the last ACK: its command and milliseconds; when, and whether it met a lock
  asked          \* history: of each command, by number, the delay in the packet, when it
                 \* was locked and how long that took

ackDelayVars == <<clock, lock, cache, check, answer, asked>>

Us(ms)     == (ms * UsPerMs) % Word                  \* delay_val
Signed(us) == IF us % Word < Word \div 2 THEN us % Word ELSE (us % Word) - Word

NoLock   == [pc |-> "idle", wait |-> 0]
NoCheck  == [pc |-> "idle", left |-> 0, at |-> 0, torn |-> FALSE]
NoAnswer == [cmd |-> 0, ms |-> 0, at |-> 0, torn |-> FALSE]

AckDelayInit ==
  /\ clock = 0 /\ lock = NoLock /\ check = NoCheck /\ answer = NoAnswer
  /\ cache = [cmd |-> 0, delay |-> 0, stamp |-> 0] /\ asked = <<>>

-----------------------------------------------------------------------------
(* The synchronisation task: wait_us is computed, the slot's timer started, the lock
   logged; then the cache is written. *)
Meets == [check EXCEPT !.torn = check.pc # "idle"]

Lock(ms) ==
  /\ lock.pc = "idle" /\ Len(asked) < MaxLocks
  /\ lock' = [pc |-> "cmd", wait |-> Us(ms)]
  /\ asked' = Append(asked, [delay |-> ms * UsPerMs, at |-> clock, slip |-> 0])
  /\ check' = Meets
  /\ UNCHANGED <<clock, cache, answer>>

StoreCmd ==
  /\ lock.pc = "cmd" /\ lock' = [lock EXCEPT !.pc = "delay"]
  /\ cache' = [cache EXCEPT !.cmd = Len(asked)] /\ check' = Meets
  /\ UNCHANGED <<clock, answer, asked>>

StoreDelay ==
  /\ lock.pc = "delay" /\ lock' = [lock EXCEPT !.pc = "stamp"]
  /\ cache' = [cache EXCEPT !.delay = lock.wait] /\ check' = Meets
  /\ UNCHANGED <<clock, answer, asked>>

StoreStamp ==
  /\ lock.pc = "stamp" /\ lock' = NoLock
  /\ cache' = [cache EXCEPT !.stamp = clock] /\ check' = Meets
  /\ asked' = [asked EXCEPT ![Len(asked)].slip = clock - asked[Len(asked)].at]
  /\ UNCHANGED <<clock, answer>>

-----------------------------------------------------------------------------
(* A CHECK: LPS_CMD_CHECK of the dispatcher, then bt_protocol_build_ack_adv_data *)

\* Mutant of Remaining: a command that is overdue is not reported as due.
RemainingUnclamped == Signed(cache.stamp + cache.delay - clock) % Word

Remaining == Max({0, Signed(cache.stamp + cache.delay - clock)})

ReadLeft ==
  /\ check.pc = "idle" /\ asked # <<>>
  /\ check' = [pc |-> "answer", left |-> Remaining, at |-> clock, torn |-> lock.pc # "idle"]
  /\ answer' = NoAnswer
  /\ UNCHANGED <<clock, lock, cache, asked>>

Answer ==
  /\ check.pc = "answer" /\ check' = NoCheck
  /\ answer' = [cmd |-> cache.cmd, ms |-> check.left \div UsPerMs, at |-> check.at,
                torn |-> check.torn]
  /\ UNCHANGED <<clock, lock, cache, asked>>

Pass(wait) ==
  /\ clock + wait <= MaxNow /\ clock' = clock + wait
  /\ UNCHANGED <<lock, cache, check, answer, asked>>

AckDelayNext ==
  \/ \E ms \in Delays : Lock(ms)
  \/ StoreCmd \/ StoreDelay \/ StoreStamp \/ ReadLeft \/ Answer
  \/ \E wait \in Waits : Pass(wait)

AckDelaySpec == AckDelayInit /\ [][AckDelayNext]_ackDelayVars

-----------------------------------------------------------------------------
(* An ACK that met no lock names a command and the time it has left, to the millisecond,
   or more by what the lock took after its delay was computed.  That is so for delays
   below half of the 32 bits, 35 minutes, and up to 35 minutes after the command was due:
   one that is further away is reported as due, and one that was due longer ago as ahead
   (bt_scheduler.cpp:111-121, 227-232; bt_protocol.cpp:64, 85-114). *)
AnswerIsTimely ==
  answer.cmd # 0 /\ ~answer.torn =>
    LET a    == asked[answer.cmd]
        due  == a.at + a.delay
        left == Max({0, due - answer.at})
        us   == answer.ms * UsPerMs
    IN  a.delay < Word \div 2 /\ answer.at - due <= Word \div 2
          => us > left - UsPerMs /\ us <= left + a.slip

=============================================================================
