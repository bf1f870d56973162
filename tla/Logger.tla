--------------------------------- MODULE Logger ---------------------------------
(***************************************************************************)
(* The persistent logger (SD/sd_logger.c): log lines of every task go into  *)
(* a ring buffer under a mutex, and from there to a file, by its own task   *)
(* and once more before a restart.  Nobody waits long for the mutex: a line *)
(* that cannot have it is dropped, a flush is skipped.                      *)
(*                                                                          *)
(* The characters logged are numbered; the ring has no room check, so a     *)
(* writer that laps the reader makes it forget whole laps.                  *)
(***************************************************************************)
EXTENDS Integers, Sequences

CONSTANTS
  BufferSize,     \* BUFFER_SIZE
  LineSizes,      \* bound: the lengths of lines
  MaxLogged,      \* bound: characters logged
  MaxShort        \* bound: fwrites that write less than they should

ASSUME LoggerAssumption ==
  /\ BufferSize \in Nat \ {0} /\ LineSizes \subseteq 0 .. BufferSize /\ MaxLogged \in Nat /\ MaxShort \in Nat

Flushers == {"flush_task", "sd_log_flush"}
Nobody   == "nobody"

VARIABLES
  head, tail, data,   \* ring_buffer_t
  mutex,              \* who holds it
  flushing,           \* the holder's flush_buffer: next part to write, bytes written
  logged,             \* history: characters logged
  logFile,            \* the numbers of the characters in the file
  short               \* fwrites that came up short

loggerVars == <<head, tail, data, mutex, flushing, logged, logFile, short>>

NotFlushing == [part |-> "none", written |-> 0]

LoggerInit ==
  /\ head = 0 /\ tail = 0 /\ data = [i \in 0 .. BufferSize - 1 |-> 0]
  /\ mutex = Nobody /\ flushing = NotFlushing
  /\ logged = 0 /\ logFile = <<>> /\ short = 0

Log(size) ==
  /\ mutex = Nobody /\ logged + size <= MaxLogged
  /\ head' = (head + size) % BufferSize /\ logged' = logged + size
  /\ data' = [i \in DOMAIN data |->
       LET age == (head' - 1 - i) % BufferSize IN    \* characters written after this one
       IF age < size THEN logged' - age ELSE data[i]]
  /\ UNCHANGED <<tail, mutex, flushing, logFile, short>>

-----------------------------------------------------------------------------
(* flush_buffer, in flush_task and in sd_log_flush *)

\* Mutant of Take: a flush that could not have the mutex in time goes on without it.
TakeAnyway(f) ==
  /\ mutex # f
  /\ mutex' = f
  /\ flushing' = IF head = tail THEN NotFlushing ELSE [part |-> "first", written |-> 0]
  /\ UNCHANGED <<head, tail, data, logged, logFile, short>>

Take(f) ==
  /\ mutex = Nobody /\ mutex' = f
  /\ flushing' = IF head = tail THEN NotFlushing ELSE [part |-> "first", written |-> 0]
  /\ UNCHANGED <<head, tail, data, logged, logFile, short>>

\* fwrite of data[from .. to - 1], or of a shorter part.
Fwrite(from, to, next) ==
  \E n \in 0 .. to - from :
    /\ \/ n = to - from /\ UNCHANGED short
       \/ n < to - from /\ short < MaxShort /\ short' = short + 1
    /\ logFile' = logFile \o [k \in 1 .. n |-> data[from + k - 1]]
    /\ flushing' = [part |-> next, written |-> flushing.written + n]

WriteFirst ==     \* up to head, or to the end of the ring
  /\ flushing.part = "first"
  /\ IF head > tail THEN Fwrite(tail, head, "sync") ELSE Fwrite(tail, BufferSize, "second")
  /\ UNCHANGED <<head, tail, data, mutex, logged>>

WriteSecond ==    \* and from the start of the ring, however much the first one wrote
  /\ flushing.part = "second" /\ Fwrite(0, head, "sync")
  /\ UNCHANGED <<head, tail, data, mutex, logged>>

Sync ==
  /\ flushing.part = "sync" /\ flushing' = NotFlushing
  /\ tail' = (tail + flushing.written) % BufferSize
  /\ UNCHANGED <<head, data, mutex, logged, logFile, short>>

Give ==
  /\ mutex # Nobody /\ flushing = NotFlushing /\ mutex' = Nobody
  /\ UNCHANGED <<head, tail, data, flushing, logged, logFile, short>>

LoggerNext ==
  \/ \E size \in LineSizes : Log(size)
  \/ \E f \in Flushers : Take(f)
  \/ WriteFirst \/ WriteSecond \/ Sync \/ Give

LoggerSpec == LoggerInit /\ [][LoggerNext]_loggerVars

-----------------------------------------------------------------------------
Unread == (head - tail) % BufferSize

\* What is missing in the file is whole laps of the ring.
FileInOrder ==
  \A i \in 2 .. Len(logFile) :
    logFile[i] > logFile[i - 1] /\ (logFile[i] - logFile[i - 1]) % BufferSize = 1 % BufferSize

UnreadIsNewest ==
  \A k \in 1 .. Unread : data[(tail + k - 1) % BufferSize] = logged - Unread + k

(* However the two flushers and the logging task interleave, the file holds the log in
   order, no character twice and none before an older one, unless a write came up short;
   and what the ring says is unread is the end of the log, even after a writer has lapped
   the reader (sd_logger.c:31-73). *)
LogInOrder == (short = 0 => FileInOrder) /\ UnreadIsNewest

=============================================================================
