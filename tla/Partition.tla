------------------------------- MODULE Partition -------------------------------
(***************************************************************************)
(* The light table partition (ld_storage/ld_partition.c): a writer that     *)
(* erases a range of flash and fills it from the front, and a reader that   *)
(* reads one.  Flash is erased in units of EraseSize; programming can only  *)
(* clear bits, so a byte programmed twice with different data is garbage.   *)
(*                                                                          *)
(* A byte of data is the pair of the writing session it belongs to and its  *)
(* address.  Whoever writes repeats the same bytes when a write fails.      *)
(***************************************************************************)
EXTENDS Integers

CONSTANTS
  PartitionSize,   \* of the light_table partition
  EraseSize,       \* LD_PARTITION_ERASE_SIZE
  SizeWord,        \* 2^32, size_t wraps there
  Requests,        \* the offsets and sizes that callers pass
  MaxBegins,       \* bound: writing sessions
  MaxFlashFaults   \* bound: flash operations that fail, power cuts

ASSUME PartitionAssumption ==
  /\ PartitionSize \in Nat /\ EraseSize \in Nat \ {0} /\ SizeWord \in Nat
  /\ PartitionSize + EraseSize <= SizeWord /\ Requests \subseteq 0 .. SizeWord - 1
  /\ MaxBegins \in Nat /\ MaxFlashFaults \in Nat

VARIABLES
  flash,          \* content of each byte
  writer, reader, \* ld_partition_writer_t, ld_partition_reader_t; begin is history
  session,        \* writing sessions begun
  table,          \* history: the range last completed, until an erase disturbs it
  got,            \* history: the bytes the reader has returned since it began,
                  \* and what was complete then
  flashFaults

partitionVars == <<flash, writer, reader, session, table, got, flashFaults>>

Addresses == 0 .. PartitionSize - 1
Erased    == <<0, 0>>
Garbage   == <<0, 1>>
Byte(s, a) == <<s, a>>
NoTable   == [session |-> 0, offset |-> 0, end |-> 0]
Closed    == [started |-> FALSE, begin |-> 0, offset |-> 0, end |-> 0]
Open(offset, end) == [started |-> TRUE, begin |-> offset, offset |-> offset, end |-> end]

PartitionInit ==
  /\ flash = [a \in Addresses |-> Garbage]
  /\ writer = Closed /\ reader = Closed
  /\ session = 0 /\ table = NoTable
  /\ got = [table |-> NoTable, bytes |-> [a \in Addresses |-> Garbage]]
  /\ flashFaults = 0

AlignUp(value) == (((value + EraseSize - 1) % SizeWord) \div EraseSize) * EraseSize

InRange(offset, size) == offset <= PartitionSize /\ size <= PartitionSize - offset

Program(cell, byte) == IF cell \in {Erased, byte} THEN byte ELSE Garbage

FlashFault == flashFaults < MaxFlashFaults /\ flashFaults' = flashFaults + 1

-----------------------------------------------------------------------------
(* The writer *)

\* Erasing may fail after any part of the range.
Erase(offset, end) ==
  /\ flash' = [a \in Addresses |-> IF offset <= a /\ a < end THEN Erased ELSE flash[a]]
  /\ table' = IF offset < table.end /\ table.offset < end THEN NoTable ELSE table

WriterBegin(offset, total) ==
  /\ session < MaxBegins /\ session' = session + 1
  /\ UNCHANGED <<reader, got>>
  /\ LET end == offset + AlignUp(total) IN
     IF InRange(offset, total) /\ offset % EraseSize = 0 /\ InRange(offset, AlignUp(total))
     THEN \/ /\ Erase(offset, end)
             /\ writer' = Open(offset, offset + total)
             /\ UNCHANGED flashFaults
          \/ /\ FlashFault /\ writer' = Closed
             /\ \E part \in offset .. end : Erase(offset, part)
     ELSE writer' = Closed /\ UNCHANGED <<flash, table, flashFaults>>

\* A write that fails has programmed any part of its bytes.
Put(size) ==
  flash' = [a \in Addresses |-> IF writer.offset <= a /\ a < writer.offset + size
                                THEN Program(flash[a], Byte(session, a)) ELSE flash[a]]

\* Mutant of Write: the offset advances before the flash is programmed.
WriteAdvancesFirst(size) ==
  /\ writer.started /\ size <= writer.end - writer.offset
  /\ writer' = [writer EXCEPT !.offset = @ + size]
  /\ \/ Put(size) /\ UNCHANGED flashFaults
     \/ FlashFault /\ \E part \in 0 .. size : Put(part)
  /\ UNCHANGED <<reader, session, table, got>>

Write(size) ==
  /\ writer.started /\ writer.offset <= writer.end /\ size <= writer.end - writer.offset
  /\ \/ /\ Put(size) /\ UNCHANGED flashFaults
        /\ writer' = [writer EXCEPT !.offset = @ + size]
     \/ /\ FlashFault /\ UNCHANGED writer
        /\ \E part \in 0 .. size : Put(part)
  /\ UNCHANGED <<reader, session, table, got>>

WriterEnd ==      \* an incomplete writer stays open
  /\ writer.started /\ writer.offset = writer.end
  /\ writer' = Closed
  /\ table' = [session |-> session, offset |-> writer.begin, end |-> writer.end]
  /\ UNCHANGED <<flash, reader, session, got, flashFaults>>

-----------------------------------------------------------------------------
(* The reader *)

ReaderBegin(offset, total) ==
  /\ reader' = IF InRange(offset, total) THEN Open(offset, offset + total) ELSE Closed
  /\ got' = [table |-> table, bytes |-> [a \in Addresses |-> Garbage]]
  /\ UNCHANGED <<flash, writer, session, table, flashFaults>>

\* A read that fails returns nothing.  At the end of the range it returns no bytes.
Read(dstSize) ==
  /\ reader.started /\ dstSize > 0
  /\ LET left == reader.end - reader.offset
         size == IF dstSize < left THEN dstSize ELSE left
         end  == reader.offset + size IN
     \/ /\ reader' = [reader EXCEPT !.offset = end] /\ UNCHANGED flashFaults
        /\ got' = [got EXCEPT !.bytes = [a \in Addresses |->
                     IF reader.offset <= a /\ a < end THEN flash[a] ELSE @[a]]]
     \/ size > 0 /\ FlashFault /\ UNCHANGED <<reader, got>>
  /\ UNCHANGED <<flash, writer, session, table>>

ReaderEnd ==
  /\ reader.started /\ reader.offset = reader.end
  /\ reader' = Closed
  /\ UNCHANGED <<flash, writer, session, table, got, flashFaults>>

\* Both structures are in memory, the flash is not.
PowerCut ==
  /\ FlashFault /\ writer' = Closed /\ reader' = Closed
  /\ UNCHANGED <<flash, session, table, got>>

PartitionNext ==
  \/ \E offset, total \in Requests : WriterBegin(offset, total) \/ ReaderBegin(offset, total)
  \/ \E size \in Requests : Write(size) \/ Read(size)
  \/ WriterEnd \/ ReaderEnd \/ PowerCut

PartitionSpec == PartitionInit /\ [][PartitionNext]_partitionVars

-----------------------------------------------------------------------------
Bounds  == 0 .. PartitionSize
Handles == [started : BOOLEAN, begin : Bounds, offset : Bounds, end : Bounds]
Tables  == [session : Nat, offset : Bounds, end : Bounds]

PartitionTypeOK ==
  /\ flash \in [Addresses -> Nat \X Nat]
  /\ writer \in Handles /\ reader \in Handles
  /\ session \in 0 .. MaxBegins /\ flashFaults \in 0 .. MaxFlashFaults
  /\ table \in Tables /\ got \in [table : Tables, bytes : [Addresses -> Nat \X Nat]]

\* What was reported complete is in flash, byte for byte.
TableIntact ==
  \A a \in Addresses :
    table.offset <= a /\ a < table.end => flash[a] = Byte(table.session, a)

\* What was read of it since a reader began is that table.
ReadsTable ==
  reader.started /\ got.table = table =>
    \A a \in Addresses :
      reader.begin <= a /\ a < reader.offset /\ table.offset <= a /\ a < table.end
        => got.bytes[a] = Byte(table.session, a)

(* What writer_end() has reported as complete stays in flash and is what a reader
   returns, through writes and reads that failed and were repeated, reads cut anywhere,
   later sessions elsewhere and power cuts, until an erase reaches it
   (ld_partition.c:42-163). *)
TableKept == TableIntact /\ ReadsTable

=============================================================================
