-------------------------------- MODULE Encoder --------------------------------
(***************************************************************************)
(* The RMT encoder of a WS2812B strip (LedController/src/ws2812b_encoder.c):*)
(* pixel bytes, then one reset symbol that makes the strip show them.  The  *)
(* RMT driver calls it whenever its memory has room, in interrupts, until   *)
(* it reports COMPLETE; a channel that is disabled resets it instead.       *)
(*                                                                          *)
(* A transmission is a sequence of symbols: the data symbols 1 .. n, and    *)
(* ResetCode.                                                               *)
(***************************************************************************)
EXTENDS Integers, Sequences

CONSTANTS
  DataSymbols,     \* bound: the numbers of data symbols a transmission may have
  RmtMemory,       \* symbols the RMT memory holds
  MaxTransmits     \* bound: transmissions

ASSUME EncoderAssumption ==
  /\ DataSymbols \subseteq Nat \ {0} /\ RmtMemory \in Nat \ {0} /\ MaxTransmits \in Nat

ResetCode == 0

VARIABLES
  heap,            \* what is allocated: the container and its two sub-encoders
  encoder,         \* the caller's handle: "none" while rmt_new_encoder builds it
  building,        \* where rmt_new_encoder is
  state,           \* encoder_t's: 0 pixel bytes, 1 the reset symbol
  bytesIndex,      \* data symbols the bytes encoder has encoded in its session
  transmission,    \* the driver's: how many data symbols it wants, 0 when it is idle
  sent,            \* history: the symbols sent since it began
  done,            \* history: the transmission reported COMPLETE, and its symbols
  transmits

allocVars   == <<heap, encoder, building>>
rmtVars     == <<transmission, sent, done, transmits>>
encoderVars == <<allocVars, state, bytesIndex, rmtVars>>

NotDone   == [wanted |-> 0, sent |-> <<>>]

EncoderInit ==
  /\ heap = {} /\ encoder = "none" /\ building = "no" /\ state = 0 /\ bytesIndex = 0
  /\ transmission = 0 /\ sent = <<>> /\ done = NotDone /\ transmits = 0

-----------------------------------------------------------------------------
(* rmt_new_encoder, whose allocations may fail, and del_encoder *)

\* One allocation; when it fails, what was allocated before it is given back.
Build(from, part, to) ==
  /\ building = from
  /\ \/ heap' = heap \cup {part} /\ building' = to
     \/ heap' = {} /\ building' = "no"
  /\ UNCHANGED <<encoder, state, bytesIndex, rmtVars>>

NewEncoder ==
  \/ /\ encoder = "none" /\ Build("no", "container", "bytes")
  \/ Build("bytes", "bytes", "copy")
  \/ Build("copy", "copy", "bind")
  \/ /\ building = "bind" /\ building' = "no" /\ encoder' = "made"
     /\ state' = 0 /\ bytesIndex' = 0
     /\ UNCHANGED <<heap, rmtVars>>

DelEncoder ==     \* the sub-encoders, then the container; the channel is deleted first
  /\ encoder = "made" /\ transmission = 0
  /\ heap' = heap \ {"bytes", "copy", "container"} /\ encoder' = "none"
  /\ UNCHANGED <<building, state, bytesIndex, rmtVars>>

-----------------------------------------------------------------------------
(* The RMT driver and encode *)

\* rmt_transmit starts a transmission without resetting the encoder.
Transmit(n) ==
  /\ encoder = "made" /\ transmission = 0 /\ transmits < MaxTransmits
  /\ transmits' = transmits + 1 /\ transmission' = n /\ sent' = <<>>
  /\ UNCHANGED <<allocVars, state, bytesIndex, done>>

\* Mutant of Interrupt: encoder_reset forgets the composite encoder's own state.
InterruptKeepsState ==
  /\ transmission > 0 /\ transmission' = 0
  /\ bytesIndex' = 0
  /\ UNCHANGED <<allocVars, state, sent, done, transmits>>

\* rmt_disable interrupts it and calls encoder_reset, which resets all three states.
Interrupt ==
  /\ transmission > 0 /\ transmission' = 0
  /\ state' = 0 /\ bytesIndex' = 0
  /\ UNCHANGED <<allocVars, sent, done, transmits>>

(* The sub-encoders: with `room` symbols of memory for what is `left`, they encode
   what fits; COMPLETE when all did, MEM_FULL when no memory is left, and both when
   it fits exactly. *)
Fits(left, room)     == left <= room
MemFull(left, room)  == room <= left
DataFrom(from, size) == [k \in 1 .. size |-> from + k]

Complete(symbols) ==
  /\ state' = 0 /\ sent' = sent \o symbols
  /\ done' = [wanted |-> transmission, sent |-> sent'] /\ transmission' = 0

Encode(room) ==
  /\ transmission > 0
  /\ LET left == transmission - bytesIndex IN
     IF state = 1
     THEN Complete(<<ResetCode>>) /\ UNCHANGED bytesIndex
     ELSE IF ~Fits(left, room)
     THEN /\ sent' = sent \o DataFrom(bytesIndex, room) /\ bytesIndex' = bytesIndex + room
          /\ UNCHANGED <<state, transmission, done>>
     ELSE /\ bytesIndex' = 0
          /\ IF MemFull(left, room)
             THEN /\ state' = 1 /\ sent' = sent \o DataFrom(bytesIndex, left)
                  /\ UNCHANGED <<transmission, done>>
             ELSE Complete(DataFrom(bytesIndex, left) \o <<ResetCode>>)
  /\ UNCHANGED <<allocVars, transmits>>

EncoderNext ==
  \/ NewEncoder \/ DelEncoder \/ Interrupt
  \/ \E n \in DataSymbols : Transmit(n)
  \/ \E room \in 1 .. RmtMemory : Encode(room)

EncoderSpec == EncoderInit /\ [][EncoderNext]_encoderVars

-----------------------------------------------------------------------------
(* A strip is sent its pixel data in order and then exactly one reset symbol, however
   the encoder is called and whatever transmission was interrupted before; while it
   is sent, no reset symbol has made it show half a frame (ws2812b_encoder.c:69-109,
   161-180). *)
DataThenReset ==
  /\ done # NotDone => done.sent = DataFrom(0, done.wanted) \o <<ResetCode>>
  /\ transmission > 0 => sent = DataFrom(0, Len(sent)) /\ Len(sent) <= transmission

=============================================================================
