----------------------------- MODULE UnitsProof -----------------------------
(***************************************************************************)
(* Proofs about the units that share no state, for any values of their      *)
(* constants: what is read, stored, computed or encoded in one place, by    *)
(* however many steps and with however many faults.  Each unit has a part   *)
(* of its own: its invariant, a lemma per action, the theorem.              *)
(***************************************************************************)
EXTENDS AckDelay, Colour, Encoder, Logger, Partition, PressureReceiver, Settings,
        SingleBuffer, SequenceTheorems, WellFoundedInduction, TLAPS

-----------------------------------------------------------------------------
(* Division and remainder, cited by several parts. *)

LEMMA IntDivMod ==
  ASSUME NEW n \in Nat, NEW d \in Nat \ {0}
  PROVE  n \div d \in Nat /\ (n \div d) * d <= n /\ n < (n \div d) * d + d
OBVIOUS

LEMMA ModSmall ==
  ASSUME NEW w \in Nat \ {0}, NEW x \in 0 .. w - 1
  PROVE  x % w = x
OBVIOUS

LEMMA ModNegative ==
  ASSUME NEW w \in Nat \ {0}, NEW x \in Int, -w <= x, x < 0
  PROVE  x % w = x + w
OBVIOUS

-----------------------------------------------------------------------------
(* Settings: the number this board answers to. *)

(* What was last reported as stored is in flash. *)
SettingsInv ==
  /\ nvs \in Int /\ acked \in Int /\ promised \in [bluetooth : Int, update : Int]
  /\ acked # Unset => nvs = acked
  /\ NumberIsMine

LEMMA SettingsInvInit == SettingsInit => SettingsInv
BY DEF SettingsInit, SettingsInv, NumberIsMine, NoPromise, Unset, Dedicated

LEMMA StepNvsBoot == SettingsInv /\ NvsBoot => SettingsInv'
<1> SUFFICES ASSUME SettingsInv, NvsBoot PROVE SettingsInv'
  OBVIOUS
<1> USE DEF SettingsInv, Unset
<1>1. nvs' \in Int /\ acked' \in Int /\ (acked' # Unset => nvs' = acked')
  BY DEF NvsBoot
<1>2. PICK value \in {nvs', Unset} :
        /\ ReadU8(nvs_ready', nvs', value)
        /\ my_player_id' = IF Valid(value) THEN value ELSE Broadcast
        /\ promised' = IF value = Unset THEN NoPromise
                       ELSE [bluetooth |-> acked', update |-> Unset]
  BY DEF NvsBoot, LoadPlayerId
<1>3. value # Unset => value = nvs'
  BY <1>2 DEF ReadU8
<1>4. promised' \in [bluetooth : Int, update : Int]
  BY <1>1, <1>2 DEF NoPromise
<1>5. NumberIsMine'
  BY <1>1, <1>2, <1>3 DEF NumberIsMine, NoPromise, Dedicated, Valid
<1> QED
  BY <1>1, <1>4, <1>5

LEMMA StepSetCommand ==
  ASSUME SettingsInv, NEW number \in Numbers, SetCommand(number)
  PROVE  SettingsInv'
BY NumbersAssumption DEF SettingsInv, SetCommand, SetU8, Unset, NumberIsMine

LEMMA StepSendNumber == SettingsInv /\ SendNumber => SettingsInv'
<1> SUFFICES ASSUME SettingsInv, SendNumber PROVE SettingsInv'
  OBVIOUS
<1> USE DEF SettingsInv, Unset
<1>1. UNCHANGED <<nvs, acked, my_player_id>>
  BY DEF SendNumber
<1>2. PICK value \in {nvs, Unset} :
        /\ ReadU8(nvs_ready, nvs, value)
        /\ pid' = IF value <= 0 THEN 1 ELSE value
        /\ promised' = [promised EXCEPT !.update = IF value = Unset THEN Unset ELSE acked]
  BY DEF SendNumber
<1>3. /\ promised'.bluetooth = promised.bluetooth
      /\ promised'.update = IF value = Unset THEN Unset ELSE acked
      /\ promised' \in [bluetooth : Int, update : Int]
  BY <1>2
<1>4. value # Unset => value = nvs
  BY <1>2 DEF ReadU8
<1>5. NumberIsMine'
  BY <1>1, <1>2, <1>3, <1>4 DEF NumberIsMine, Dedicated
<1> QED
  BY <1>1, <1>3, <1>5

LEMMA SettingsInvStep == SettingsInv /\ [SettingsNext]_settingsVars => SettingsInv'
<1>1. SettingsInv /\ (NvsRestart \/ UNCHANGED settingsVars) => SettingsInv'
  BY DEF SettingsInv, NvsRestart, settingsVars, NumberIsMine
<1> QED
  BY <1>1, StepNvsBoot, StepSetCommand, StepSendNumber DEF SettingsNext

(* The number that was reported as stored is the one the receiver and every update use,
   whatever numbers are set and whatever fails (ld_nvs.c:14-65, main.cpp:219-240,
   tcp_client.cpp:234-237). *)
THEOREM NumberIsAlwaysMine == SettingsSpec => []NumberIsMine
<1>1. SettingsSpec => []SettingsInv
  BY SettingsInvInit, SettingsInvStep, PTL DEF SettingsSpec
<1>2. SettingsInv => NumberIsMine
  BY DEF SettingsInv
<1> QED
  BY <1>1, <1>2, PTL

-----------------------------------------------------------------------------
(* Encoder: the symbols of one transmission. *)

LEMMA DataFromLen ==
  ASSUME NEW from \in Nat, NEW size \in Nat
  PROVE  DataFrom(from, size) \in Seq(Nat) /\ Len(DataFrom(from, size)) = size
<1>1. \A k \in 1 .. size : from + k \in Nat
  OBVIOUS
<1> QED
  BY <1>1 DEF DataFrom

(* What one call encodes goes on where the last one stopped. *)
LEMMA DataGoesOn ==
  ASSUME NEW size \in Nat, NEW more \in Nat
  PROVE  DataFrom(0, size) \o DataFrom(size, more) = DataFrom(0, size + more)
<1> DEFINE f == DataFrom(0, size)
           g == DataFrom(size, more)
           h == DataFrom(0, size + more)
<1>1. /\ f \in Seq(Nat) /\ Len(f) = size /\ g \in Seq(Nat) /\ Len(g) = more
      /\ h \in Seq(Nat) /\ Len(h) = size + more
  BY DataFromLen
<1>2. /\ \A k \in 1 .. size : f[k] = k
      /\ \A k \in 1 .. more : g[k] = size + k
      /\ \A k \in 1 .. size + more : h[k] = k
  BY DEF DataFrom
<1> HIDE DEF f, g, h
<1>3. /\ f \o g \in Seq(Nat) /\ Len(f \o g) = size + more
      /\ \A k \in 1 .. size + more : (f \o g)[k] = IF k <= size THEN f[k] ELSE g[k - size]
  BY <1>1, ConcatProperties
<1>4. ASSUME NEW k \in 1 .. size + more
      PROVE  (f \o g)[k] = h[k]
  <2>1. k <= size \/ k - size \in 1 .. more
    OBVIOUS
  <2> QED
    BY <1>2, <1>3, <2>1
<1>5. f \o g = h
  BY <1>1, <1>3, <1>4, SeqEqual
<1> QED
  BY <1>5 DEF f, g, h

(* In its session with the bytes encoder a transmission has sent its first bytesIndex
   symbols; after it only the reset symbol is missing.  The encoder is idle in between. *)
Session ==
  /\ transmission \in Nat /\ bytesIndex \in Nat
  /\ building # "no" => encoder = "none"
  /\ encoder # "made" => transmission = 0
  /\ transmission = 0 => state = 0 /\ bytesIndex = 0
  /\ transmission > 0 =>
       \/ state = 0 /\ bytesIndex < transmission /\ sent = DataFrom(0, bytesIndex)
       \/ state = 1 /\ bytesIndex = 0 /\ sent = DataFrom(0, transmission)

DoneWhole == done # NotDone => done.sent = DataFrom(0, done.wanted) \o <<ResetCode>>

EncoderInv == Session /\ DoneWhole

LEMMA EncoderInvInit == EncoderInit => EncoderInv
BY DEF EncoderInit, EncoderInv, Session, DoneWhole

LEMMA StepComplete ==
  ASSUME EncoderInv, NEW symbols, Complete(symbols), UNCHANGED <<encoder, building>>,
         sent \o symbols = DataFrom(0, transmission) \o <<ResetCode>>, bytesIndex' = 0
  PROVE  EncoderInv'
<1>1. state' = 0 /\ transmission' = 0 /\ done'.wanted = transmission
        /\ done'.sent = DataFrom(0, transmission) \o <<ResetCode>>
  BY DEF Complete
<1> QED
  BY <1>1 DEF EncoderInv, Session, DoneWhole

LEMMA StepEncode ==
  ASSUME EncoderInv, NEW room \in 1 .. RmtMemory, Encode(room)
  PROVE  EncoderInv'
<1>1. PICK left \in Int : left = transmission - bytesIndex
  BY DEF EncoderInv, Session
<1>2. /\ transmission \in Nat /\ transmission > 0 /\ bytesIndex \in Nat /\ room \in Nat
      /\ room > 0 /\ UNCHANGED <<encoder, building>>
  BY EncoderAssumption DEF allocVars, Encode, EncoderInv, Session
<1>3. \/ /\ state = 1 /\ Complete(<<ResetCode>>) /\ UNCHANGED bytesIndex
      \/ /\ state # 1 /\ ~Fits(left, room)
         /\ sent' = sent \o DataFrom(bytesIndex, room) /\ bytesIndex' = bytesIndex + room
         /\ UNCHANGED <<state, transmission, done>>
      \/ /\ state # 1 /\ Fits(left, room) /\ bytesIndex' = 0 /\ MemFull(left, room)
         /\ state' = 1 /\ sent' = sent \o DataFrom(bytesIndex, left)
         /\ UNCHANGED <<transmission, done>>
      \/ /\ state # 1 /\ Fits(left, room) /\ bytesIndex' = 0 /\ ~MemFull(left, room)
         /\ Complete(DataFrom(bytesIndex, left) \o <<ResetCode>>)
  BY <1>1 DEF Encode
<1>4. CASE state = 1 /\ Complete(<<ResetCode>>) /\ UNCHANGED bytesIndex
  <2>1. sent = DataFrom(0, transmission) /\ bytesIndex = 0
    BY <1>2, <1>4 DEF EncoderInv, Session
  <2> QED
    BY <1>2, <1>4, <2>1, StepComplete
<1>5. state # 1 => /\ state = 0 /\ sent = DataFrom(0, bytesIndex) /\ left \in Nat /\ left > 0
                   /\ bytesIndex + left = transmission
                   /\ sent \o DataFrom(bytesIndex, left) = DataFrom(0, transmission)
  <2>1. ASSUME state # 1
        PROVE  /\ state = 0 /\ sent = DataFrom(0, bytesIndex) /\ bytesIndex < transmission
    BY <1>2, <2>1 DEF EncoderInv, Session
  <2>2. ASSUME bytesIndex < transmission
        PROVE  left \in Nat /\ left > 0 /\ bytesIndex + left = transmission
    BY <1>1, <1>2, <2>2
  <2> QED
    BY <1>2, <2>1, <2>2, DataGoesOn
<1>6. CASE /\ state # 1 /\ ~Fits(left, room)
           /\ sent' = sent \o DataFrom(bytesIndex, room) /\ bytesIndex' = bytesIndex + room
           /\ UNCHANGED <<state, transmission, done>>
  <2>1. sent' = DataFrom(0, bytesIndex')
    BY <1>2, <1>5, <1>6, DataGoesOn
  <2>2. bytesIndex' < transmission'
    BY <1>2, <1>5, <1>6 DEF Fits
  <2> QED
    BY <1>2, <1>5, <1>6, <2>1, <2>2 DEF EncoderInv, Session, DoneWhole
<1>7. CASE /\ state # 1 /\ Fits(left, room) /\ bytesIndex' = 0 /\ MemFull(left, room)
           /\ state' = 1 /\ sent' = sent \o DataFrom(bytesIndex, left)
           /\ UNCHANGED <<transmission, done>>
  <2>1. sent' = DataFrom(0, transmission') /\ transmission' = transmission /\ done' = done
    BY <1>5, <1>7
  <2> QED
    BY <1>2, <1>7, <2>1 DEF EncoderInv, Session, DoneWhole
<1>8. CASE /\ state # 1 /\ Fits(left, room) /\ bytesIndex' = 0 /\ ~MemFull(left, room)
           /\ Complete(DataFrom(bytesIndex, left) \o <<ResetCode>>)
  <2>1. /\ sent \in Seq(Nat) /\ DataFrom(bytesIndex, left) \in Seq(Nat)
        /\ <<ResetCode>> \in Seq(Nat)
    BY <1>2, <1>5, <1>8, DataFromLen DEF ResetCode
  <2>2. sent \o (DataFrom(bytesIndex, left) \o <<ResetCode>>)
          = (sent \o DataFrom(bytesIndex, left)) \o <<ResetCode>>
    BY <2>1
  <2> QED
    BY <1>2, <1>5, <1>8, <2>2, StepComplete
<1> QED
  BY <1>3, <1>4, <1>6, <1>7, <1>8

LEMMA StepTransmit ==
  ASSUME EncoderInv, NEW n \in DataSymbols, Transmit(n)
  PROVE  EncoderInv'
<1>1. n \in Nat /\ n > 0
  BY EncoderAssumption
<1>2. DataFrom(0, 0) = <<>>
  BY DEF DataFrom
<1> QED
  BY <1>1, <1>2 DEF EncoderInv, Session, DoneWhole, Transmit, allocVars

LEMMA StepAllocation ==
  ASSUME EncoderInv, NewEncoder \/ DelEncoder \/ Interrupt \/ UNCHANGED encoderVars
  PROVE  EncoderInv'
<1>2. CASE NewEncoder
  BY <1>2 DEF NewEncoder, Build, EncoderInv, Session, DoneWhole, rmtVars
<1>3. CASE DelEncoder
  BY <1>3 DEF DelEncoder, EncoderInv, Session, DoneWhole, rmtVars
<1>4. CASE Interrupt
  BY <1>4 DEF Interrupt, allocVars, EncoderInv, Session, DoneWhole
<1>5. CASE UNCHANGED encoderVars
  BY <1>5 DEF encoderVars, allocVars, rmtVars, EncoderInv, Session, DoneWhole
<1> QED
  BY <1>2, <1>3, <1>4, <1>5

LEMMA EncoderInvStep == EncoderInv /\ [EncoderNext]_encoderVars => EncoderInv'
BY StepEncode, StepTransmit, StepAllocation DEF EncoderNext

(* A strip is sent its data in order and then one reset symbol, for any number of data
   symbols and any memory, whatever was interrupted (ws2812b_encoder.c:69-109, 161-180). *)
THEOREM AlwaysDataThenReset == EncoderSpec => []DataThenReset
<1>1. EncoderSpec => []EncoderInv
  BY EncoderInvInit, EncoderInvStep, PTL DEF EncoderSpec
<1>2. ASSUME EncoderInv PROVE DataThenReset
  <2>1. ASSUME transmission > 0
        PROVE  \E n \in Nat : n <= transmission /\ sent = DataFrom(0, n)
    BY <1>2, <2>1 DEF EncoderInv, Session
  <2>2. ASSUME transmission > 0
        PROVE  sent = DataFrom(0, Len(sent)) /\ Len(sent) <= transmission
    <3>1. PICK n \in Nat : n <= transmission /\ sent = DataFrom(0, n)
      BY <2>1, <2>2
    <3>2. Len(sent) = n
      BY <3>1, DataFromLen
    <3> QED
      BY <3>1, <3>2
  <2> QED
    BY <1>2, <2>2 DEF EncoderInv, DoneWhole, DataThenReset
<1> QED
  BY <1>1, <1>2, PTL

-----------------------------------------------------------------------------
(* SingleBuffer: the buffer of example/Pressure_test, for any number of frames, resets
   and card faults. *)

Booting == {"boot", "frames", "start"}
Busy    == {"check", "copy", "copied", "give", "drain", "revive", "reopen", "order", "wake"}
Loops   == {"loop", "take", "command", "seek", "done", "release", "clear", "read", "parse",
            "publish", "eof", "error"}
Ended   == {"last", "dead"}

BufferPoints ==
  /\ caller \in Booting \cup {"idle", "wait"} \cup Busy
  /\ sd_task \in {"absent"} \cup Loops \cup Ended
  /\ sem_free \in {0, 1} /\ sem_ready \in {0, 1}
  /\ caller \in Booting => sd_task = "absent" /\ ~inited
  /\ ~inited => sd_task = "absent"

(* The reader runs until it has failed, and is marked as running again only by a reset
   of the player. *)
RunsUntilError ==
  /\ sd_task \in Loops => reader_running
  /\ sd_task \in Ended /\ ~told => ~reader_running

(* The last thing a reader does is to wake the player, which has then been told, is
   about to be, or resets. *)
Wakes ==
  sd_task = "dead" =>
    told \/ sem_ready = 1 \/ caller \in {"check", "drain", "revive"}

(* A buffer that is neither free nor ready is in the hands of the player, unless the
   reader has it. *)
Held == sd_task \in {"loop", "take"} /\ sem_free = 0 /\ sem_ready = 0 => caller \in Busy

BufferInv == BufferPoints /\ RunsUntilError /\ Wakes /\ Held

LEMMA BufferInvInit == SingleBufferInit => BufferInv
BY DEF SingleBufferInit, BufferInv, BufferPoints, RunsUntilError, Wakes, Held, Booting, Loops, Ended

LEMMA StepFrameSystemInit == BufferInv /\ FrameSystemInit => BufferInv'
<1> SUFFICES ASSUME BufferInv, FrameSystemInit PROVE BufferInv'
  OBVIOUS
<1> USE DEF BufferInv, BufferPoints, RunsUntilError, Wakes, Held, Booting, Busy, Loops, Ended, Call
<1>1. UNCHANGED <<cmd, eof_reached, sem_ready, content, copy, delivered, history>>
  BY Zenon DEF FrameSystemInit
<1>2. CASE (IControl \/ IFrames) /\ UNCHANGED <<inited, reader_running, sem_free, sd_task>>
  BY <1>1, <1>2 DEF IControl, IFrames, history
<1>3. CASE IStart
  <2>1. CASE /\ inited' = TRUE /\ reader_running' = TRUE /\ sem_free' = 1
             /\ sd_task' \in {"loop", "absent"}
    BY <1>1, <1>3, <2>1 DEF IStart, history
  <2>2. CASE UNCHANGED <<inited, reader_running, sem_free, sd_task>>
    BY <1>1, <1>3, <2>2 DEF IStart, history
  <2> QED
    BY <1>3, <2>1, <2>2 DEF IStart
<1> QED
  BY <1>2, <1>3, Zenon DEF FrameSystemInit

LEMMA StepSdTask == BufferInv /\ SdTask => BufferInv'
<1> SUFFICES ASSUME BufferInv, SdTask PROVE BufferInv'
  OBVIOUS
<1> USE DEF BufferInv, BufferPoints, RunsUntilError, Wakes, Held, Booting, Busy, Loops, Ended, Task
<1>1. UNCHANGED <<inited, caller>> /\ (sd_task # "error" => told' = told)
  BY Zenon DEF SdTask
<1>2. CASE (TLoop \/ TCommand) /\ UNCHANGED <<marks, orders, sem_ready, content>>
  BY <1>1, <1>2 DEF TLoop, TCommand, marks, orders
<1>3. CASE (TTake \/ TDone \/ TRelease) /\ UNCHANGED <<marks, sem_ready, content>>
  BY <1>1, <1>3 DEF TTake, TDone, TRelease, marks
<1>4. CASE (TSeek \/ TClear \/ TRead \/ TParse) /\ UNCHANGED <<marks, orders, sem_ready>>
  BY <1>1, <1>4 DEF TSeek, TClear, TRead, TParse, marks, orders
<1>5. CASE TEof /\ UNCHANGED <<orders, sem_ready, content>>
  BY <1>1, <1>5 DEF TEof, orders
<1>6. CASE TError /\ UNCHANGED <<eof_reached, orders, sem_ready, content>>
  BY <1>1, <1>6 DEF TError, orders
<1>7. CASE TPublish /\ UNCHANGED <<marks, orders, content>>
  BY <1>1, <1>7 DEF TPublish, marks, orders
<1> QED
  BY <1>2, <1>3, <1>4, <1>5, <1>6, <1>7, Zenon DEF SdTask

LEMMA StepPlayerTask == BufferInv /\ PlayerTask => BufferInv'
<1> SUFFICES ASSUME BufferInv, PlayerTask PROVE BufferInv'
  OBVIOUS
<1> USE DEF BufferInv, BufferPoints, RunsUntilError, Wakes, Held, Booting, Busy, Loops, Ended, Call, marks,
        orders, history
<1>1. inited /\ inited' = inited /\ sd_task' = sd_task
  BY Zenon DEF PlayerTask, readerVars
<1>2. CASE CBegin /\ UNCHANGED <<marks, orders, sem_ready, copy, delivered, history>>
  BY <1>1, <1>2 DEF CBegin
<1>3. CASE (CTake \/ CDrain) /\ UNCHANGED <<marks, orders, copy, delivered, history>>
  BY <1>1, <1>3 DEF CTake, CDrain
<1>4. CASE (CCheck \/ CReset) /\ UNCHANGED <<marks, orders, sem_ready, copy, delivered>>
  BY <1>1, <1>4 DEF CCheck, CReset
<1>5. CASE (CCopy \/ CCopied) /\ UNCHANGED <<marks, orders, sem_ready, history>>
  BY <1>1, <1>5 DEF CCopy, CCopied
<1>6. CASE (CGive \/ CWake) /\ UNCHANGED <<marks, sem_ready, copy, delivered, history>>
  BY <1>1, <1>6 DEF CGive, CWake
<1>7. CASE (CRevive \/ CReopen) /\ UNCHANGED <<orders, sem_ready, copy, delivered>>
  BY <1>1, <1>7 DEF CRevive, CReopen
<1>8. CASE COrder /\ UNCHANGED <<marks, sem_ready>>
  BY <1>1, <1>8 DEF COrder
<1> QED
  BY <1>2, <1>3, <1>4, <1>5, <1>6, <1>7, <1>8, Zenon DEF PlayerTask

LEMMA BufferInvStep == BufferInv /\ [SingleBufferNext]_singleBufferVars => BufferInv'
<1>1. BufferInv /\ UNCHANGED singleBufferVars => BufferInv'
  BY DEF BufferInv, BufferPoints, RunsUntilError, Wakes, Held, singleBufferVars, marks, orders, readerVars,
         callerVars, history
<1> QED
  BY <1>1, StepFrameSystemInit, StepSdTask, StepPlayerTask, Zenon DEF SingleBufferNext

(* The player and the reader never wait for each other; a player that waits in vain waits
   for a reader that was never created, or that has ended after the player was told so or
   has reset, for any file, resets and faults (readframe.c:80-119, 163-212). *)
THEOREM NeverStuckWithReader == SingleBufferSpec => []StuckOnlyWithoutReader
<1>1. SingleBufferSpec => []BufferInv
  BY BufferInvInit, BufferInvStep, PTL DEF SingleBufferSpec
<1>2. BufferInv => StuckOnlyWithoutReader
  BY DEF BufferInv, BufferPoints, Wakes, Held, Busy, StuckOnlyWithoutReader, InVain, NoReader
<1> QED
  BY <1>1, <1>2, PTL

-----------------------------------------------------------------------------
(* Order: as long as every reset found the reader waiting and the card is sound, the
   buffer is in one place, and the file and the buffer are where the player is. *)
Resetting == {"drain", "revive", "reopen", "order"}
Holding   == {"check", "copy", "copied", "give", "wake"}
Working   == {"command", "seek", "done", "release", "clear", "read", "parse", "publish",
              "error", "last"}

Calm == clean /\ cardFaults = 0 /\ caller \notin Resetting

OnePlace ==
  /\ sd_task # "eof"
  /\ sem_free = 1 => sem_ready = 0
  /\ sem_free = 1 \/ sem_ready = 1 => sd_task \notin Working /\ caller \notin Holding
  /\ sd_task \in Working => caller \notin Holding
  /\ sd_task \in Ended => ~reader_running /\ caller \notin {"copy", "copied", "give", "wake"}

Ordered ==        \* a reset the reader has not seen yet
  cmd = "RESET" =>
    /\ delivered = Blank
    /\ sem_free = 1 \/ caller = "wake" \/ sd_task \in {"command", "seek", "done"}

Unfilled ==       \* the reader is about to read the next frame
  /\ sd_task \in {"seek", "done"} \/ caller = "wake" => cmd = "RESET"
  /\ sd_task = "done" => file_pos = 0
  /\ cmd = "NONE" /\ (\/ sem_free = 1 \/ caller = "give"
                      \/ sd_task \in {"command", "release", "clear", "read"})
       => file_pos = delivered

Filled ==         \* it has read it
  /\ sd_task = "parse" => file_pos = delivered + 1
  /\ (\/ sd_task = "publish" \/ caller \in {"copy", "copied"}
      \/ sd_task \notin Ended /\ (sem_ready = 1 \/ caller = "check"))
       => frame_buf = delivered + 1 /\ file_pos = delivered + 1
  /\ caller = "copied" => copy = frame_buf

Readerless ==         \* before there is a reader, or for ever
  sd_task = "absent" =>
    /\ sem_ready = 0 /\ file_pos = 0 /\ caller \notin {"check", "copy", "copied", "give"}
    /\ clean => cmd = "NONE" /\ delivered = 0 /\ caller # "wake"

OrderInv ==
  /\ BufferInv /\ cardFaults \in Nat /\ cmd \in {"NONE", "RESET"}
  /\ Readerless
  /\ Calm => delivered \in Nat /\ OnePlace /\ Ordered /\ Unfilled /\ Filled

LEMMA OrderInvInit == SingleBufferInit => OrderInv
BY BufferInvInit DEF SingleBufferInit, OrderInv, Calm, OnePlace, Ordered, Unfilled, Filled,
   Readerless, Working, Holding, Ended, Blank

LEMMA OrderFrameSystemInit == OrderInv /\ FrameSystemInit => OrderInv'
<1> SUFFICES ASSUME OrderInv, FrameSystemInit PROVE OrderInv'
  OBVIOUS
<1> USE DEF OrderInv, Calm, OnePlace, Ordered, Unfilled, Filled, Readerless, Resetting, Working,
            Holding, Ended, Call, Blank
<1>1. BufferInv' /\ BufferInv
  BY StepFrameSystemInit
<1>2. sd_task = "absent" /\ ~inited
  BY <1>1 DEF BufferInv, BufferPoints, Booting, FrameSystemInit, IControl, IFrames, IStart
<1>3. UNCHANGED <<cmd, sem_ready, content, delivered, clean>>
  BY Zenon DEF FrameSystemInit, history
<1>4. QED
  BY <1>1, <1>2, <1>3 DEF FrameSystemInit, IControl, IFrames, IStart, content

LEMMA OrderSdTask == OrderInv /\ SdTask => OrderInv'
<1> SUFFICES ASSUME OrderInv, SdTask PROVE OrderInv'
  OBVIOUS
<1>0. BufferInv' /\ BufferInv
  BY StepSdTask DEF OrderInv
<1>a. /\ sd_task \in Loops => reader_running
      /\ sem_free \in {0, 1} /\ sem_ready \in {0, 1}
  BY <1>0, Zenon DEF BufferInv, BufferPoints, RunsUntilError
<1> USE DEF OrderInv, Calm, OnePlace, Ordered, Unfilled, Filled, Readerless, Resetting, Working,
            Holding, Ended, Task, Blank
<1>1. UNCHANGED <<caller, copy, delivered, clean>>
  BY Zenon DEF SdTask
<1>2. CASE (TLoop \/ TCommand) /\ UNCHANGED <<marks, orders, sem_ready, content>>
  BY <1>0, <1>a, <1>1, <1>2 DEF TLoop, TCommand, marks, orders, content, Loops
<1>3. CASE (TTake \/ TDone \/ TRelease) /\ UNCHANGED <<marks, sem_ready, content>>
  <2>1. CASE TTake
    BY <1>0, <1>a, <1>1, <1>3, <2>1 DEF TTake, marks, content
  <2>2. CASE TDone
    BY <1>0, <1>a, <1>1, <1>3, <2>2 DEF TDone, marks, content
  <2>3. CASE TRelease
    BY <1>0, <1>a, <1>1, <1>3, <2>3 DEF TRelease, marks, content
  <2> QED
    BY <1>3, <2>1, <2>2, <2>3
<1>4. CASE (TSeek \/ TClear \/ TRead \/ TParse) /\ UNCHANGED <<marks, orders, sem_ready>>
  <2>1. CASE TSeek
    BY <1>0, <1>1, <1>4, <2>1 DEF TSeek, CardFault, marks, orders
  <2>2. CASE TClear
    BY <1>0, <1>1, <1>4, <2>2 DEF TClear, marks, orders
  <2>3. CASE TRead
    BY <1>0, <1>1, <1>4, <2>3 DEF TRead, CardFault, marks, orders, content
  <2>4. CASE TParse
    BY <1>0, <1>1, <1>4, <2>4 DEF TParse, CardFault, marks, orders
  <2> QED
    BY <1>4, <2>1, <2>2, <2>3, <2>4
<1>5. CASE TEof /\ UNCHANGED <<orders, sem_ready, content>>
  BY <1>0, <1>1, <1>5 DEF TEof, orders, content
<1>6. CASE TError /\ UNCHANGED <<eof_reached, orders, sem_ready, content>>
  BY <1>0, <1>1, <1>6 DEF TError, orders, content
<1>7. CASE TPublish /\ UNCHANGED <<marks, orders, content>>
  <2>1. CASE Task("publish", "loop") /\ sem_ready' = 1
    BY <1>0, <1>a, <1>1, <1>7, <2>1 DEF marks, orders, content
  <2>2. CASE Task("last", "dead") /\ sem_ready' = 1
    BY <1>0, <1>a, <1>1, <1>7, <2>2 DEF marks, orders, content
  <2> QED
    BY <1>7, <2>1, <2>2 DEF TPublish
<1> QED
  BY <1>2, <1>3, <1>4, <1>5, <1>6, <1>7, Zenon DEF SdTask

LEMMA OrderPlayerTask == OrderInv /\ PlayerTask => OrderInv'
<1> SUFFICES ASSUME OrderInv, PlayerTask PROVE OrderInv'
  OBVIOUS
<1>0. BufferInv' /\ BufferInv
  BY StepPlayerTask DEF OrderInv
<1>a. /\ sd_task \in {"absent"} \cup Loops \cup Ended
      /\ (sd_task \in Loops => reader_running) /\ sem_free \in {0, 1} /\ sem_ready \in {0, 1}
      /\ (sd_task \in {"loop", "take"} /\ sem_free = 0 /\ sem_ready = 0 => caller \in Busy)
  BY <1>0, Zenon DEF BufferInv, BufferPoints, RunsUntilError, Held, PlayerTask
<1> USE DEF OrderInv, Calm, OnePlace, Ordered, Unfilled, Filled, Readerless, Resetting, Working,
            Holding, Ended, Call, Blank, marks, orders, history, Loops
<1>1. UNCHANGED <<sd_task, frame_buf, file_pos, cardFaults>>
  BY Zenon DEF PlayerTask, readerVars, content
<1>2. CASE CBegin /\ UNCHANGED <<marks, orders, sem_ready, copy, delivered, history>>
  BY <1>0, <1>1, <1>2 DEF CBegin
<1>3. CASE (CTake \/ CDrain) /\ UNCHANGED <<marks, orders, copy, delivered, history>>
  BY <1>0, <1>1, <1>a, <1>3 DEF CTake, CDrain
<1>4. CASE (CCheck \/ CReset) /\ UNCHANGED <<marks, orders, sem_ready, copy, delivered>>
  BY <1>0, <1>1, <1>a, <1>4 DEF CCheck, CReset
<1>5. CASE (CCopy \/ CCopied) /\ UNCHANGED <<marks, orders, sem_ready, history>>
  <2>1. CASE CCopy
    BY <1>0, <1>a, <1>1, <1>5, <2>1 DEF CCopy
  <2>2. CASE CCopied
    <3>1. /\ caller = "copied" /\ caller' = "give" /\ copy' = copy
          /\ delivered' = IF copy = frame_buf THEN copy ELSE Half
          /\ UNCHANGED <<cmd, sem_free, sem_ready, reader_running, clean>>
      BY <1>5, <2>2, Zenon DEF CCopied
    <3>2. ASSUME Calm'
          PROVE  /\ delivered \in Nat /\ OnePlace /\ Ordered /\ Unfilled /\ Filled
                 /\ delivered' = delivered + 1 /\ file_pos = delivered + 1
      BY <1>1, <3>1, <3>2
    <3> QED
      BY <1>0, <1>1, <1>a, <3>1, <3>2
  <2> QED
    BY <1>5, <2>1, <2>2
<1>6. CASE (CGive \/ CWake) /\ UNCHANGED <<marks, sem_ready, copy, delivered, history>>
  BY <1>0, <1>1, <1>a, <1>6 DEF CGive, CWake
<1>7. CASE (CRevive \/ CReopen) /\ UNCHANGED <<orders, sem_ready, copy, delivered>>
  BY <1>0, <1>1, <1>7 DEF CRevive, CReopen
<1>8. CASE COrder /\ UNCHANGED <<marks, sem_ready>>
  <2>1. /\ caller' = "wake" /\ cmd' = "RESET" /\ delivered' = Blank
        /\ UNCHANGED <<sem_free, sem_ready, copy, reader_running>>
    BY <1>8, Zenon DEF COrder
  <2>2. clean' => sd_task = "take" /\ sem_free = 0 /\ sem_ready = 0
    BY <1>8 DEF COrder
  <2> QED
    BY <1>0, <1>a, <1>1, <2>1, <2>2
<1> QED
  BY <1>2, <1>3, <1>4, <1>5, <1>6, <1>7, <1>8, Zenon DEF PlayerTask

LEMMA OrderInvStep == OrderInv /\ [SingleBufferNext]_singleBufferVars => OrderInv'
<1>1. OrderInv /\ UNCHANGED singleBufferVars => OrderInv'
  BY BufferInvStep DEF OrderInv, Calm, OnePlace, Ordered, Unfilled, Filled, Readerless,
     singleBufferVars, marks, orders, readerVars, content, callerVars, history
<1> QED
  BY <1>1, OrderFrameSystemInit, OrderSdTask, OrderPlayerTask, Zenon DEF SingleBufferNext

(* A call that copies a frame copies the one after the last. *)
Delivers == clean /\ caller = "copied" /\ caller' = "give" /\ cardFaults = 0
              => delivered' = delivered + 1

LEMMA CopiesNext == OrderInv /\ [SingleBufferNext]_singleBufferVars => Delivers
<1> SUFFICES ASSUME OrderInv, [SingleBufferNext]_singleBufferVars,
                    clean, caller = "copied", caller' = "give", cardFaults = 0
             PROVE  delivered' = delivered + 1
  BY Zenon DEF Delivers
<1>1. PlayerTask
  BY DEF SingleBufferNext, FrameSystemInit, IControl, IFrames, IStart, SdTask, Call,
         singleBufferVars, callerVars
<1>2. CCopied
  BY <1>1, Zenon DEF PlayerTask, CBegin, CTake, CDrain, CCheck, CReset, CCopy, CGive, CWake, CRevive,
     CReopen, COrder, Call
<1>3. copy = frame_buf /\ frame_buf = delivered + 1
  <2>1. Calm
    BY Zenon DEF Calm, Resetting
  <2> QED
    BY <2>1 DEF OrderInv, Filled
<1> QED
  BY <1>2, <1>3 DEF CCopied

(* Frames are delivered whole, in order and each once, for any number of frames, as long
   as every reset finds the reader waiting and the card is sound (readframe.c:80-119,
   178-212). *)
THEOREM AlwaysWholeInOrder == SingleBufferSpec => WholeInOrder
<1>1. SingleBufferSpec => []OrderInv
  BY OrderInvInit, OrderInvStep, PTL DEF SingleBufferSpec
<1>2. OrderInv /\ [SingleBufferNext]_singleBufferVars => [Delivers]_singleBufferVars
  BY CopiesNext
<1> HIDE DEF Delivers
<1>3. SingleBufferSpec => [][Delivers]_singleBufferVars
  BY <1>1, <1>2, PTL DEF SingleBufferSpec
<1> QED
  BY <1>3 DEF WholeInOrder, Delivers

-----------------------------------------------------------------------------
(* Colour: what the lights get, for any levels, blends and times. *)

(* A quotient is below a bound that times the divisor is above the dividend. *)
LEMMA QuotientBelow ==
  ASSUME NEW n \in Nat, NEW d \in Nat \ {0}, NEW b \in Nat, n < b * d
  PROVE  n \div d \in Nat /\ n \div d < b
<1>1. PICK q \in Nat : q = n \div d
  BY IntDivMod
<1>2. q * d < b * d
  BY <1>1, IntDivMod
<1>3. ASSUME q >= b PROVE FALSE
  <2>1. q * d >= b * d
    BY <1>3
  <2> QED
    BY <1>2, <2>1
<1> QED
  BY <1>1, <1>3

LEMMA Mul255Bounded ==
  ASSUME NEW n \in U8, NEW m \in U8
  PROVE  Mul255(n, m) \in U8 /\ Mul255(n, m) <= m
<1>1. PICK p \in Nat : p = n * m
  BY DEF U8
<1>2. p <= 255 * m
  BY <1>1 DEF U8
<1> QED
  BY <1>1, <1>2 DEF Mul255, U8

LEMMA LerpU8Byte ==
  ASSUME NEW start \in U8, NEW end \in U8, NEW t \in U8
  PROVE  LerpU8(start, end, t) \in U8
<1>1. PICK p \in Nat, q \in Nat : p = start * (255 - t) /\ q = end * t
  BY DEF U8
<1>2. p <= 255 * (255 - t) /\ q <= 255 * t
  BY <1>1 DEF U8
<1> QED
  BY <1>1, <1>2 DEF LerpU8, U8

IsColour(c) == c.g \in U8 /\ c.r \in U8 /\ c.b \in U8

LEMMA Extremes ==
  ASSUME NEW c, IsColour(c)
  PROVE  Max3(c) \in U8 /\ Min3(c) \in U8 /\ Min3(c) <= Max3(c)
<1> DEFINE S == {c.r, c.g, c.b}
<1>1. S \subseteq U8 /\ c.r \in S
  BY DEF IsColour
<1>0. c.r \in Int /\ c.g \in Int /\ c.b \in Int
  BY DEF IsColour, U8
<1>2. \E x \in S : \A y \in S : x >= y
  <2>1. CASE c.r >= c.g /\ c.r >= c.b
    BY <1>0, <2>1
  <2>2. CASE c.g >= c.r /\ c.g >= c.b
    BY <1>0, <2>2
  <2>3. CASE c.b >= c.r /\ c.b >= c.g
    BY <1>0, <2>3
  <2> QED
    BY <1>0, <2>1, <2>2, <2>3
<1>3. \E x \in S : \A y \in S : x <= y
  <2>1. CASE c.r <= c.g /\ c.r <= c.b
    BY <1>0, <2>1
  <2>2. CASE c.g <= c.r /\ c.g <= c.b
    BY <1>0, <2>2
  <2>3. CASE c.b <= c.r /\ c.b <= c.g
    BY <1>0, <2>3
  <2> QED
    BY <1>0, <2>1, <2>2, <2>3
<1>4. Max(S) \in S /\ \A y \in S : Max(S) >= y
  BY <1>2 DEF Max
<1>5. Min(S) \in S /\ \A y \in S : Min(S) <= y
  BY <1>3 DEF Min
<1> QED
  BY <1>1, <1>4, <1>5 DEF Max3, Min3, U8

LEMMA CDivInt ==
  ASSUME NEW n \in Int, NEW d \in Nat \ {0}
  PROVE  CDiv(n, d) \in Int
BY IntDivMod DEF CDiv

LEMMA WrapHueInt == ASSUME NEW h \in Int PROVE WrapHue(h) \in Int
BY DEF WrapHue

Hsv == [h : Int, s : U8, v : U8]

LEMMA ToHsv ==
  ASSUME NEW c, IsColour(c)
  PROVE  GrbToHsv(c) \in Hsv
<1>1. PICK v \in U8 : v = Max3(c)
  BY Extremes
<1>2. PICK d \in U8 : d = v - Min3(c) /\ d <= v
  <2>1. PICK m \in U8 : m = Min3(c) /\ m <= v
    BY <1>1, Extremes
  <2>2. \A i, j \in U8 : j <= i => i - j \in U8 /\ i - j <= i
    BY DEF U8
  <2>3. v - m \in U8 /\ v - m <= v
    BY <2>1, <2>2, Zenon
  <2> QED
    BY <2>1, <2>3, Zenon
<1>3. CASE d = 0
  BY <1>1, <1>2, <1>3 DEF GrbToHsv, Hsv, U8
<1>4. CASE d # 0
  <2>1. v \in Nat \ {0} /\ d \in Nat \ {0} /\ v \div 2 \in Nat /\ v \div 2 < v
    BY <1>2, <1>4 DEF U8
  <2>2. PICK n \in Nat : n = d * 255 + (v \div 2)
    BY <2>1
  <2>3. n < 256 * v
    BY <1>2, <2>1, <2>2
  <2>4. n \div v \in U8
    BY <2>1, <2>3, QuotientBelow DEF U8
  <2>5. /\ CDiv(256 * (c.g - c.b), d) \in Int /\ CDiv(256 * (c.b - c.r), d) \in Int
        /\ CDiv(256 * (c.r - c.g), d) \in Int
    <3>1. /\ 256 * (c.g - c.b) \in Int /\ 256 * (c.b - c.r) \in Int
          /\ 256 * (c.r - c.g) \in Int
      <4>1. c.g \in Int /\ c.b \in Int /\ c.r \in Int
        BY DEF IsColour, U8
      <4>2. \A i, j \in Int : 256 * (i - j) \in Int
        OBVIOUS
      <4> QED
        BY <4>1, <4>2
    <3> QED
      BY <2>1, <3>1, CDivInt
  <2> DEFINE hue == IF v = c.r THEN CDiv(256 * (c.g - c.b), d)
                    ELSE IF v = c.g THEN 512 + CDiv(256 * (c.b - c.r), d)
                    ELSE 1024 + CDiv(256 * (c.r - c.g), d)
  <2>6. hue \in Int
    BY <2>5
  <2>7. GrbToHsv(c) = [v |-> v, s |-> n \div v, h |-> WrapHue(hue)]
    BY <1>1, <1>2, <1>4, <2>2 DEF GrbToHsv
  <2> QED
    BY <2>4, <2>6, <2>7, WrapHueInt DEF Hsv
<1> QED
  BY <1>3, <1>4

LEMMA FromHsv ==
  ASSUME NEW c \in Hsv
  PROVE  IsColour(HsvToGrb(c))
<1>1. PICK f \in U8 : f = c.h % 256
  BY DEF Hsv, U8
<1>2. PICK v \in U8, s \in U8 : v = c.v /\ s = c.s
  BY DEF Hsv
<1>3. 255 - s \in U8 /\ 255 - f \in U8
  BY DEF U8
<1>4. PICK p \in U8 : p = Mul255(v, 255 - s)
  BY <1>3, Mul255Bounded
<1>5. PICK q \in U8 : q = Mul255(v, 255 - Mul255(s, f))
  <2>1. PICK m \in U8 : m = Mul255(s, f)
    BY Mul255Bounded
  <2>2. 255 - m \in U8
    BY DEF U8
  <2> QED
    BY <2>1, <2>2, Mul255Bounded
<1>6. PICK t \in U8 : t = Mul255(v, 255 - Mul255(s, 255 - f))
  <2>1. PICK m \in U8 : m = Mul255(s, 255 - f)
    BY <1>3, Mul255Bounded
  <2>2. 255 - m \in U8
    BY DEF U8
  <2> QED
    BY <2>1, <2>2, Mul255Bounded
<1>7. PICK k \in 1 .. 6 : k = ((c.h \div 256) % 6) + 1
  BY DEF Hsv
<1>8. HsvToGrb(c) = IF s = 0 THEN Grb(v, v, v)
        ELSE <<Grb(t, v, p), Grb(v, q, p), Grb(v, p, t), Grb(q, p, v), Grb(p, t, v),
               Grb(p, v, q)>>[k]
  BY <1>1, <1>2, <1>4, <1>5, <1>6, <1>7 DEF HsvToGrb
<1>9. \A x, y, z \in U8 : IsColour(Grb(x, y, z))
  BY DEF Grb, IsColour
<1> QED
  BY <1>8, <1>9

LEMMA FadeColour ==
  ASSUME NEW start, NEW end, IsColour(start), IsColour(end), NEW t \in U8
  PROVE  IsColour(LerpHsv(start, end, t))
<1>1. PICK a \in Hsv, b \in Hsv : a = GrbToHsv(start) /\ b = GrbToHsv(end)
  BY ToHsv
<1>2. CDiv(ShortestDh(b.h - a.h) * t, 255) \in Int
  <2>1. b.h - a.h \in Int /\ t \in Int
    BY DEF Hsv, U8
  <2>2. ShortestDh(b.h - a.h) \in Int
    BY <2>1 DEF ShortestDh
  <2>3. ShortestDh(b.h - a.h) * t \in Int
    BY <2>1, <2>2
  <2> QED
    BY <2>3, CDivInt
<1>3. PICK h \in Int : h = IF a.s = 0 /\ b.s # 0 THEN b.h
           ELSE IF b.s = 0 /\ a.s # 0 THEN a.h
           ELSE WrapHue(a.h + CDiv(ShortestDh(b.h - a.h) * t, 255))
  BY <1>2, WrapHueInt DEF Hsv
<1>4. LerpU8(a.s, b.s, t) \in U8 /\ LerpU8(a.v, b.v, t) \in U8
  BY LerpU8Byte DEF Hsv
<1>5. [h |-> h, s |-> LerpU8(a.s, b.s, t), v |-> LerpU8(a.v, b.v, t)] \in Hsv
  BY <1>4 DEF Hsv
<1>6. LerpHsv(start, end, t) =
        HsvToGrb([h |-> h, s |-> LerpU8(a.s, b.s, t), v |-> LerpU8(a.v, b.v, t)])
  BY <1>1, <1>3 DEF LerpHsv
<1> QED
  BY <1>5, <1>6, FromHsv

(* What went through gamma and brightness is at most the maximum. *)
LEMMA CorrectedWithin ==
  ASSUME NEW c, \A k \in Primaries : c[k] \in U8, NEW type \in Types, NEW k \in Primaries
  PROVE  Corrected(c, type)[k] <= MaxLevel[type][k]
<1>1. Gamma[type][k][c[k]] \in U8
  <2> DEFINE Curve(lut) == /\ lut \in [U8 -> U8] /\ lut[0] = 0 /\ lut[255] = 255
                           /\ \A l \in 1 .. 255 : lut[l - 1] <= lut[l]
  <2>1. \A x \in Types, p \in Primaries : Curve(Gamma[x][p])
    BY GammaAssumption
  <2>2. \A lut : Curve(lut) => lut \in [U8 -> U8]
    OBVIOUS
  <2> HIDE DEF Curve
  <2>3. Gamma[type][k] \in [U8 -> U8]
    BY <2>1, <2>2
  <2> QED
    BY <2>3
<1>2. MaxLevel[type][k] \in U8
  BY LevelAssumption
<1>3. Corrected(c, type)[k] = Mul255(Gamma[type][k][c[k]], MaxLevel[type][k])
  BY DEF Corrected, BrightnessLimited, GammaCorrected
<1> QED
  BY <1>1, <1>2, <1>3, Mul255Bounded

LEMMA Channels == ASSUME NEW c, IsColour(c) PROVE \A k \in Primaries : c[k] \in U8
BY DEF IsColour, Primaries

LEMMA DarkWithin ==
  /\ shown = Dark  => WithinMaxUnlessError
  /\ shown' = Dark => WithinMaxUnlessError'
<1>1. \A k \in Primaries : Dark.grb[k] <= MaxLevel[Dark.type][k]
  BY SMTT(30), LevelAssumption DEF Dark, Black, Grb, Primaries, Types, U8
<1> QED
  BY <1>1 DEF WithinMaxUnlessError, WithinMaxBrightness

LEMMA ShowsCorrected ==
  ASSUME NEW type \in Types, NEW c, IsColour(c), NEW status,
         shown' = [type |-> type, grb |-> Corrected(c, type), status |-> status]
  PROVE  WithinMaxUnlessError'
<1>1. \A k \in Primaries : Corrected(c, type)[k] <= MaxLevel[type][k]
  BY Channels, CorrectedWithin
<1> QED
  BY <1>1 DEF WithinMaxUnlessError, WithinMaxBrightness

LEMMA PixelIsColour ==
  ASSUME NEW c \in Pixels
  PROVE  IsColour(c)
<1>1. "g" \in Primaries /\ "r" \in Primaries /\ "b" \in Primaries
  BY DEF Primaries
<1>2. c["g"] \in Levels /\ c["r"] \in Levels /\ c["b"] \in Levels
  BY <1>1 DEF Pixels
<1> QED
  BY <1>2, InputAssumption DEF IsColour

LEMMA ClampByte ==
  ASSUME NEW x \in Int
  PROVE  Clamp(x) \in U8
<1>1. PICK m \in Int : m = Min({x, 255}) /\ m <= 255
  <2>1. \E y \in {x, 255} : \A z \in {x, 255} : y <= z
    OBVIOUS
  <2> QED
    BY <2>1 DEF Min
<1>2. \E y \in {0, m} : \A z \in {0, m} : y >= z
  OBVIOUS
<1>3. Max({0, m}) \in {0, m} /\ Max({0, m}) >= 0
  BY <1>2 DEF Max
<1>4. Clamp(x) = Max({0, m})
  BY <1>1 DEF Clamp
<1> QED
  BY <1>1, <1>3, <1>4 DEF U8

LEMMA BreathHueInt ==
  ASSUME NEW time \in Nat
  PROVE  BreathHue(time) \in Int
<1>1. PICK k \in Int : k = ((time % 6000) * 1536) \div 6000
  OBVIOUS
<1>2. \E y \in {k, 1535} : \A z \in {k, 1535} : y <= z
  OBVIOUS
<1>3. Min({k, 1535}) \in {k, 1535}
  BY <1>2 DEF Min
<1> QED
  BY <1>1, <1>3 DEF BreathHue

LEMMA ColourStep == WithinMaxUnlessError /\ [ColourNext]_colourVars => WithinMaxUnlessError'
<1> SUFFICES ASSUME WithinMaxUnlessError, [ColourNext]_colourVars PROVE WithinMaxUnlessError'
  OBVIOUS
<1>1. ASSUME NEW type \in Types, NEW from \in Pixels, NEW to \in Pixels, NEW t \in Blends,
             Fade(type, from, to, t)
      PROVE  WithinMaxUnlessError'
  <2>1. IsColour(LerpHsv(from, to, t))
    BY PixelIsColour, FadeColour, InputAssumption
  <2> QED
    BY <1>1, <2>1, ShowsCorrected DEF Fade
<1>2. ASSUME NEW type \in Types, NEW current \in Pixels,
             Hold(type, current) \/ ShowError(type, current)
      PROVE  WithinMaxUnlessError'
  <2>1. CASE Hold(type, current)
    BY <2>1, PixelIsColour, ShowsCorrected DEF Hold
  <2>2. CASE ShowError(type, current)
    BY <2>2 DEF ShowError, WithinMaxUnlessError
  <2> QED
    BY <1>2, <2>1, <2>2
<1>3. ASSUME NEW type \in Types, NEW r \in TestLevels, NEW g \in TestLevels,
             NEW b \in TestLevels, Test(type, r, g, b)
      PROVE  WithinMaxUnlessError'
  <2>1. IsColour(Grb(Clamp(g), Clamp(r), Clamp(b)))
    BY ClampByte, InputAssumption DEF IsColour, Grb
  <2> QED
    BY <1>3, <2>1, ShowsCorrected DEF Test
<1>4. ASSUME NEW type \in Types, NEW time \in BreathTimes, Breath(type, time)
      PROVE  WithinMaxUnlessError'
  <2>1. [h |-> BreathHue(time), s |-> 255, v |-> 255] \in Hsv
    BY BreathHueInt, InputAssumption DEF Hsv, U8
  <2>2. IsColour(HsvToGrb([h |-> BreathHue(time), s |-> 255, v |-> 255]))
    BY <2>1, FromHsv
  <2>3. shown' = [type |-> type, status |-> "OK",
          grb |-> Corrected(HsvToGrb([h |-> BreathHue(time), s |-> 255, v |-> 255]), type)]
    BY <1>4 DEF Breath
  <2> QED
    BY <2>2, <2>3, ShowsCorrected
<1>5. CASE NextTick
  BY <1>5, DarkWithin DEF NextTick
<1>6. CASE UNCHANGED colourVars
  BY <1>6 DEF colourVars, WithinMaxUnlessError, WithinMaxBrightness
<1> QED
  BY <1>1, <1>2, <1>3, <1>4, <1>5, <1>6 DEF ColourNext, Tick

(* In every tick without an error no LED is driven above its maximum, whatever the gamma
   curve, the frames, the blend factor, the arguments of the test command and the time
   (framebuffer.cpp:126-156, ld_led_ops.h:37-223). *)
THEOREM AlwaysWithinMax == ColourSpec => []WithinMaxUnlessError
<1>1. ColourInit => WithinMaxUnlessError
  BY DarkWithin DEF ColourInit
<1> QED
  BY <1>1, ColourStep, PTL DEF ColourSpec

-----------------------------------------------------------------------------
(* Colour: a fade, as the sectors of the hue circle order its channels. *)

(* The channels of a hue's sector, in order of their level, and how far the middle one is
   from the highest *)
Hi(i)  == IF i \in {0, 5} THEN "r" ELSE IF i \in {1, 2} THEN "g" ELSE "b"
Mid(i) == IF i \in {0, 3} THEN "g" ELSE IF i \in {1, 4} THEN "r" ELSE "b"
Lo(i)  == IF i \in {0, 1} THEN "b" ELSE IF i \in {2, 3} THEN "r" ELSE "g"
Rising(i)   == i \in {0, 2, 4}
Slope(i, f) == IF Rising(i) THEN 255 - f ELSE f

LEMMA SectorChannels ==
  ASSUME NEW i \in 0 .. 5
  PROVE  /\ {Hi(i), Mid(i), Lo(i)} = Primaries
         /\ Hi(i) # Mid(i) /\ Hi(i) # Lo(i) /\ Mid(i) # Lo(i)
BY DEF Hi, Mid, Lo, Primaries

LEMMA Mul255Grows ==
  ASSUME NEW n \in U8, NEW x \in U8, NEW y \in U8, x <= y
  PROVE  Mul255(n, x) <= Mul255(n, y) /\ Mul255(n, x) <= n
<1>1. PICK p \in Nat, q \in Nat : p = n * x /\ q = n * y
  BY DEF U8
<1>2. p <= q /\ p <= 255 * n
  BY <1>1 DEF U8
<1>3. (p + 127) \div 255 <= (q + 127) \div 255 /\ (p + 127) \div 255 <= n
  BY <1>2 DEF U8
<1> QED
  BY <1>1, <1>3 DEF Mul255

(* The conversion to GRB, by sectors: no white is a case of its own. *)
LEMMA Sectors ==
  ASSUME NEW i \in 0 .. 5, NEW f \in U8, NEW s \in U8, NEW v \in U8, NEW grb,
         grb = HsvToGrb([h |-> 256 * i + f, s |-> s, v |-> v])
  PROVE  /\ grb[Hi(i)] = v /\ grb[Lo(i)] = Mul255(v, 255 - s)
         /\ grb[Mid(i)] = Mul255(v, 255 - Mul255(s, Slope(i, f)))
<1>1. (256 * i + f) % 256 = f /\ ((256 * i + f) \div 256) % 6 = i
  <2>1. (256 * i + f) % 256 = f /\ (256 * i + f) \div 256 = i
    BY DEF U8
  <2> QED
    BY <2>1
<1> DEFINE p == Mul255(v, 255 - s)
           q == Mul255(v, 255 - Mul255(s, f))
           t == Mul255(v, 255 - Mul255(s, 255 - f))
<1>2. CASE s = 0
  <2>1. Mul255(0, f) = 0 /\ Mul255(0, 255 - f) = 0 /\ Mul255(v, 255 - 0) = v
    BY DEF Mul255, U8
  <2>2. grb = Grb(v, v, v)
    BY <1>2 DEF HsvToGrb
  <2> QED
    BY <1>2, <2>1, <2>2 DEF Grb, Hi, Mid, Lo, Slope
<1>3. CASE s # 0
  <2>1. grb = <<Grb(t, v, p), Grb(v, q, p), Grb(v, p, t), Grb(q, p, v), Grb(p, t, v),
                Grb(p, v, q)>>[i + 1]
    BY <1>1, <1>3 DEF HsvToGrb
  <2>2. Slope(i, f) = IF i \in {0, 2, 4} THEN 255 - f ELSE f
    BY DEF Slope, Rising
  <2> HIDE DEF p, q, t
  <2>3. /\ grb[Hi(i)] = v /\ grb[Lo(i)] = p
        /\ grb[Mid(i)] = IF i \in {0, 2, 4} THEN t ELSE q
    BY <2>1 DEF Grb, Hi, Mid, Lo
  <2> QED
    BY <2>2, <2>3 DEF p, q, t
<1> QED
  BY <1>2, <1>3

LEMMA SectorsInOrder ==
  ASSUME NEW i \in 0 .. 5, NEW f \in U8, NEW s \in U8, NEW v \in U8, NEW grb,
         grb = HsvToGrb([h |-> 256 * i + f, s |-> s, v |-> v])
  PROVE  /\ grb[Lo(i)] \in U8 /\ grb[Mid(i)] \in U8
         /\ grb[Lo(i)] <= grb[Mid(i)] /\ grb[Mid(i)] <= v /\ grb[Hi(i)] = v
<1>1. Slope(i, f) \in U8
  BY DEF Slope, U8
<1>2. PICK m \in U8 : m = Mul255(s, Slope(i, f))
  BY <1>1, Mul255Bounded
<1>3. m <= s
  <2>1. PICK x \in U8 : x = Slope(i, f) /\ x <= x
    BY <1>1 DEF U8
  <2> QED
    BY <1>2, <2>1, Mul255Grows
<1>4. 255 - s \in U8 /\ 255 - m \in U8 /\ 255 - s <= 255 - m
  BY <1>3 DEF U8
<1>5. /\ grb[Hi(i)] = v /\ grb[Lo(i)] = Mul255(v, 255 - s)
      /\ grb[Mid(i)] = Mul255(v, 255 - m)
  BY <1>2, Sectors
<1>6. Mul255(v, 255 - s) <= Mul255(v, 255 - m) /\ Mul255(v, 255 - m) <= v
  <2>1. PICK x \in U8, y \in U8 : x = 255 - s /\ y = 255 - m /\ x <= y /\ y <= y
    <3>1. 255 - m <= 255 - m
      BY DEF U8
    <3> QED
      BY <1>4, <3>1
  <2>2. Mul255(v, x) <= Mul255(v, y) /\ Mul255(v, y) <= v
    BY <2>1, Mul255Grows
  <2> QED
    BY <2>1, <2>2
<1>7. Mul255(v, 255 - s) \in U8 /\ Mul255(v, 255 - m) \in U8
  BY <1>4, Mul255Bounded
<1> QED
  BY <1>5, <1>6, <1>7

(* Every hue lies in a sector. *)
Hues == 0 .. 1535
Behind == -1536 .. -1

(* The sectors' shares: how far a level is from the lowest to the highest, in 256 steps *)
Shares == 0 .. 256

LEMMA SectorOf ==
  ASSUME NEW h \in Hues
  PROVE  \E i \in 0 .. 5, f \in U8 : h = 256 * i + f
<1>0. h \in 0 .. 1535
  BY DEF Hues
<1>1. PICK i \in Int, f \in Int : i = h \div 256 /\ f = h % 256
  BY <1>0
<1>2. h = 256 * i + f /\ f \in U8
  BY <1>0, <1>1 DEF U8
<1>3. i \in 0 .. 5
  BY <1>0, <1>2 DEF U8
<1> QED
  BY <1>2, <1>3

-----------------------------------------------------------------------------
(* The part of a sector that an amount of its range takes *)
LEMMA Part ==
  ASSUME NEW x \in U8, NEW d \in U8 \ {0}, x <= d
  PROVE  \E n \in Shares : /\ n = (256 * x) \div d /\ d * n <= 256 * x /\ 256 * x < d * n + d
                           /\ (x < d => n < 256) /\ (x > 0 => n > 0) /\ (x = d => n = 256)
<1>1. PICK n \in Nat : n = (256 * x) \div d /\ n * d <= 256 * x /\ 256 * x < n * d + d
  BY IntDivMod DEF U8
<1>2. PICK p \in Nat : p = n * d /\ p = d * n
  BY <1>1 DEF U8
<1>3. n <= 256 /\ (x < d => n < 256)
  <2>1. ASSUME n >= 256 PROVE p >= 256 * d
    BY <1>2, <2>1 DEF U8
  <2>2. ASSUME n >= 257 PROVE p >= 257 * d
    BY <1>2, <2>2 DEF U8
  <2> QED
    BY <1>1, <1>2, <2>1, <2>2 DEF U8
<1>4. x > 0 => n > 0
  BY <1>1, <1>2 DEF U8
<1>5. x = d => n = 256
  <2>1. ASSUME n <= 255 PROVE p <= 255 * d
    BY <1>2, <2>1 DEF U8
  <2> QED
    BY <1>1, <1>2, <1>3, <2>1 DEF U8
<1>6. n \in Shares
  BY <1>3 DEF Shares
<1> QED
  BY <1>1, <1>2, <1>3, <1>4, <1>5, <1>6

(* A colour's hue, by sectors: the middle channel says how far the hue is into its sector,
   or how far from the sector's end. *)
Placed(c, i, f) ==
  LET v == Max3(c)
      m == Min3(c)
      n == (256 * (c[Mid(i)] - m)) \div (v - m)
  IN  /\ c[Hi(i)] = v /\ c[Lo(i)] = m
      /\ IF Rising(i) THEN f = n ELSE 256 - f = n

LEMMA Largest ==
  ASSUME NEW x \in Int, NEW y \in Int, NEW z \in Int
  PROVE  /\ Max({x, y, z}) \in {x, y, z} /\ Min({x, y, z}) \in {x, y, z}
         /\ \A k \in {x, y, z} : Max({x, y, z}) >= k /\ Min({x, y, z}) <= k
<1>1. \E k \in {x, y, z} : \A l \in {x, y, z} : k >= l
  <2>1. CASE x >= y /\ x >= z
    BY <2>1
  <2>2. CASE y >= x /\ y >= z
    BY <2>2
  <2>3. CASE z >= x /\ z >= y
    BY <2>3
  <2> QED
    BY <2>1, <2>2, <2>3
<1>2. \E k \in {x, y, z} : \A l \in {x, y, z} : k <= l
  <2>1. CASE x <= y /\ x <= z
    BY <2>1
  <2>2. CASE y <= x /\ y <= z
    BY <2>2
  <2>3. CASE z <= x /\ z <= y
    BY <2>3
  <2> QED
    BY <2>1, <2>2, <2>3
<1> QED
  BY <1>1, <1>2 DEF Max, Min

LEMMA ExtremesOf ==
  ASSUME NEW c, IsColour(c)
  PROVE  /\ Max3(c) \in U8 /\ Min3(c) \in U8 /\ Min3(c) <= Max3(c)
         /\ Max3(c) \in {c.r, c.g, c.b} /\ Min3(c) \in {c.r, c.g, c.b}
         /\ c.r <= Max3(c) /\ c.g <= Max3(c) /\ c.b <= Max3(c)
         /\ Min3(c) <= c.r /\ Min3(c) <= c.g /\ Min3(c) <= c.b
<1>1. c.r \in Int /\ c.g \in Int /\ c.b \in Int
  BY DEF IsColour, U8
<1>2. /\ Max3(c) \in {c.r, c.g, c.b} /\ Min3(c) \in {c.r, c.g, c.b}
      /\ \A k \in {c.r, c.g, c.b} : Max3(c) >= k /\ Min3(c) <= k
  <2>1. PICK x \in Int, y \in Int, z \in Int : x = c.r /\ y = c.g /\ z = c.b
    BY <1>1
  <2>2. Max3(c) = Max({x, y, z}) /\ Min3(c) = Min({x, y, z})
    BY <2>1 DEF Max3, Min3
  <2>3. /\ Max3(c) \in {x, y, z} /\ Min3(c) \in {x, y, z}
        /\ \A k \in {x, y, z} : Max3(c) >= k /\ Min3(c) <= k
    BY <2>2, Largest
  <2> QED
    BY <2>1, <2>3
<1>3. Max3(c) \in U8 /\ Min3(c) \in U8
  BY <1>2 DEF IsColour
<1>4. Min3(c) <= Max3(c)
  <2>1. PICK n \in Int, x \in Int, m \in Int : /\ n = Min3(c) /\ x = c.r /\ m = Max3(c)
                                              /\ n <= x /\ m >= x
    BY <1>1, <1>2, <1>3 DEF U8
  <2> QED
    BY <2>1
<1>5. /\ c.r <= Max3(c) /\ c.g <= Max3(c) /\ c.b <= Max3(c)
      /\ Min3(c) <= c.r /\ Min3(c) <= c.g /\ Min3(c) <= c.b
  BY <1>1, <1>2, <1>3 DEF U8
<1> QED
  BY <1>2, <1>3, <1>4, <1>5

LEMMA Ranges ==
  ASSUME NEW m \in U8, NEW x \in U8, NEW v \in U8, m <= x, x <= v, m < v
  PROVE  x - m \in U8 /\ v - m \in U8 \ {0} /\ x - m <= v - m
BY DEF U8

(* A sector's middle channel, before or after its middle: at the top of its range a falling
   sector begins. *)
LEMMA PlacedIn ==
  ASSUME NEW c, IsColour(c), Min3(c) < Max3(c), NEW i \in 0 .. 5,
         c[Hi(i)] = Max3(c), c[Lo(i)] = Min3(c),
         NEW n, n = (256 * (c[Mid(i)] - Min3(c))) \div (Max3(c) - Min3(c)),
         Rising(i) => c[Mid(i)] < Max3(c),
         ~Rising(i) => c[Mid(i)] > Min3(c)
  PROVE  /\ n \in Shares
         /\ Rising(i) => n \in U8 /\ Placed(c, i, n)
         /\ ~Rising(i) => 256 - n \in U8 /\ Placed(c, i, 256 - n)
<1>1. PICK v \in U8, m \in U8 : v = Max3(c) /\ m = Min3(c) /\ m < v
  BY ExtremesOf
<1>2. c[Mid(i)] \in {c.r, c.g, c.b}
  BY DEF Mid
<1>3. PICK x \in U8 : x = c[Mid(i)] /\ m <= x /\ x <= v
  BY <1>1, <1>2, ExtremesOf DEF IsColour
<1>4. PICK y \in U8, d \in U8 \ {0} : y = x - m /\ d = v - m /\ y <= d
  <2>1. x - m \in U8 /\ v - m \in U8 \ {0} /\ x - m <= v - m
    BY <1>1, <1>3, Ranges
  <2> QED
    BY <2>1
<1>5. /\ n \in Shares /\ (y < d => n < 256) /\ (y > 0 => n > 0)
  <2>1. n = (256 * y) \div d
    BY <1>1, <1>3, <1>4
  <2>2. PICK k \in Shares : /\ k = (256 * y) \div d
                           /\ (y < d => k < 256) /\ (y > 0 => k > 0)
    BY <1>4, Part
  <2> QED
    BY <2>1, <2>2
<1>6. Rising(i) => n \in U8
  <2>1. Rising(i) => x < v
    BY <1>1, <1>3
  <2>2. x < v => y < d
    BY <1>4 DEF U8
  <2>3. n \in Shares /\ n < 256 => n \in U8
    BY DEF U8, Shares
  <2> QED
    BY <1>5, <2>1, <2>2, <2>3
<1>7. ~Rising(i) => 256 - n \in U8 /\ 256 - (256 - n) = n
  <2>1. ~Rising(i) => m < x
    BY <1>1, <1>3
  <2>2. m < x => y > 0
    BY <1>4 DEF U8
  <2>3. n \in Shares /\ n > 0 => 256 - n \in U8 /\ 256 - (256 - n) = n
    BY DEF U8, Shares
  <2> QED
    BY <1>5, <2>1, <2>2, <2>3
<1> QED
  BY <1>5, <1>6, <1>7 DEF Placed

LEMMA CDivSigns ==
  ASSUME NEW n \in Int, NEW d
  PROVE  /\ n >= 0 => CDiv(n, d) = n \div d
         /\ n < 0 => CDiv(n, d) = -((-n) \div d)
BY DEF CDiv

LEMMA CDivs ==
  ASSUME NEW x \in U8, NEW y \in U8, NEW d \in U8 \ {0}
  PROVE  /\ x >= y => CDiv(256 * (x - y), d) = (256 * (x - y)) \div d
         /\ x < y => CDiv(256 * (x - y), d) = -((256 * (y - x)) \div d)
<1>1. PICK n \in Int : n = 256 * (x - y)
  BY DEF U8
<1>2. /\ x < y => n < 0 /\ -n = 256 * (y - x)
      /\ x >= y => n >= 0
  BY <1>1 DEF U8
<1> QED
  BY <1>1, <1>2, CDivSigns

LEMMA Wraps ==
  /\ \A h \in Hues : WrapHue(h) = h
  /\ \A h \in Behind : WrapHue(h) = h + 1536
<1>1. ASSUME NEW h \in Hues PROVE WrapHue(h) = h
  BY DEF WrapHue, Hues
<1>2. ASSUME NEW h \in Behind PROVE WrapHue(h) = h + 1536
  <2>1. h \in Int /\ -1536 <= h /\ h < 0
    BY DEF Behind
  <2>2. h % 1536 = h + 1536
    BY <2>1
  <2> QED
    BY <2>2 DEF WrapHue
<1> QED
  BY <1>1, <1>2

LEMMA ToSectors ==
  ASSUME NEW c, IsColour(c), Min3(c) < Max3(c)
  PROVE  \E i \in 0 .. 5, f \in U8 : GrbToHsv(c).h = 256 * i + f /\ Placed(c, i, f)
<1>1. PICK v \in U8, m \in U8 : v = Max3(c) /\ m = Min3(c) /\ m < v
  BY ExtremesOf
<1>2. PICK d \in U8 \ {0} : d = v - m
  BY <1>1 DEF U8
<1>3. PICK r \in U8, g \in U8, b \in U8 : r = c.r /\ g = c.g /\ b = c.b
  BY DEF IsColour
<1>4. /\ v \in {r, g, b} /\ m \in {r, g, b} /\ r <= v /\ g <= v /\ b <= v
      /\ m <= r /\ m <= g /\ m <= b
  BY <1>1, <1>3, ExtremesOf
<1> DEFINE hue == IF v = r THEN CDiv(256 * (g - b), d)
                  ELSE IF v = g THEN 512 + CDiv(256 * (b - r), d)
                  ELSE 1024 + CDiv(256 * (r - g), d)
<1>5. GrbToHsv(c).h = WrapHue(hue)
  BY <1>1, <1>2, <1>3 DEF GrbToHsv
<1>6. ASSUME NEW i \in 0 .. 5, NEW n, n = (256 * (c[Mid(i)] - m)) \div d,
             c[Hi(i)] = v, c[Lo(i)] = m, c[Mid(i)] < v, Rising(i),
             hue = 256 * i + n
      PROVE  \E j \in 0 .. 5, f \in U8 : GrbToHsv(c).h = 256 * j + f /\ Placed(c, j, f)
  <2>1. n \in U8 /\ Placed(c, i, n)
    BY <1>1, <1>2, <1>6, PlacedIn
  <2>2. 256 * i + n \in Hues
    BY <2>1 DEF U8, Hues
  <2>3. GrbToHsv(c).h = 256 * i + n
    <3>1. WrapHue(256 * i + n) = 256 * i + n
      BY <2>2, Wraps
    <3> QED
      BY <1>5, <1>6, <3>1
  <2> QED
    BY <2>1, <2>3
<1>7. ASSUME NEW i \in 0 .. 5, NEW n, n = (256 * (c[Mid(i)] - m)) \div d,
             c[Hi(i)] = v, c[Lo(i)] = m, c[Mid(i)] > m, ~Rising(i),
             \/ hue = 256 * (i + 1) - n
             \/ i = 5 /\ hue = -n
      PROVE  \E j \in 0 .. 5, f \in U8 : GrbToHsv(c).h = 256 * j + f /\ Placed(c, j, f)
  <2>1. n \in Shares /\ 256 - n \in U8 /\ Placed(c, i, 256 - n)
    BY <1>1, <1>2, <1>7, PlacedIn
  <2>2. PICK f \in U8 : f = 256 - n /\ n = 256 - f /\ Placed(c, i, f)
    BY <2>1 DEF Shares
  <2>3. 256 * i + f \in Hues /\ 256 * (i + 1) - (256 - f) = 256 * i + f
    BY DEF U8, Hues
  <2>4. GrbToHsv(c).h = 256 * i + f
    <3>1. CASE hue = 256 * (i + 1) - n
      <4>1. WrapHue(256 * i + f) = 256 * i + f
        BY <2>3, Wraps
      <4> HIDE DEF hue
      <4> QED
        BY <1>5, <2>2, <2>3, <3>1, <4>1
    <3>2. CASE i = 5 /\ hue = -n
      <4> HIDE DEF hue
      <4>1. f - 256 \in Behind /\ (f - 256) + 1536 = 1280 + f /\ -(256 - f) = f - 256
        BY DEF U8, Behind
      <4>2. WrapHue(f - 256) = (f - 256) + 1536
        BY <4>1, Wraps
      <4>3. hue = f - 256
        BY <2>2, <3>2, <4>1
      <4>4. 256 * i + f = 1280 + f
        BY <3>2
      <4> QED
        BY <1>5, <4>1, <4>2, <4>3, <4>4
    <3> QED
      BY <1>7, <3>1, <3>2
  <2> QED
    BY <2>2, <2>4
<1> HIDE DEF hue
<1>8. \A x \in U8 : (256 * (x - m)) \div d \in Int
  BY DEF U8
<1>9. CASE v = r /\ g >= b /\ g < v
  <2>1. m = b
    BY <1>1, <1>4, <1>9 DEF U8
  <2>2. PICK n \in Int : n = (256 * (g - m)) \div d
    BY <1>8
  <2>3. /\ Hi(0) = "r" /\ Mid(0) = "g" /\ Lo(0) = "b"
        /\ Rising(0)
    BY DEF Hi, Mid, Lo, Rising
  <2>4. hue = n
    <3>1. CDiv(256 * (g - b), d) = n
      BY <1>9, <2>1, <2>2, CDivs
    <3> QED
      BY <1>1, <1>3, <1>9, <2>2, <3>1 DEF hue, U8
  <2>5. /\ n = (256 * (c[Mid(0)] - m)) \div d /\ c[Hi(0)] = v /\ c[Lo(0)] = m
        /\ c[Mid(0)] < v
    BY <1>1, <1>3, <1>9, <2>1, <2>2, <2>3
  <2>6. hue = 256 * 0 + n
    BY <2>2, <2>4
  <2> QED
    BY <1>6, <2>2, <2>3, <2>5, <2>6
<1>10. CASE v = g /\ r < v /\ b < r
  <2>1. m = b
    BY <1>1, <1>4, <1>10 DEF U8
  <2>2. PICK n \in Int : n = (256 * (r - m)) \div d
    BY <1>8
  <2>3. /\ Hi(1) = "g" /\ Mid(1) = "r" /\ Lo(1) = "b"
        /\ ~Rising(1)
    BY DEF Hi, Mid, Lo, Rising
  <2>4. hue = 512 - n
    <3>1. CDiv(256 * (b - r), d) = -n
      BY <1>10, <2>1, <2>2, CDivs
    <3>2. v # r /\ v = g
      BY <1>10 DEF U8
    <3> QED
      BY <2>2, <3>1, <3>2 DEF hue
  <2>5. /\ n = (256 * (c[Mid(1)] - m)) \div d /\ c[Hi(1)] = v /\ c[Lo(1)] = m
        /\ c[Mid(1)] > m
    BY <1>1, <1>3, <1>10, <2>1, <2>2, <2>3
  <2>6. hue = 256 * (1 + 1) - n
    BY <2>2, <2>4
  <2> QED
    BY <1>7, <2>2, <2>3, <2>5, <2>6
<1>11. CASE v = g /\ r < v /\ b >= r /\ b < v
  <2>1. m = r
    BY <1>1, <1>4, <1>11 DEF U8
  <2>2. PICK n \in Int : n = (256 * (b - m)) \div d
    BY <1>8
  <2>3. /\ Hi(2) = "g" /\ Mid(2) = "b" /\ Lo(2) = "r"
        /\ Rising(2)
    BY DEF Hi, Mid, Lo, Rising
  <2>4. hue = 512 + n
    <3>1. CDiv(256 * (b - r), d) = n
      BY <1>11, <2>1, <2>2, CDivs
    <3>2. v # r /\ v = g
      BY <1>11 DEF U8
    <3> QED
      BY <2>2, <3>1, <3>2 DEF hue
  <2>5. /\ n = (256 * (c[Mid(2)] - m)) \div d /\ c[Hi(2)] = v /\ c[Lo(2)] = m
        /\ c[Mid(2)] < v
    BY <1>1, <1>3, <1>11, <2>1, <2>2, <2>3
  <2>6. hue = 256 * 2 + n
    BY <2>2, <2>4
  <2> QED
    BY <1>6, <2>2, <2>3, <2>5, <2>6
<1>12. CASE v = b /\ r < v /\ g < v /\ r < g
  <2>1. m = r
    BY <1>1, <1>4, <1>12 DEF U8
  <2>2. PICK n \in Int : n = (256 * (g - m)) \div d
    BY <1>8
  <2>3. /\ Hi(3) = "b" /\ Mid(3) = "g" /\ Lo(3) = "r"
        /\ ~Rising(3)
    BY DEF Hi, Mid, Lo, Rising
  <2>4. hue = 1024 - n
    <3>1. CDiv(256 * (r - g), d) = -n
      BY <1>12, <2>1, <2>2, CDivs
    <3>2. v # r /\ v # g
      BY <1>12 DEF U8
    <3> QED
      BY <2>2, <3>1, <3>2 DEF hue
  <2>5. /\ n = (256 * (c[Mid(3)] - m)) \div d /\ c[Hi(3)] = v /\ c[Lo(3)] = m
        /\ c[Mid(3)] > m
    BY <1>1, <1>3, <1>12, <2>1, <2>2, <2>3
  <2>6. hue = 256 * (3 + 1) - n
    BY <2>2, <2>4
  <2> QED
    BY <1>7, <2>2, <2>3, <2>5, <2>6
<1>13. CASE v = b /\ r < v /\ g < v /\ r >= g
  <2>1. m = g
    BY <1>1, <1>4, <1>13 DEF U8
  <2>2. PICK n \in Int : n = (256 * (r - m)) \div d
    BY <1>8
  <2>3. /\ Hi(4) = "b" /\ Mid(4) = "r" /\ Lo(4) = "g"
        /\ Rising(4)
    BY DEF Hi, Mid, Lo, Rising
  <2>4. hue = 1024 + n
    <3>1. CDiv(256 * (r - g), d) = n
      BY <1>13, <2>1, <2>2, CDivs
    <3>2. v # r /\ v # g
      BY <1>13 DEF U8
    <3> QED
      BY <2>2, <3>1, <3>2 DEF hue
  <2>5. /\ n = (256 * (c[Mid(4)] - m)) \div d /\ c[Hi(4)] = v /\ c[Lo(4)] = m
        /\ c[Mid(4)] < v
    BY <1>1, <1>3, <1>13, <2>1, <2>2, <2>3
  <2>6. hue = 256 * 4 + n
    BY <2>2, <2>4
  <2> QED
    BY <1>6, <2>2, <2>3, <2>5, <2>6
<1>14. CASE v = r /\ g < b
  <2>1. m = g
    BY <1>1, <1>4, <1>14 DEF U8
  <2>2. PICK n \in Int : n = (256 * (b - m)) \div d
    BY <1>8
  <2>3. /\ Hi(5) = "r" /\ Mid(5) = "b" /\ Lo(5) = "g"
        /\ ~Rising(5)
    BY DEF Hi, Mid, Lo, Rising
  <2>4. hue = -n
    <3>1. CDiv(256 * (g - b), d) = -n
      BY <1>14, <2>1, <2>2, CDivs
    <3> QED
      BY <1>1, <1>3, <1>14, <2>2, <3>1 DEF hue, U8
  <2>5. /\ n = (256 * (c[Mid(5)] - m)) \div d /\ c[Hi(5)] = v /\ c[Lo(5)] = m
        /\ c[Mid(5)] > m
    BY <1>1, <1>3, <1>14, <2>1, <2>2, <2>3
  <2>6. hue = -n
    BY <2>2, <2>4
  <2> QED
    BY <1>7, <2>2, <2>3, <2>5, <2>6
<1>15. CASE v = r /\ g = v /\ b < v
  <2>1. m = b
    BY <1>1, <1>4, <1>15 DEF U8
  <2>2. PICK n \in Int : n = (256 * (r - m)) \div d
    BY <1>8
  <2>3. /\ Hi(1) = "g" /\ Mid(1) = "r" /\ Lo(1) = "b"
        /\ ~Rising(1)
    BY DEF Hi, Mid, Lo, Rising
  <2>4. n = 256 /\ CDiv(256 * (g - b), d) = 256
    <3>1. PICK k \in Shares : k = (256 * d) \div d /\ k = 256
      <4>1. d \in U8 /\ d <= d
        BY DEF U8
      <4> QED
        BY <4>1, Part
    <3>2. g >= b /\ g - b = d /\ r - m = d
      BY <1>1, <1>2, <1>15, <2>1
    <3> QED
      BY <2>2, <3>1, <3>2, CDivs
  <2>5. hue = 512 - n
    BY <1>1, <1>3, <1>15, <2>4 DEF hue, U8
  <2>6. /\ n = (256 * (c[Mid(1)] - m)) \div d /\ c[Hi(1)] = v /\ c[Lo(1)] = m
        /\ c[Mid(1)] > m
    BY <1>1, <1>3, <1>15, <2>1, <2>2, <2>3
  <2>7. hue = 256 * (1 + 1) - n
    BY <2>2, <2>5
  <2> QED
    BY <1>7, <2>2, <2>3, <2>6, <2>7
<1>16. CASE v = g /\ r < v /\ b = v
  <2>1. m = r
    BY <1>1, <1>4, <1>16 DEF U8
  <2>2. PICK n \in Int : n = (256 * (g - m)) \div d
    BY <1>8
  <2>3. /\ Hi(3) = "b" /\ Mid(3) = "g" /\ Lo(3) = "r"
        /\ ~Rising(3)
    BY DEF Hi, Mid, Lo, Rising
  <2>4. n = 256 /\ CDiv(256 * (b - r), d) = 256
    <3>1. PICK k \in Shares : k = (256 * d) \div d /\ k = 256
      <4>1. d \in U8 /\ d <= d
        BY DEF U8
      <4> QED
        BY <4>1, Part
    <3>2. b >= r /\ b - r = d /\ g - m = d
      BY <1>1, <1>2, <1>16, <2>1
    <3> QED
      BY <2>2, <3>1, <3>2, CDivs
  <2>5. hue = 1024 - n
    <3>1. v # r /\ v = g
      BY <1>16 DEF U8
    <3> QED
      BY <2>4, <3>1 DEF hue
  <2>6. /\ n = (256 * (c[Mid(3)] - m)) \div d /\ c[Hi(3)] = v /\ c[Lo(3)] = m
        /\ c[Mid(3)] > m
    BY <1>1, <1>3, <1>16, <2>1, <2>2, <2>3
  <2>7. hue = 256 * (3 + 1) - n
    BY <2>2, <2>5
  <2> QED
    BY <1>7, <2>2, <2>3, <2>6, <2>7
<1>17. r \in Int /\ g \in Int /\ b \in Int /\ v \in Int /\ m \in Int
  BY DEF U8
<1>18. CASE v = r
  BY <1>1, <1>4, <1>9, <1>14, <1>15, <1>17, <1>18
<1>19. CASE v # r /\ v = g
  BY <1>1, <1>4, <1>10, <1>11, <1>16, <1>17, <1>19
<1>20. CASE v # r /\ v # g
  BY <1>1, <1>4, <1>12, <1>13, <1>17, <1>20
<1> QED
  BY <1>18, <1>19, <1>20

-----------------------------------------------------------------------------
(* A fade stays between its ends. *)
LEMMA LerpBetween ==
  ASSUME NEW start \in U8, NEW end \in U8, NEW t \in U8
  PROVE  /\ start <= end => start <= LerpU8(start, end, t) /\ LerpU8(start, end, t) <= end
         /\ end <= start => end <= LerpU8(start, end, t) /\ LerpU8(start, end, t) <= start
         /\ t = 0 => LerpU8(start, end, t) = start
         /\ t = 255 => LerpU8(start, end, t) = end
<1>1. PICK p \in Nat, q \in Nat : p = start * t /\ q = end * t
  BY DEF U8
<1>2. start * (255 - t) = 255 * start - p
  BY <1>1 DEF U8
<1>3. LerpU8(start, end, t) = (255 * start - p + q + 127) \div 255
  BY <1>1, <1>2 DEF LerpU8
<1>4. /\ start <= end => p <= q /\ q - p <= 255 * (end - start)
      /\ end <= start => q <= p /\ p - q <= 255 * (start - end)
  <2>1. /\ q - p = (end - start) * t
        /\ p - q = (start - end) * t
    BY <1>1 DEF U8
  <2>2. start <= end => 0 <= (end - start) * t /\ (end - start) * t <= 255 * (end - start)
    BY DEF U8
  <2>3. end <= start => 0 <= (start - end) * t /\ (start - end) * t <= 255 * (start - end)
    BY DEF U8
  <2> QED
    BY <1>1, <2>1, <2>2, <2>3
<1>5. start <= end => start <= LerpU8(start, end, t) /\ LerpU8(start, end, t) <= end
  BY <1>3, <1>4 DEF U8
<1>6. end <= start => end <= LerpU8(start, end, t) /\ LerpU8(start, end, t) <= start
  BY <1>3, <1>4 DEF U8
<1>7. t = 0 => LerpU8(start, end, t) = start
  BY <1>1, <1>3 DEF U8
<1>8. t = 255 => LerpU8(start, end, t) = end
  BY <1>1, <1>3 DEF U8
<1> QED
  BY <1>5, <1>6, <1>7, <1>8

(* Of an end, its hue, saturation and value *)
LEMMA HsvOf ==
  ASSUME NEW c, IsColour(c)
  PROVE  /\ GrbToHsv(c).v = Max3(c) /\ GrbToHsv(c).s \in U8 /\ GrbToHsv(c).h \in Hues
         /\ GrbToHsv(c).s = 0 <=> IsGrey(c)
         /\ ~IsGrey(c) =>
              /\ Min3(c) < Max3(c)
              /\ GrbToHsv(c).s = ((Max3(c) - Min3(c)) * 255 + (Max3(c) \div 2)) \div Max3(c)
<1>1. PICK v \in U8, m \in U8 : v = Max3(c) /\ m = Min3(c) /\ m <= v
  BY ExtremesOf
<1>2. CASE v = m
  <2>1. v - m = 0
    BY <1>2 DEF U8
  <2> QED
    BY <1>1, <1>2, <2>1 DEF GrbToHsv, IsGrey, U8, Hues
<1>3. CASE v # m
  <2>1. m < v /\ v - m # 0
    BY <1>1, <1>3 DEF U8
  <2>2. /\ GrbToHsv(c).v = v
        /\ GrbToHsv(c).s = ((v - m) * 255 + (v \div 2)) \div v
    BY <1>1, <2>1 DEF GrbToHsv
  <2>3. GrbToHsv(c).h \in Hues
    <3>1. PICK i \in 0 .. 5, f \in U8 : GrbToHsv(c).h = 256 * i + f
      BY <1>1, <2>1, ToSectors
    <3>2. 256 * i + f \in Hues
      BY DEF U8, Hues
    <3> QED
      BY <3>1, <3>2
  <2>4. GrbToHsv(c).s \in U8
    BY ToHsv DEF Hsv
  <2>5. GrbToHsv(c).s # 0
    <3>1. PICK n \in Nat : n = (v - m) * 255 + (v \div 2) /\ n >= v
      BY <2>1 DEF U8
    <3>2. PICK q \in Nat : q = n \div v /\ n < q * v + v
      BY <2>1, IntDivMod DEF U8
    <3>3. q # 0
      <4>1. ASSUME q = 0 PROVE FALSE
        <5>1. q * v = 0
          BY <4>1 DEF U8
        <5> QED
          BY <3>1, <3>2, <5>1 DEF U8
      <4> QED
        BY <4>1
    <3> QED
      BY <2>2, <3>1, <3>2, <3>3
  <2> QED
    BY <1>1, <1>3, <2>1, <2>2, <2>3, <2>4, <2>5 DEF IsGrey
<1> QED
  BY <1>2, <1>3

(* What LerpHsv converts back *)
LerpHue(start, end, t) ==
  LET a == GrbToHsv(start)
      b == GrbToHsv(end)
  IN  IF a.s = 0 /\ b.s # 0 THEN b.h
      ELSE IF b.s = 0 /\ a.s # 0 THEN a.h
      ELSE WrapHue(a.h + CDiv(ShortestDh(b.h - a.h) * t, 255))
LerpS(start, end, t) == LerpU8(GrbToHsv(start).s, GrbToHsv(end).s, t)
LerpV(start, end, t) == LerpU8(GrbToHsv(start).v, GrbToHsv(end).v, t)

LEMMA LerpParts ==
  ASSUME NEW start, NEW end, IsColour(start), IsColour(end), NEW t \in U8
  PROVE  /\ LerpS(start, end, t) \in U8 /\ LerpV(start, end, t) \in U8
         /\ LerpHue(start, end, t) \in Hues
         /\ LerpHsv(start, end, t) = HsvToGrb([h |-> LerpHue(start, end, t),
                  s |-> LerpS(start, end, t), v |-> LerpV(start, end, t)])
<1>1. PICK a \in Hsv, b \in Hsv : a = GrbToHsv(start) /\ b = GrbToHsv(end)
  BY ToHsv
<1>2. LerpS(start, end, t) \in U8 /\ LerpV(start, end, t) \in U8
  BY <1>1, LerpU8Byte DEF Hsv, LerpS, LerpV
<1>3. LerpHue(start, end, t) \in Hues
  <2>1. PICK x \in Hues, y \in Hues : x = a.h /\ y = b.h
    BY <1>1, HsvOf
  <2>2. ShortestDh(y - x) \in Int /\ t \in Int
    BY DEF ShortestDh, U8, Hues
  <2>3. PICK z \in Int : z = ShortestDh(y - x) * t
    BY <2>2
  <2>4. CDiv(z, 255) \in Int
    BY CDivInt
  <2>5. \A h \in Int : WrapHue(h) \in Hues
    BY DEF WrapHue, Hues
  <2>6. WrapHue(x + CDiv(z, 255)) \in Hues
    <3>1. PICK h \in Int : h = x + CDiv(z, 255)
      BY <2>4 DEF Hues
    <3> QED
      BY <2>5, <3>1
  <2> QED
    BY <1>1, <2>1, <2>3, <2>6 DEF LerpHue
<1>4. LerpHsv(start, end, t) = HsvToGrb([h |-> LerpHue(start, end, t),
                  s |-> LerpS(start, end, t), v |-> LerpV(start, end, t)])
  BY DEF LerpHsv, LerpHue, LerpS, LerpV
<1> QED
  BY <1>2, <1>3, <1>4

LEMMA SectorsMax ==
  ASSUME NEW i \in 0 .. 5, NEW f \in U8, NEW s \in U8, NEW v \in U8, NEW grb,
         grb = HsvToGrb([h |-> 256 * i + f, s |-> s, v |-> v])
  PROVE  Max3(grb) = v
<1>1. /\ grb[Lo(i)] \in U8 /\ grb[Mid(i)] \in U8
      /\ grb[Lo(i)] <= grb[Mid(i)] /\ grb[Mid(i)] <= v /\ grb[Hi(i)] = v
  BY SectorsInOrder
<1>2. \A k \in Primaries : grb[k] \in U8 /\ grb[k] <= v
  <2>1. \A k \in Primaries : k = Hi(i) \/ k = Mid(i) \/ k = Lo(i)
    BY SectorChannels
  <2>2. \A k \in {grb[Hi(i)], grb[Mid(i)], grb[Lo(i)]} : k \in U8 /\ k <= v
    <3>1. v \in U8 /\ v <= v
      BY DEF U8
    <3>2. grb[Lo(i)] <= v
      <4>1. PICK x \in U8, y \in U8 : x = grb[Lo(i)] /\ y = grb[Mid(i)] /\ x <= y /\ y <= v
        BY <1>1
      <4> QED
        BY <4>1 DEF U8
    <3> QED
      BY <1>1, <3>1, <3>2
  <2> QED
    BY <2>1, <2>2
<1>3. v \in {grb.r, grb.g, grb.b}
  BY <1>1 DEF Hi
<1>4. IsColour(grb) /\ grb.r <= v /\ grb.g <= v /\ grb.b <= v
  BY <1>2 DEF Primaries, IsColour
<1>5. Max3(grb) \in U8 /\ Max3(grb) <= v
  BY <1>4, ExtremesOf
<1>6. v <= Max3(grb)
  BY <1>3, <1>4, ExtremesOf
<1> QED
  BY <1>5, <1>6 DEF U8

LEMMA StaysBetween ==
  ASSUME NEW start, NEW end, IsColour(start), IsColour(end), NEW t \in U8, NEW grb,
         grb = LerpHsv(start, end, t)
  PROVE  /\ Max3(grb) >= Min({Max3(start), Max3(end)})
         /\ Max3(grb) <= Max({Max3(start), Max3(end)})
<1>1. PICK x \in U8, y \in U8 : x = Max3(start) /\ y = Max3(end)
  BY ExtremesOf
<1>2. PICK z \in U8 : z = LerpU8(x, y, t)
  BY LerpU8Byte
<1>3. Max3(grb) = z
  <2>1. LerpV(start, end, t) = z
    BY <1>1, <1>2, HsvOf DEF LerpV
  <2>2. PICK i \in 0 .. 5, f \in U8 : LerpHue(start, end, t) = 256 * i + f
    <3>1. PICK h \in Hues : h = LerpHue(start, end, t)
      BY LerpParts
    <3> QED
      BY <3>1, SectorOf
  <2>3. PICK s \in U8 : s = LerpS(start, end, t)
    BY LerpParts
  <2>4. grb = HsvToGrb([h |-> 256 * i + f, s |-> s, v |-> z])
    BY <2>1, <2>2, <2>3, LerpParts
  <2> QED
    BY <2>4, SectorsMax
<1>4. /\ x <= y => x <= z /\ z <= y
      /\ y <= x => y <= z /\ z <= x
  BY <1>2, LerpBetween
<1>5. x \in Int /\ y \in Int /\ {x, y} = {x, y, x}
  BY DEF U8
<1>6. /\ Max({x, y}) \in {x, y} /\ Min({x, y}) \in {x, y}
      /\ \A k \in {x, y} : Max({x, y}) >= k /\ Min({x, y}) <= k
  <2>1. /\ Max({x, y, x}) \in {x, y, x} /\ Min({x, y, x}) \in {x, y, x}
        /\ \A k \in {x, y, x} : Max({x, y, x}) >= k /\ Min({x, y, x}) <= k
    BY <1>5, Largest
  <2> QED
    BY <1>5, <2>1
<1> QED
  BY <1>1, <1>3, <1>4, <1>6 DEF U8

-----------------------------------------------------------------------------
(* A fade keeps the hue. *)

(* From or to a grey, the hue is that of the other end. *)
LEMMA KeepsOrder ==
  ASSUME NEW c, IsColour(c), ~IsGrey(c), NEW s \in U8, NEW v \in U8, NEW grb,
         grb = HsvToGrb([h |-> GrbToHsv(c).h, s |-> s, v |-> v]),
         NEW j \in Primaries, NEW k \in Primaries, c[j] > c[k]
  PROVE  grb[j] >= grb[k]
<1>1. PICK i \in 0 .. 5, f \in U8 : GrbToHsv(c).h = 256 * i + f /\ Placed(c, i, f)
  BY HsvOf, ToSectors
<1>2. c[Hi(i)] = Max3(c) /\ c[Lo(i)] = Min3(c)
  BY <1>1 DEF Placed
<1>3. /\ c[Hi(i)] \in U8 /\ c[Mid(i)] \in U8 /\ c[Lo(i)] \in U8
      /\ c[Lo(i)] <= c[Mid(i)] /\ c[Mid(i)] <= c[Hi(i)]
  <2>1. c[Mid(i)] \in U8 /\ Min3(c) <= c[Mid(i)] /\ c[Mid(i)] <= Max3(c)
    BY ExtremesOf DEF Mid, IsColour
  <2> QED
    BY <1>2, <2>1, ExtremesOf
<1>4. /\ grb[Lo(i)] \in U8 /\ grb[Mid(i)] \in U8 /\ grb[Hi(i)] = v
      /\ grb[Lo(i)] <= grb[Mid(i)] /\ grb[Mid(i)] <= v
  BY <1>1, SectorsInOrder
<1>5. (j = Hi(i) \/ j = Mid(i) \/ j = Lo(i)) /\ (k = Hi(i) \/ k = Mid(i) \/ k = Lo(i))
  BY SectorChannels
<1>6. PICK x \in U8, y \in U8, z \in U8 :
        x = c[Lo(i)] /\ y = c[Mid(i)] /\ z = c[Hi(i)] /\ x <= y /\ y <= z
  BY <1>3
<1>7. PICK p \in U8, q \in U8 :
        p = grb[Lo(i)] /\ q = grb[Mid(i)] /\ p <= q /\ q <= v
  BY <1>4
<1>8. CASE j = Hi(i)
  BY <1>4, <1>5, <1>7, <1>8 DEF U8
<1>9. CASE j = Mid(i)
  <2>1. k # Hi(i)
    BY <1>6, <1>9 DEF U8
  <2> QED
    BY <1>5, <1>7, <1>9, <2>1 DEF U8
<1>10. CASE j = Lo(i)
  <2>1. c[j] <= c[Lo(i)] /\ c[j] <= c[Mid(i)] /\ c[j] <= c[Hi(i)] /\ c[j] \in Int
    BY <1>6, <1>10 DEF U8
  <2> QED
    BY <1>5, <1>6, <2>1 DEF U8
<1> QED
  BY <1>5, <1>8, <1>9, <1>10

(* Two colours without the primary k have hues on the third of the circle opposite to it. *)
Base(k) == IF k = "b" THEN 0 ELSE IF k = "r" THEN 512 ELSE 1024
Third == 0 .. 512
Around(h) == IF h = 1536 THEN 0 ELSE h
Opposite(k, h) == \E x \in Third : h = Around(Base(k) + x)

LEMMA OppositeOf ==
  ASSUME NEW c, IsColour(c), ~IsGrey(c), NEW k \in Primaries, c[k] = 0
  PROVE  Opposite(k, GrbToHsv(c).h) /\ GrbToHsv(c).s = 255
<1>1. PICK v \in U8, m \in U8 : v = Max3(c) /\ m = Min3(c) /\ m < v
  BY HsvOf, ExtremesOf
<1>2. m = 0
  BY <1>1, ExtremesOf DEF Primaries, U8
<1>3. GrbToHsv(c).s = 255
  <2>1. GrbToHsv(c).s = (v * 255 + (v \div 2)) \div v
    <3>1. v - m = v
      BY <1>2 DEF U8
    <3> QED
      BY <1>1, <3>1, HsvOf
  <2>2. PICK n \in Nat : n = v * 255 + (v \div 2) /\ n < 256 * v /\ 255 * v <= n
    BY <1>1 DEF U8
  <2>3. n \div v < 256 /\ n \div v \in Nat
    BY <1>1, <2>2, QuotientBelow DEF U8
  <2>4. ASSUME n \div v <= 254 PROVE FALSE
    <3>1. PICK q \in 0 .. 254 : q = n \div v
      BY <2>3, <2>4
    <3>2. n < q * v + v
      <4>1. v \in Nat \ {0}
        BY <1>1 DEF U8
      <4> QED
        BY <3>1, <4>1, IntDivMod
    <3>3. q * v <= 254 * v
      BY <3>1 DEF U8
    <3> QED
      BY <2>2, <3>2, <3>3 DEF U8
  <2> QED
    BY <2>1, <2>2, <2>3, <2>4
<1>4. PICK i \in 0 .. 5, f \in U8 : GrbToHsv(c).h = 256 * i + f /\ Placed(c, i, f)
  BY <1>1, ToSectors
<1>5. k # Hi(i) /\ (k = Mid(i) \/ k = Lo(i))
  BY <1>1, <1>2, <1>4, SectorChannels DEF Placed, U8
<1>6. k = Mid(i) => Rising(i) /\ f = 0
  <2>1. ASSUME k = Mid(i) PROVE Rising(i) /\ f = 0
    <3>1. (256 * (c[Mid(i)] - m)) \div (v - m) = 0
      BY <1>1, <1>2, <2>1 DEF U8
    <3>2. IF Rising(i) THEN f = 0 ELSE 256 - f = 0
      BY <1>1, <1>4, <3>1 DEF Placed
    <3> QED
      BY <3>2 DEF U8
  <2> QED
    BY <2>1
<1>7. \E x \in Third : 256 * i + f = Around(Base(k) + x)
  <2>1. CASE k = Lo(i) /\ Rising(i)
    <3>1. f \in Third /\ 256 * i + f = Around(Base(k) + f)
      BY <2>1 DEF Lo, Rising, Base, U8, Third, Around
    <3> QED
      BY <3>1
  <2>2. CASE k = Lo(i) /\ ~Rising(i)
    <3>1. 256 + f \in Third /\ 256 * i + f = Around(Base(k) + (256 + f))
      BY <2>2 DEF Lo, Rising, Base, U8, Third, Around
    <3> QED
      BY <3>1
  <2>3. CASE k = Mid(i)
    <3>1. 512 \in Third /\ 256 * i + f = Around(Base(k) + 512)
      BY <1>6, <2>3 DEF Mid, Rising, Base, U8, Third, Around
    <3> QED
      BY <3>1
  <2> QED
    BY <1>5, <2>1, <2>2, <2>3
<1> QED
  BY <1>3, <1>4, <1>7 DEF Opposite

(* Where the hue is opposite to a primary and the colour is pure, it has none of it. *)
LEMMA OppositeHasNone ==
  ASSUME NEW k \in Primaries, NEW h, Opposite(k, h), NEW v \in U8, NEW grb,
         grb = HsvToGrb([h |-> h, s |-> 255, v |-> v])
  PROVE  grb[k] = 0
<1>1. PICK x \in Third : h = Around(Base(k) + x)
  BY DEF Opposite
<1>2. h \in Hues
  BY <1>1 DEF Base, Hues, Third, Around
<1>3. PICK i \in 0 .. 5, f \in U8 : h = 256 * i + f
  BY <1>2, SectorOf
<1>4. k = Lo(i) \/ (k = Mid(i) /\ Rising(i) /\ f = 0)
  BY <1>1, <1>3 DEF Base, Lo, Mid, Rising, U8, Primaries, Third, Around
<1>5. Mul255(v, 0) = 0 /\ Mul255(255, 255) = 255
  BY DEF Mul255, U8
<1>6. /\ grb[Lo(i)] = Mul255(v, 255 - 255)
      /\ grb[Mid(i)] = Mul255(v, 255 - Mul255(255, Slope(i, f)))
  <2>1. 255 \in U8 /\ grb = HsvToGrb([h |-> 256 * i + f, s |-> 255, v |-> v])
    BY <1>3 DEF U8
  <2> QED
    BY <2>1, Sectors
<1>7. CASE k = Lo(i)
  BY <1>5, <1>6, <1>7
<1>8. CASE k = Mid(i) /\ Rising(i) /\ f = 0
  <2>1. Slope(i, f) = 255
    BY <1>8 DEF Slope
  <2> QED
    BY <1>5, <1>6, <1>8, <2>1
<1> QED
  BY <1>4, <1>7, <1>8

(* The shorter way between two such hues does not leave that third. *)
LEMMA OppositeStays ==
  ASSUME NEW k \in Primaries, NEW a, NEW b, Opposite(k, a), Opposite(k, b), NEW t \in U8
  PROVE  Opposite(k, WrapHue(a + CDiv(ShortestDh(b - a) * t, 255)))
<1>1. PICK x \in Third, y \in Third : a = Around(Base(k) + x) /\ b = Around(Base(k) + y)
  BY DEF Opposite
<1>2. PICK q \in Nat : q = Base(k) /\ q <= 1024
  BY DEF Base
<1>3. ShortestDh(b - a) = y - x
  <2>1. PICK i \in Int, j \in Int : /\ i = a /\ (i = IF q + x = 1536 THEN 0 ELSE q + x)
                                  /\ j = b /\ (j = IF q + y = 1536 THEN 0 ELSE q + y)
    BY <1>1, <1>2 DEF Around, Third
  <2>2. j - i = y - x \/ (j - i = y - x - 1536 /\ y = 512) \/ (j - i = y - x + 1536 /\ x = 512)
    BY <1>2, <2>1 DEF Third
  <2> QED
    BY <2>1, <2>2 DEF ShortestDh, Third
<1>4. /\ x \in Int /\ 0 <= x /\ x <= 512
      /\ y \in Int /\ 0 <= y /\ y <= 512
  BY DEF Third
<1>5. PICK d \in Int : /\ d = CDiv((y - x) * t, 255)
                       /\ x <= y => 0 <= d /\ d <= y - x
                       /\ y < x => y - x <= d /\ d <= 0
  <2>1. CASE x <= y
    <3>1. PICK n \in Nat : n = (y - x) * t /\ n <= 255 * (y - x)
      BY <1>4, <2>1 DEF U8
    <3>2. CDiv(n, 255) = n \div 255
      BY <3>1, CDivSigns
    <3>3. 0 <= n \div 255 /\ n \div 255 <= y - x /\ n \div 255 \in Int
      BY <1>4, <2>1, <3>1
    <3> QED
      BY <1>4, <2>1, <3>1, <3>2, <3>3
  <2>2. CASE y < x
    <3>1. PICK n \in Int : n = (y - x) * t /\ n <= 0 /\ 255 * (y - x) <= n
      BY <1>4, <2>2 DEF U8
    <3>2. CASE n = 0
      <4>1. CDiv(n, 255) = n \div 255 /\ n \div 255 = 0
        BY <3>2, CDivSigns
      <4> QED
        BY <1>4, <2>2, <3>1, <4>1
    <3>3. CASE n < 0
      <4>1. PICK p \in Nat : p = -n /\ p <= 255 * (x - y)
        BY <1>4, <2>2, <3>1, <3>3
      <4>2. CDiv(n, 255) = -(p \div 255)
        BY <3>3, <4>1, CDivSigns
      <4>3. 0 <= p \div 255 /\ p \div 255 <= x - y /\ p \div 255 \in Int
        BY <1>4, <2>2, <4>1
      <4>4. PICK d \in Int : d = -(p \div 255) /\ y - x <= d /\ d <= 0
        BY <1>4, <4>3
      <4>5. d = CDiv((y - x) * t, 255)
        BY <3>1, <4>2, <4>4
      <4>6. ~ (x <= y)
        BY <1>4, <2>2
      <4> QED
        BY <4>4, <4>5, <4>6
    <3> QED
      BY <3>1, <3>2, <3>3
  <2> QED
    BY <1>4, <2>1, <2>2
<1>6. PICK z \in Third : z = x + d
  <2>1. x + d \in Third
    <3>1. x <= y => 0 <= x + d /\ x + d <= 512
      BY <1>4, <1>5
    <3>2. y < x => 0 <= x + d /\ x + d <= 512
      BY <1>4, <1>5
    <3> QED
      <4>1. x + d \in Int /\ 0 <= x + d /\ x + d <= 512
        BY <1>4, <1>5, <3>1, <3>2
      <4> QED
        BY <4>1 DEF Third
  <2> QED
    BY <2>1
<1>7. WrapHue(a + d) = Around(q + z)
  <2>1. CASE q + x = 1536
    <3>1. a = 0 /\ q + z = 1536 + d /\ d <= 0 /\ -512 <= d
      BY <1>1, <1>2, <1>5, <1>6, <2>1 DEF Around, Third
    <3>2. CASE d = 0
      <4>1. 0 \in Hues /\ Around(q + z) = 0 /\ a + d = 0
        BY <3>1, <3>2 DEF Hues, Around
      <4> QED
        BY <4>1, Wraps
    <3>3. CASE d # 0
      <4>1. d \in Behind /\ Around(q + z) = d + 1536 /\ a + d = d
        BY <3>1, <3>3 DEF Behind, Around
      <4> QED
        BY <4>1, Wraps
    <3> QED
      BY <3>2, <3>3
  <2>2. CASE q + x # 1536
    <3>1. a = q + x
      BY <1>1, <1>2, <2>2 DEF Around
    <3>2. PICK w \in Nat : w = q + z /\ w = a + d /\ w <= 1536
      BY <1>2, <1>6, <3>1 DEF Third
    <3>3. CASE w = 1536
      <4>1. WrapHue(1536) = 0
        BY DEF WrapHue
      <4> QED
        BY <3>2, <3>3, <4>1 DEF Around
    <3>4. CASE w # 1536
      <4>1. w \in Hues /\ Around(w) = w
        BY <3>2, <3>4 DEF Hues, Around
      <4>2. WrapHue(w) = w
        BY <4>1, Wraps
      <4> QED
        BY <3>2, <4>1, <4>2
    <3> QED
      BY <3>3, <3>4
  <2> QED
    BY <2>1, <2>2
<1> QED
  BY <1>2, <1>3, <1>5, <1>6, <1>7 DEF Opposite

LEMMA KeepsHue ==
  ASSUME NEW start, NEW end, IsColour(start), IsColour(end), NEW t \in U8, NEW grb,
         grb = LerpHsv(start, end, t)
  PROVE  /\ ~IsGrey(start) /\ ~IsGrey(end) =>
              \A k \in Primaries : start[k] = 0 /\ end[k] = 0 => grb[k] = 0
         /\ IsGrey(start) \/ IsGrey(end) =>
              \A c \in {start, end} : \A j, k \in Primaries :
                c[j] > c[k] => grb[j] >= grb[k]
<1>1. PICK s \in U8, v \in U8 : s = LerpS(start, end, t) /\ v = LerpV(start, end, t)
  BY LerpParts
<1>2. grb = HsvToGrb([h |-> LerpHue(start, end, t), s |-> s, v |-> v])
  BY <1>1, LerpParts
<1>3. ASSUME ~IsGrey(start), ~IsGrey(end), NEW k \in Primaries, start[k] = 0, end[k] = 0
      PROVE  grb[k] = 0
  <2>1. /\ Opposite(k, GrbToHsv(start).h) /\ GrbToHsv(start).s = 255
        /\ Opposite(k, GrbToHsv(end).h) /\ GrbToHsv(end).s = 255
    BY <1>3, OppositeOf
  <2>2. s = 255
    <3>1. 255 \in U8 /\ 255 <= 255 /\ LerpS(start, end, t) = LerpU8(255, 255, t)
      BY <2>1 DEF LerpS, U8
    <3>2. 255 <= s /\ s <= 255
      BY <1>1, <3>1, LerpBetween
    <3> QED
      BY <3>2 DEF U8
  <2>3. Opposite(k, LerpHue(start, end, t))
    BY <2>1, OppositeStays DEF LerpHue
  <2> QED
    BY <1>2, <2>2, <2>3, OppositeHasNone
<1>4. ASSUME IsGrey(start) \/ IsGrey(end), NEW c \in {start, end},
             NEW j \in Primaries, NEW k \in Primaries, c[j] > c[k]
      PROVE  grb[j] >= grb[k]
  <2>1. ~IsGrey(c)
    <3>1. ASSUME IsGrey(c) PROVE FALSE
      <4>1. IsColour(c) /\ Max3(c) = Min3(c)
        BY <3>1 DEF IsGrey
      <4>2. c[j] <= Max3(c) /\ Min3(c) <= c[k] /\ c[j] \in U8 /\ c[k] \in U8
        BY <4>1, ExtremesOf DEF Primaries, IsColour
      <4> QED
        <5>1. PICK x \in U8, y \in U8, z \in U8 :
                x = c[j] /\ y = c[k] /\ z = Max3(c) /\ x <= z /\ z <= y
          BY <4>1, <4>2, ExtremesOf
        <5> QED
          BY <1>4, <5>1 DEF U8
    <3> QED
      BY <3>1
  <2>2. LerpHue(start, end, t) = GrbToHsv(c).h
    <3>1. /\ GrbToHsv(start).s = 0 <=> IsGrey(start)
          /\ GrbToHsv(end).s = 0 <=> IsGrey(end)
      BY HsvOf
    <3> QED
      BY <1>4, <2>1, <3>1 DEF LerpHue
  <2> QED
    BY <1>2, <1>4, <2>1, <2>2, KeepsOrder
<1> QED
  BY <1>3, <1>4

-----------------------------------------------------------------------------
(* A fade meets its key frames. *)

(* The rounding of a division by 255 *)
Rounding == -127 .. 127

LEMMA Mul255Near ==
  ASSUME NEW n \in U8, NEW m \in U8
  PROVE  \E r \in Rounding : 255 * Mul255(n, m) = n * m + r
<1>1. PICK p \in Nat : p = n * m
  BY DEF U8
<1>2. PICK q \in Nat : q = (p + 127) \div 255 /\ 255 * q <= p + 127 /\ p + 127 < 255 * q + 255
  OBVIOUS
<1>3. 255 * q - p \in Rounding /\ 255 * q = p + (255 * q - p)
  BY <1>2 DEF Rounding
<1> QED
  BY <1>1, <1>2, <1>3 DEF Mul255

(* Converted and back: the highest and the lowest channel are what they were, and the one
   between is off by what four roundings amount to. *)
Saturates(s, v, m) == s = ((v - m) * 255 + (v \div 2)) \div v

Rounds(e, s, v, m) == e \in Rounding /\ v * s = 255 * (v - m) + e

LEMMA RoundTripLow ==
  ASSUME NEW v \in U8, NEW m \in U8, m < v, NEW s, Saturates(s, v, m)
  PROVE  s \in U8 /\ Mul255(v, 255 - s) = m /\ \E e : Rounds(e, s, v, m)
<1>0. s = ((v - m) * 255 + (v \div 2)) \div v
  BY DEF Saturates
<1>1. PICK w \in Nat, n \in Nat : /\ w = v \div 2 /\ w <= 127 /\ 2 * w <= v /\ v <= 2 * w + 1
                                  /\ n = (v - m) * 255 + w
  BY DEF U8
<1>2. v \in Nat \ {0} /\ n < 256 * v
  BY <1>1 DEF U8
<1>3. PICK q \in Nat : q = n \div v /\ q < 256 /\ q * v <= n /\ n < q * v + v
  <2>1. n \div v \in Nat /\ (n \div v) * v <= n /\ n < (n \div v) * v + v
    BY <1>2, IntDivMod
  <2>2. 256 \in Nat /\ n \div v < 256
    BY <1>2, QuotientBelow
  <2> QED
    BY <2>1, <2>2
<1>4. s = q /\ s \in U8
  BY <1>0, <1>1, <1>3 DEF U8
<1>5. PICK p \in Nat : p = q * v /\ p = v * q
  BY <1>3 DEF U8
<1>6. PICK e \in Int : e = p - 255 * (v - m)
  BY DEF U8
<1>7. e <= w /\ w - v < e /\ -127 <= e /\ e <= 127
  BY <1>1, <1>3, <1>5, <1>6 DEF U8
<1>8. v * (255 - q) = 255 * v - p
  BY <1>3, <1>5 DEF U8
<1>9. Mul255(v, 255 - s) = (255 * m - e + 127) \div 255
  BY <1>4, <1>6, <1>8 DEF Mul255, U8
<1>10. (255 * m - e + 127) \div 255 = m
  BY <1>7 DEF U8
<1>11. Rounds(e, s, v, m)
  BY <1>4, <1>5, <1>6, <1>7 DEF U8, Rounding, Rounds
<1> QED
  BY <1>4, <1>9, <1>10, <1>11

\* Where in its sector a channel stands
Stands(x, v, m, g) == \E k \in {0, 1} :
  /\ (v - m) * (255 - g + k) <= 256 * (x - m)
  /\ 256 * (x - m) < (v - m) * (255 - g + k) + (v - m)

LEMMA RoundTripMiddle ==
  ASSUME NEW v \in U8, NEW m \in U8, m < v, NEW x \in U8, m <= x, x <= v,
         NEW s \in U8, NEW e, Rounds(e, s, v, m), NEW g \in U8, Stands(x, v, m, g)
  PROVE  /\ Mul255(v, 255 - Mul255(s, g)) <= x + 3
         /\ x <= Mul255(v, 255 - Mul255(s, g)) + 3
<1>a. e \in Rounding /\ v * s = 255 * (v - m) + e
  BY DEF Rounds
<1>b. PICK k \in {0, 1} : /\ (v - m) * (255 - g + k) <= 256 * (x - m)
                         /\ 256 * (x - m) < (v - m) * (255 - g + k) + (v - m)
  BY DEF Stands
<1>1. PICK d \in U8 \ {0} : d = v - m
  BY Ranges
<1>2. PICK y \in U8 : y = x - m /\ y <= d
  BY <1>1, Ranges
<1>3. PICK u \in U8, r \in Rounding : u = Mul255(s, g) /\ 255 * u = s * g + r
  BY Mul255Bounded, Mul255Near
<1>4. PICK z \in U8, o \in Rounding :
        z = Mul255(v, 255 - u) /\ 255 * z = v * (255 - u) + o
  <2>1. 255 - u \in U8
    BY DEF U8
  <2> QED
    BY <2>1, Mul255Bounded, Mul255Near
<1>5. PICK a \in Nat, b \in Nat, c \in Nat :
        a = v * u /\ b = d * g /\ c = v * (s * g)
  BY <1>1 DEF U8
<1>6. PICK eg \in Int, vr \in Int : /\ eg = e * g /\ -127 * 255 <= eg /\ eg <= 127 * 255
                                     /\ vr = v * r /\ -127 * 255 <= vr /\ vr <= 127 * 255
  <2>1. /\ e * g \in Int /\ -127 * g <= e * g /\ e * g <= 127 * g
        /\ v * r \in Int /\ -127 * v <= v * r /\ v * r <= 127 * v
    BY <1>a, <1>3 DEF U8, Rounding
  <2> QED
    BY <2>1 DEF U8
<1>7. 255 * a = c + vr
  <2>1. PICK w \in Nat : w = s * g /\ 255 * u = w + r
    BY <1>3 DEF U8
  <2>2. 255 * (v * u) = v * (255 * u)
    <3>1. \A i, j \in Nat : 255 * (i * j) = i * (255 * j)
      OBVIOUS
    <3> QED
      BY <3>1 DEF U8
  <2>3. v * (w + r) = v * w + v * r
    <3>1. \A i, j, l \in Int : i * (j + l) = i * j + i * l
      OBVIOUS
    <3>2. v \in Int /\ w \in Int /\ r \in Int
      BY DEF U8, Rounding
    <3> QED
      BY <3>1, <3>2
  <2> QED
    BY <1>5, <1>6, <2>1, <2>2, <2>3
<1>8. c = 255 * b + eg
  <2>1. c = (v * s) * g
    BY <1>5 DEF U8
  <2>2. (255 * d + e) * g = 255 * (d * g) + e * g
    <3>1. \A i, j, l \in Int : (255 * i + j) * l = 255 * (i * l) + j * l
      OBVIOUS
    <3>2. d \in Int /\ e \in Int /\ g \in Int
      BY <1>a DEF U8, Rounding
    <3> QED
      BY <3>1, <3>2
  <2> QED
    BY <1>a, <1>1, <1>5, <1>6, <2>1, <2>2
<1>9. 255 * z = 255 * v - a + o
  BY <1>4, <1>5 DEF U8
<1>10. PICK l \in {0, 1} : k = l /\ d * (255 - g + k) = 255 * d - b + l * d
  BY <1>1, <1>5 DEF U8
<1>11. 255 * d - b + k * d <= 256 * y /\ 256 * y < 255 * d - b + k * d + d
  BY <1>b, <1>1, <1>2, <1>10
<1>12. 65025 * z = 65025 * v - 255 * b - eg - vr + 255 * o
  BY <1>7, <1>8, <1>9 DEF U8, Rounding
<1>13. /\ v = m + d /\ x = m + y /\ 0 <= y /\ y <= d /\ d <= 255 /\ -127 <= o /\ o <= 127
       /\ {v, m, d, x, y, z, o} \subseteq Int
  BY <1>1, <1>2 DEF U8, Rounding
<1>14. z <= x + 3
  <2>1. b >= 255 * d - 256 * y
    BY <1>5, <1>11, <1>13
  <2> QED
    BY <1>5, <1>6, <1>12, <1>13, <2>1
<1>15. x <= z + 3
  <2>1. b < 257 * d - 256 * y
    BY <1>5, <1>11, <1>13
  <2> QED
    BY <1>5, <1>6, <1>12, <1>13, <2>1
<1> QED
  BY <1>3, <1>4, <1>14, <1>15

LEMMA DistanceWithin ==
  ASSUME NEW c, NEW d, IsColour(c), IsColour(d), NEW n \in Nat,
         \A k \in Primaries : c[k] <= d[k] + n /\ d[k] <= c[k] + n
  PROVE  Distance(c, d) <= n
<1> DEFINE Off(k) == Max({c[k] - d[k], d[k] - c[k]})
<1>1. ASSUME NEW k \in Primaries PROVE Off(k) \in Int /\ Off(k) <= n
  <2>1. PICK x \in Int, y \in Int : x = c[k] - d[k] /\ y = d[k] - c[k] /\ x <= n /\ y <= n
    <3>1. c[k] \in Int /\ d[k] \in Int
      BY Channels DEF U8
    <3> QED
      BY <3>1
  <2>2. Max({x, y, x}) \in {x, y, x}
    BY Largest
  <2>3. {x, y, x} = {x, y}
    OBVIOUS
  <2> QED
    BY <2>1, <2>2, <2>3
<1> HIDE DEF Off
<1>2. {Off(k) : k \in Primaries} = {Off("g"), Off("r"), Off("b")}
  BY DEF Primaries
<1>3. Off("g") \in Int /\ Off("r") \in Int /\ Off("b") \in Int
  BY <1>1 DEF Primaries
<1>4. Max({Off("g"), Off("r"), Off("b")}) \in {Off("g"), Off("r"), Off("b")}
  BY <1>3, Largest
<1>5. Max({Off(k) : k \in Primaries}) <= n
  BY <1>1, <1>2, <1>4 DEF Primaries
<1> QED
  BY <1>5 DEF Distance, Off

LEMMA RoundTrip ==
  ASSUME NEW c, IsColour(c), NEW a, a = GrbToHsv(c), NEW grb,
         NEW h, ~IsGrey(c) => h = a.h, h \in Hues,
         grb = HsvToGrb([h |-> h, s |-> a.s, v |-> a.v])
  PROVE  Distance(grb, c) <= 3
<1>1. PICK v \in U8, m \in U8 : v = Max3(c) /\ m = Min3(c) /\ m <= v
  BY ExtremesOf
<1>2. a.v = v /\ a.s \in U8
  BY <1>1, HsvOf
<1>3. PICK s \in U8 : s = a.s
  BY <1>2
<1>4. CASE IsGrey(c)
  <2>1. s = 0
    BY <1>3, <1>4, HsvOf
  <2>2. grb = Grb(v, v, v)
    BY <1>2, <1>3, <2>1 DEF HsvToGrb
  <2>3. c.r = v /\ c.g = v /\ c.b = v
    <3>1. m = v
      BY <1>1, <1>4 DEF IsGrey
    <3>2. /\ c.r \in U8 /\ c.g \in U8 /\ c.b \in U8 /\ v <= c.r /\ c.r <= v
          /\ v <= c.g /\ c.g <= v /\ v <= c.b /\ c.b <= v
      BY <1>1, <3>1, ExtremesOf DEF IsColour
    <3> QED
      <4>1. \A x \in U8 : v <= x /\ x <= v => x = v
        BY DEF U8
      <4> QED
        BY <3>2, <4>1
  <2>4. \A k \in Primaries : grb[k] = v /\ c[k] = v
    BY <2>2, <2>3 DEF Primaries, Grb
  <2>5. IsColour(grb) /\ v <= v + 3
    BY <2>2 DEF IsColour, Grb, U8
  <2> QED
    BY <2>4, <2>5, DistanceWithin
<1>5. CASE ~IsGrey(c)
  <2>1. m < v /\ s = ((v - m) * 255 + (v \div 2)) \div v
    BY <1>1, <1>3, <1>5, HsvOf
  <2>2. PICK i \in 0 .. 5, f \in U8 : a.h = 256 * i + f /\ Placed(c, i, f)
    BY <1>1, <2>1, ToSectors
  <2>3. grb = HsvToGrb([h |-> 256 * i + f, s |-> s, v |-> v])
    BY <1>2, <1>3, <1>5, <2>2
  <2>4. /\ grb[Hi(i)] = v /\ grb[Lo(i)] = Mul255(v, 255 - s)
        /\ grb[Mid(i)] = Mul255(v, 255 - Mul255(s, Slope(i, f)))
    BY <2>3, Sectors
  <2>5. /\ grb[Lo(i)] \in U8 /\ grb[Mid(i)] \in U8 /\ grb[Hi(i)] \in U8
    BY <2>3, <2>4, SectorsInOrder
  <2>6. Mul255(v, 255 - s) = m /\ \E e : Rounds(e, s, v, m)
    <3>1. Saturates(s, v, m)
      BY <2>1 DEF Saturates
    <3> QED
      BY <2>1, <3>1, RoundTripLow
  <2>17. PICK e : Rounds(e, s, v, m)
    BY <2>6
  <2>7. c[Hi(i)] = v /\ c[Lo(i)] = m
    BY <1>1, <2>2 DEF Placed
  <2>8. PICK x \in U8 : x = c[Mid(i)] /\ m <= x /\ x <= v
    BY <1>1, ExtremesOf DEF Mid, IsColour
  <2>9. PICK y \in U8, d \in U8 \ {0} : y = x - m /\ d = v - m /\ y <= d
    <3>1. x - m \in U8 /\ v - m \in U8 \ {0} /\ x - m <= v - m
      BY <2>1, <2>8, Ranges
    <3> QED
      BY <3>1
  <2>10. PICK n \in Shares : n = (256 * y) \div d /\ d * n <= 256 * y /\ 256 * y < d * n + d
    BY <2>9, Part
  <2>11. IF Rising(i) THEN f = n ELSE 256 - f = n
    BY <1>1, <2>2, <2>8, <2>9, <2>10 DEF Placed
  <2>12. PICK g \in U8, k \in {0, 1} : g = Slope(i, f) /\ n = 255 - g + k
    <3>1. CASE Rising(i)
      <4>1. 255 - f \in U8 /\ n = 255 - (255 - f) + 0
        BY <2>11, <3>1 DEF U8
      <4> QED
        BY <3>1, <4>1 DEF Slope
    <3>2. CASE ~Rising(i)
      <4>1. f \in U8 /\ n = 255 - f + 1
        BY <2>11, <3>2 DEF U8
      <4> QED
        BY <3>2, <4>1 DEF Slope
    <3> QED
      BY <3>1, <3>2
  <2>13. Mul255(v, 255 - Mul255(s, g)) <= x + 3 /\ x <= Mul255(v, 255 - Mul255(s, g)) + 3
    <3>1. /\ (v - m) * (255 - g + k) <= 256 * (x - m)
          /\ 256 * (x - m) < (v - m) * (255 - g + k) + (v - m)
      <4>1. v - m = d /\ x - m = y /\ 255 - g + k = n
        BY <2>9, <2>12 DEF Shares
      <4> QED
        BY <2>10, <4>1
    <3>2. Stands(x, v, m, g)
      BY <3>1, Zenon DEF Stands
    <3> QED
      BY <2>1, <2>17, <2>8, <2>12, <3>2, RoundTripMiddle
  <2>14. /\ grb[Hi(i)] <= c[Hi(i)] + 3 /\ c[Hi(i)] <= grb[Hi(i)] + 3
         /\ grb[Lo(i)] <= c[Lo(i)] + 3 /\ c[Lo(i)] <= grb[Lo(i)] + 3
         /\ grb[Mid(i)] <= c[Mid(i)] + 3 /\ c[Mid(i)] <= grb[Mid(i)] + 3
    <3>1. v <= v + 3 /\ m <= m + 3
      BY DEF U8
    <3> QED
      BY <2>4, <2>6, <2>7, <2>8, <2>12, <2>13, <3>1
  <2>15. \A k1 \in Primaries : k1 = Hi(i) \/ k1 = Mid(i) \/ k1 = Lo(i)
    BY SectorChannels
  <2>16. IsColour(grb)
    BY <2>5, <2>15 DEF IsColour, Primaries
  <2> QED
    BY <2>14, <2>15, <2>16, DistanceWithin
<1> QED
  BY <1>4, <1>5

LEMMA MeetsFrames ==
  ASSUME NEW start, NEW end, IsColour(start), IsColour(end), NEW t \in U8, NEW grb,
         grb = LerpHsv(start, end, t)
  PROVE  /\ t = 0 => Distance(grb, start) <= 3
         /\ t = 255 => Distance(grb, end) <= 3
<1>1. PICK a, b : a = GrbToHsv(start) /\ b = GrbToHsv(end)
  OBVIOUS
<1>2. /\ a.s \in U8 /\ b.s \in U8 /\ a.v \in U8 /\ b.v \in U8 /\ a.h \in Hues /\ b.h \in Hues
      /\ (a.s = 0 <=> IsGrey(start)) /\ (b.s = 0 <=> IsGrey(end))
  BY <1>1, HsvOf, ExtremesOf
<1>3. PICK h \in Hues : h = LerpHue(start, end, t)
  BY LerpParts
<1>4. grb = HsvToGrb([h |-> h, s |-> LerpU8(a.s, b.s, t), v |-> LerpU8(a.v, b.v, t)])
  BY <1>1, <1>3, LerpParts DEF LerpS, LerpV
<1>5. PICK x \in Hues, y \in Hues : x = a.h /\ y = b.h
  BY <1>2
<1>6. PICK sa \in U8, sb \in U8, va \in U8, vb \in U8 :
        sa = a.s /\ sb = b.s /\ va = a.v /\ vb = b.v
  BY <1>2
<1>7. ASSUME t = 0 PROVE Distance(grb, start) <= 3
  <2>1. grb = HsvToGrb([h |-> h, s |-> a.s, v |-> a.v])
    <3>1. LerpU8(sa, sb, t) = sa /\ LerpU8(va, vb, t) = va
      BY <1>7, LerpBetween
    <3> QED
      BY <1>4, <1>6, <3>1
  <2>2. ~IsGrey(start) => h = a.h
    <3>1. CDiv(ShortestDh(y - x) * 0, 255) = 0 /\ WrapHue(x + 0) = x
      <4>1. ShortestDh(y - x) \in Int
        BY DEF ShortestDh, Hues
      <4>2. ShortestDh(y - x) * 0 = 0
        BY <4>1
      <4>3. CDiv(0, 255) = 0
        BY CDivSigns
      <4>4. x + 0 = x
        BY DEF Hues
      <4> QED
        BY <4>2, <4>3, <4>4, Wraps
    <3> QED
      BY <1>1, <1>2, <1>3, <1>5, <1>7, <3>1 DEF LerpHue
  <2> QED
    BY <1>1, <2>1, <2>2, RoundTrip
<1>8. ASSUME t = 255 PROVE Distance(grb, end) <= 3
  <2>1. grb = HsvToGrb([h |-> h, s |-> b.s, v |-> b.v])
    <3>1. LerpU8(sa, sb, t) = sb /\ LerpU8(va, vb, t) = vb
      BY <1>8, LerpBetween
    <3> QED
      BY <1>4, <1>6, <3>1
  <2>2. ~IsGrey(end) => h = b.h
    <3>1. WrapHue(x + CDiv(ShortestDh(y - x) * 255, 255)) = y
      <4>1. PICK d \in Int : /\ d = ShortestDh(y - x)
                             /\ x + d \in {y, y - 1536, y + 1536}
                             /\ x \in 0 .. 1535 /\ y \in 0 .. 1535
        <5>1. PICK e \in Int : e = y - x /\ x \in 0 .. 1535 /\ y \in 0 .. 1535
          BY DEF Hues
        <5>2. PICK d \in Int : d = ShortestDh(e) /\ d \in {e, e - 1536, e + 1536}
          BY DEF ShortestDh
        <5>3. x + d \in {y, y - 1536, y + 1536}
          BY <5>1, <5>2
        <5> QED
          BY <5>1, <5>2, <5>3
      <4>2. CDiv(d * 255, 255) = d
        <5>1. PICK n \in Int : n = d * 255
          OBVIOUS
        <5>2. CASE n >= 0
          <6>1. n \div 255 = d
            BY <5>1
          <6> QED
            BY <5>1, <5>2, <6>1, CDivSigns
        <5>3. CASE n < 0
          <6>1. PICK p \in Nat : p = -n /\ p \div 255 = -d
            BY <5>1, <5>3
          <6>2. -(p \div 255) = d
            BY <6>1
          <6> QED
            BY <5>1, <5>3, <6>1, <6>2, CDivSigns
        <5> QED
          BY <5>1, <5>2, <5>3
      <4>3. WrapHue(x + d) = y
        BY <4>1 DEF WrapHue
      <4> QED
        BY <4>1, <4>2, <4>3
    <3> QED
      BY <1>1, <1>2, <1>3, <1>5, <1>8, <3>1 DEF LerpHue
  <2> QED
    BY <1>1, <2>1, <2>2, RoundTrip
<1> QED
  BY <1>7, <1>8

LEMMA NoFadeFaithful ==
  /\ Distance(Black, Black) <= 3 /\ IsGrey(Black)
  /\ Max3(Black) >= Min({Max3(Black), Max3(Black)})
  /\ Max3(Black) <= Max({Max3(Black), Max3(Black)})
  /\ \A j, k \in Primaries : ~ (Black[j] > Black[k])
<1>1. \A k \in Primaries : Black[k] = 0
  BY DEF Black, Grb, Primaries
<1>2. IsColour(Black) /\ Black.r = 0 /\ Black.g = 0 /\ Black.b = 0
  BY DEF IsColour, Black, Grb, U8
<1>3. Max3(Black) = 0 /\ Min3(Black) = 0
  BY <1>2, ExtremesOf
<1>4. Distance(Black, Black) <= 3
  BY <1>1, <1>2, DistanceWithin
<1>5. PICK x \in Int : x = 0 /\ x = Max3(Black)
  BY <1>3
<1>6. Max({x, x, x}) \in {x, x, x} /\ Min({x, x, x}) \in {x, x, x} /\ {x, x, x} = {x, x}
  BY Largest
<1> QED
  BY <1>1, <1>3, <1>4, <1>5, <1>6 DEF IsGrey

LEMMA FadeStep == FadeIsFaithful /\ [ColourNext]_colourVars => FadeIsFaithful'
<1> SUFFICES ASSUME FadeIsFaithful, [ColourNext]_colourVars PROVE FadeIsFaithful'
  OBVIOUS
<1>1. ASSUME NEW type \in Types, NEW from \in Pixels, NEW to \in Pixels, NEW t \in Blends,
             Fade(type, from, to, t)
      PROVE  FadeIsFaithful'
  <2>1. IsColour(from) /\ IsColour(to) /\ t \in U8
    BY PixelIsColour, InputAssumption
  <2>2. PICK grb : grb = LerpHsv(from, to, t)
    OBVIOUS
  <2>3. fade'.from = from /\ fade'.to = to /\ fade'.t = t /\ fade'.grb = grb
    BY <1>1, <2>2 DEF Fade
  <2>4. FadeMeetsFrames'
    BY <2>1, <2>2, <2>3, MeetsFrames DEF FadeMeetsFrames
  <2>5. FadeStaysBetween'
    BY <2>1, <2>2, <2>3, StaysBetween DEF FadeStaysBetween
  <2>6. FadeKeepsHue'
    BY <2>1, <2>2, <2>3, KeepsHue DEF FadeKeepsHue
  <2> QED
    BY <2>4, <2>5, <2>6 DEF FadeIsFaithful
<1>2. CASE fade' = fade
  BY <1>2 DEF FadeIsFaithful, FadeMeetsFrames, FadeStaysBetween, FadeKeepsHue
<1>3. CASE NextTick
  <2>1. fade'.from = Black /\ fade'.to = Black /\ fade'.t = 0 /\ fade'.grb = Black
    BY <1>3 DEF NextTick, NoFade
  <2> QED
    BY <2>1, NoFadeFaithful
    DEF FadeIsFaithful, FadeMeetsFrames, FadeStaysBetween, FadeKeepsHue
<1> QED
  BY <1>1, <1>2, <1>3 DEF ColourNext, Tick, Hold, ShowError, Test, Breath, colourVars

(* A fade is faithful to its two key frames, for all their colours and every blend factor:
   no channel is off by more than 3 at its ends, it is never brighter or darker than both
   ends, and it never shows a primary that neither end has (framebuffer.cpp:145-149,
   ld_led_ops.h:24-168). *)
THEOREM FadeAlwaysFaithful == ColourSpec => []FadeIsFaithful
<1>1. ColourInit => FadeIsFaithful
  <2> SUFFICES ASSUME ColourInit PROVE FadeIsFaithful
    OBVIOUS
  <2>1. fade.from = Black /\ fade.to = Black /\ fade.t = 0 /\ fade.grb = Black
    BY DEF ColourInit, NoFade
  <2> QED
    BY <2>1, NoFadeFaithful
    DEF FadeIsFaithful, FadeMeetsFrames, FadeStaysBetween, FadeKeepsHue
<1> QED
  BY <1>1, FadeStep, PTL DEF ColourSpec

-----------------------------------------------------------------------------
(* AckDelay: the time left that an ACK carries, for any delays and any interleaving of
   the tasks. *)

(* Within half of the word's range the difference of two times keeps its sign. *)
LEMMA SignedSmall ==
  ASSUME NEW x \in Int, x < Word \div 2, -(Word \div 2) <= x
  PROVE  Signed(x) = x
<1>1. PICK h \in Nat : h = Word \div 2 /\ h + h <= Word
  BY AckDelayAssumption
<1>2. Word \in Nat \ {0}
  BY AckDelayAssumption
<1>3. CASE x >= 0
  <2>1. x \in 0 .. Word - 1
    BY <1>1, <1>2, <1>3
  <2>2. x % Word = x
    BY <1>2, <2>1, ModSmall
  <2> QED
    BY <1>1, <2>2 DEF Signed
<1>4. CASE x < 0
  <2>1. -Word <= x
    BY <1>1, <1>2, <1>4
  <2>2. x % Word = x + Word
    BY <1>2, <1>4, <2>1, ModNegative
  <2> QED
    BY <1>1, <1>2, <1>4, <2>2 DEF Signed
<1> QED
  BY <1>3, <1>4

LEMMA MaxOfTwo ==
  ASSUME NEW x \in Int
  PROVE  Max({0, x}) = IF x >= 0 THEN x ELSE 0
<1>1. \E y \in {0, x} : \A z \in {0, x} : y >= z
  OBVIOUS
<1>2. Max({0, x}) \in {0, x} /\ \A z \in {0, x} : Max({0, x}) >= z
  BY <1>1 DEF Max
<1> QED
  BY <1>2

Asks == [delay : Nat, at : Nat, slip : Nat]

(* What CHECK computes at a time for a command, from what was stored of it. *)
LeftOf(a, at) == Max({0, Signed(a.at + a.slip + (a.delay % Word) - at)})

AckDelayTypes ==
  /\ clock \in Nat /\ asked \in Seq(Asks)
  /\ lock \in [pc : {"idle", "cmd", "delay", "stamp"}, wait : Nat]
  /\ cache \in [cmd : Nat, delay : Nat, stamp : Nat]
  /\ check \in [pc : {"idle", "answer"}, left : Int, at : Nat, torn : BOOLEAN]
  /\ answer \in [cmd : Nat, ms : Int, at : Nat, torn : BOOLEAN]

(* The lock at work is that of the last command, and the cache holds what it has stored. *)
LockInOrder ==
  /\ \A i \in 1 .. Len(asked) : asked[i].at + asked[i].slip <= clock
  /\ lock.pc # "idle" =>
       /\ asked # <<>> /\ lock.wait = asked[Len(asked)].delay % Word
       /\ lock.pc \in {"delay", "stamp"} => cache.cmd = Len(asked)
       /\ lock.pc = "stamp" => cache.delay = asked[Len(asked)].delay % Word
  /\ lock.pc = "idle" /\ asked # <<>> =>
       /\ cache.cmd = Len(asked) /\ cache.delay = asked[Len(asked)].delay % Word
       /\ cache.stamp = asked[Len(asked)].at + asked[Len(asked)].slip

(* A CHECK that no lock has met yet has read the last command as it is stored. *)
Checking ==
  check.pc = "answer" /\ ~check.torn =>
    /\ lock.pc = "idle" /\ asked # <<>>
    /\ check.left = LeftOf(asked[Len(asked)], check.at)
    /\ asked[Len(asked)].at + asked[Len(asked)].slip <= check.at

(* So has the one that was answered; a lock at work is of a later command. *)
Answered ==
  answer.cmd # 0 /\ ~answer.torn =>
    /\ answer.cmd \in 1 .. Len(asked)
    /\ lock.pc # "idle" => answer.cmd < Len(asked)
    /\ answer.ms = LeftOf(asked[answer.cmd], answer.at) \div UsPerMs
    /\ asked[answer.cmd].at + asked[answer.cmd].slip <= answer.at

AckDelayInv == AckDelayTypes /\ LockInOrder /\ Checking /\ Answered

LEMMA AckDelayInvInit == AckDelayInit => AckDelayInv
BY DEF AckDelayInit, AckDelayInv, AckDelayTypes, LockInOrder, Checking, Answered, NoLock, NoCheck,
       NoAnswer

LEMMA MeetsLock ==
  ASSUME AckDelayTypes, check' = Meets
  PROVE  /\ check' \in [pc : {"idle", "answer"}, left : Int, at : Nat, torn : BOOLEAN]
         /\ check'.pc = "answer" => check'.torn
<1>1. PICK w \in BOOLEAN : w = (check.pc # "idle")
  OBVIOUS
<1>2. check' = [check EXCEPT !.torn = w]
  BY <1>1 DEF Meets
<1>3. check'.pc = check.pc /\ check'.torn = w
  BY <1>2 DEF AckDelayTypes
<1> QED
  BY <1>1, <1>2, <1>3 DEF AckDelayTypes

LEMMA MsToUs == ASSUME NEW ms \in Nat PROVE ms * UsPerMs \in Nat /\ Us(ms) \in Nat
BY AckDelayAssumption DEF Us

LEMMA StepLock ==
  ASSUME AckDelayInv, NEW ms \in Delays, Lock(ms)
  PROVE  AckDelayInv'
<1> USE DEF AckDelayInv
<1>0. UNCHANGED <<clock, cache, answer>> /\ check' = Meets /\ lock.pc = "idle"
  BY DEF Lock
<1>1. PICK a \in Asks : a = [delay |-> ms * UsPerMs, at |-> clock, slip |-> 0]
  BY AckDelayAssumption, MsToUs DEF Asks, AckDelayTypes
<1>2. PICK n \in Nat : n = Len(asked)
  BY DEF AckDelayTypes
<1>3. /\ asked' \in Seq(Asks) /\ Len(asked') = n + 1 /\ asked' # <<>>
      /\ asked'[n + 1] = a /\ \A i \in 1 .. n : asked'[i] = asked[i]
  BY <1>1, <1>2 DEF Lock, AckDelayTypes
<1>4. lock' = [pc |-> "cmd", wait |-> a.delay % Word] /\ a.delay % Word \in Nat
  BY <1>1, MsToUs, AckDelayAssumption DEF Lock, Us
<1>5. AckDelayTypes'
  BY <1>0, <1>3, <1>4, MeetsLock DEF AckDelayTypes
<1>6. LockInOrder'
  <2>1. ASSUME NEW i \in 1 .. n + 1
        PROVE  asked'[i].at + asked'[i].slip <= clock'
    <3>1. CASE i = n + 1
      <4>1. a.at + a.slip <= clock
        BY <1>1 DEF AckDelayTypes
      <4> QED
        BY <1>0, <1>3, <3>1, <4>1
    <3>2. CASE i # n + 1
      BY <1>0, <1>2, <1>3, <3>2 DEF LockInOrder
    <3> QED
      BY <3>1, <3>2
  <2>2. lock'.pc = "cmd" /\ lock'.wait = asked'[Len(asked')].delay % Word
    BY <1>3, <1>4
  <2> QED
    BY <1>3, <2>1, <2>2 DEF LockInOrder
<1>7. Checking'
  BY <1>0, MeetsLock DEF Checking
<1>8. Answered'
  BY <1>0, <1>2, <1>3, <1>4 DEF Answered
<1> QED
  BY <1>5, <1>6, <1>7, <1>8

LEMMA StepStoreCmd == AckDelayInv /\ StoreCmd => AckDelayInv'
<1> SUFFICES ASSUME AckDelayInv, StoreCmd PROVE AckDelayInv'
  OBVIOUS
<1> USE DEF AckDelayInv, StoreCmd
<1>1. /\ lock.pc = "cmd" /\ lock'.pc = "delay" /\ lock'.wait = lock.wait
      /\ lock' \in [pc : {"idle", "cmd", "delay", "stamp"}, wait : Nat]
  BY DEF AckDelayTypes
<1>2. /\ cache'.cmd = Len(asked) /\ cache' \in [cmd : Nat, delay : Nat, stamp : Nat]
  BY DEF AckDelayTypes
<1>3. AckDelayTypes'
  BY <1>1, <1>2, MeetsLock DEF AckDelayTypes
<1>4. Checking'
  BY MeetsLock DEF Checking
<1>5. LockInOrder' /\ Answered'
  BY <1>1, <1>2 DEF LockInOrder, Answered
<1> QED
  BY <1>3, <1>4, <1>5

LEMMA StepStoreDelay == AckDelayInv /\ StoreDelay => AckDelayInv'
<1> SUFFICES ASSUME AckDelayInv, StoreDelay PROVE AckDelayInv'
  OBVIOUS
<1> USE DEF AckDelayInv, StoreDelay
<1>1. /\ lock.pc = "delay" /\ lock'.pc = "stamp" /\ lock'.wait = lock.wait
      /\ lock' \in [pc : {"idle", "cmd", "delay", "stamp"}, wait : Nat]
  BY DEF AckDelayTypes
<1>2. /\ cache'.cmd = cache.cmd /\ cache'.delay = lock.wait
      /\ cache' \in [cmd : Nat, delay : Nat, stamp : Nat]
  BY DEF AckDelayTypes
<1>3. AckDelayTypes'
  BY <1>1, <1>2, MeetsLock DEF AckDelayTypes
<1>4. Checking'
  BY MeetsLock DEF Checking
<1>5. LockInOrder' /\ Answered'
  BY <1>1, <1>2 DEF LockInOrder, Answered
<1> QED
  BY <1>3, <1>4, <1>5

LEMMA StepStoreStamp == AckDelayInv /\ StoreStamp => AckDelayInv'
<1> SUFFICES ASSUME AckDelayInv, StoreStamp PROVE AckDelayInv'
  OBVIOUS
<1> USE DEF AckDelayInv, StoreStamp
<1>1. lock.pc = "stamp" /\ lock' = NoLock /\ check' = Meets /\ UNCHANGED <<clock, answer>>
  OBVIOUS
<1>2. /\ cache'.cmd = cache.cmd /\ cache'.delay = cache.delay /\ cache'.stamp = clock
      /\ cache' \in [cmd : Nat, delay : Nat, stamp : Nat]
  BY DEF AckDelayTypes
<1>3. PICK n \in Nat : n = Len(asked) /\ n \in 1 .. Len(asked)
  BY <1>1 DEF AckDelayTypes, LockInOrder
<1>4. PICK a \in Asks : a = asked[n] /\ a.at + a.slip <= clock
  BY <1>3 DEF AckDelayTypes, LockInOrder
<1>5. PICK s \in Nat : s = clock - a.at
  <2>1. clock \in Nat /\ a.at \in Nat /\ a.slip \in Nat
    BY DEF AckDelayTypes, Asks
  <2>2. clock - a.at \in Nat
    BY <1>4, <2>1
  <2> QED
    BY <2>2
<1>6. asked' = [asked EXCEPT ![n].slip = s]
  BY <1>3, <1>4, <1>5
<1>7. /\ asked' \in Seq(Asks) /\ Len(asked') = n /\ \A i \in 1 .. n : i # n => asked'[i] = asked[i]
      /\ asked'[n].slip = s /\ asked'[n].at = a.at /\ asked'[n].delay = a.delay
  <2>1. [a EXCEPT !.slip = s] \in Asks
    BY DEF Asks
  <2>2. asked' = [asked EXCEPT ![n] = [a EXCEPT !.slip = s]]
    BY <1>4, <1>6
  <2>3. /\ asked' \in Seq(Asks) /\ Len(asked') = n
        /\ \A i \in 1 .. n : asked'[i] = IF i = n THEN [a EXCEPT !.slip = s] ELSE asked[i]
    <3> HIDE DEF AckDelayInv, StoreStamp
    <3> DEFINE b == [a EXCEPT !.slip = s]
    <3> HIDE DEF b
    <3>1. asked \in Seq(Asks) /\ b \in Asks /\ asked' = [asked EXCEPT ![n] = b]
      BY <2>1, <2>2 DEF AckDelayTypes, b, AckDelayInv
    <3>2. /\ asked' \in Seq(Asks) /\ Len(asked') = n
          /\ \A i \in 1 .. n : asked'[i] = IF i = n THEN b ELSE asked[i]
      BY <1>3, <3>1
    <3> QED
      BY <3>2 DEF b
  <2> QED
    <3>1. [a EXCEPT !.slip = s].slip = s /\ [a EXCEPT !.slip = s].at = a.at
            /\ [a EXCEPT !.slip = s].delay = a.delay
      BY DEF Asks
    <3>2. asked'[n] = [a EXCEPT !.slip = s]
      BY <1>3, <2>3
    <3> QED
      BY <2>3, <3>1, <3>2
<1>8. AckDelayTypes'
  BY <1>1, <1>2, <1>7, MeetsLock DEF AckDelayTypes, NoLock
<1>9. Checking'
  BY <1>1, MeetsLock DEF Checking
<1>10. LockInOrder'
  <2>1. a.at + s = clock
    BY SMTT(30), <1>4, <1>5 DEF AckDelayTypes, Asks
  <2>2. ASSUME NEW i \in 1 .. n
        PROVE  asked'[i].at + asked'[i].slip <= clock
    <3>1. CASE i = n
      BY <1>7, <2>1, <3>1 DEF AckDelayTypes
    <3>2. CASE i # n
      BY <1>3, <1>7, <3>2 DEF LockInOrder
    <3> QED
      BY <3>1, <3>2
  <2>3. lock'.pc = "idle"
    BY <1>1 DEF NoLock
  <2>4. cache.cmd = n /\ cache.delay = a.delay % Word
    BY <1>1, <1>3, <1>4 DEF LockInOrder
  <2> QED
    BY <1>1, <1>2, <1>7, <2>1, <2>2, <2>3, <2>4 DEF LockInOrder
<1>11. Answered'
  BY <1>1, <1>3, <1>7 DEF Answered, NoLock
<1> QED
  BY <1>8, <1>9, <1>10, <1>11

LEMMA StepReadLeft == AckDelayInv /\ ReadLeft => AckDelayInv'
<1> SUFFICES ASSUME AckDelayInv, ReadLeft PROVE AckDelayInv'
  OBVIOUS
<1> USE DEF AckDelayInv, ReadLeft
<1>1. PICK w \in BOOLEAN : w = (lock.pc # "idle")
  OBVIOUS
<1>2. PICK x \in Int : x = cache.stamp + cache.delay - clock
  BY DEF AckDelayTypes
<1>3. Signed(x) \in Int
  BY AckDelayAssumption DEF Signed
<1>4. Remaining \in Int
  BY <1>2, <1>3, MaxOfTwo DEF Remaining
<1>5. check' = [pc |-> "answer", left |-> Remaining, at |-> clock, torn |-> w]
  BY <1>1
<1>6. AckDelayTypes'
  BY <1>4, <1>5 DEF AckDelayTypes, NoAnswer
<1>7. Checking'
  <2>1. ASSUME lock.pc = "idle", asked # <<>>
        PROVE  Remaining = LeftOf(asked[Len(asked)], clock)
    <3>1. PICK a \in Asks : a = asked[Len(asked)]
      BY <2>1 DEF AckDelayTypes
    <3>2. cache.stamp = a.at + a.slip /\ cache.delay = a.delay % Word
      BY <2>1, <3>1 DEF LockInOrder
    <3> QED
      BY <3>1, <3>2, Zenon DEF Remaining, LeftOf
  <2>2. asked # <<>> => Len(asked) \in 1 .. Len(asked)
    BY DEF AckDelayTypes
  <2> QED
    <3>1. check'.pc = "answer" /\ check'.torn = w /\ check'.left = Remaining /\ check'.at = clock
      BY <1>5
    <3> QED
      BY <1>1, <2>1, <2>2, <3>1 DEF Checking, LockInOrder
<1>8. LockInOrder' /\ Answered'
  BY DEF LockInOrder, Answered, NoAnswer
<1> QED
  BY <1>6, <1>7, <1>8

LEMMA StepAnswer == AckDelayInv /\ Answer => AckDelayInv'
<1> SUFFICES ASSUME AckDelayInv, Answer PROVE AckDelayInv'
  OBVIOUS
<1> USE DEF AckDelayInv, Answer
<1>1. check.left \div UsPerMs \in Int
  BY AckDelayAssumption DEF AckDelayTypes
<1>2. AckDelayTypes'
  BY <1>1 DEF AckDelayTypes, NoCheck
<1>3. LockInOrder' /\ Checking'
  BY DEF LockInOrder, Checking, NoCheck
<1>4. Answered'
  BY DEF Answered, Checking, LockInOrder, AckDelayTypes
<1> QED
  BY <1>2, <1>3, <1>4

LEMMA StepPass ==
  ASSUME AckDelayInv, (\E w \in Waits : Pass(w)) \/ UNCHANGED ackDelayVars
  PROVE  AckDelayInv'
<1> USE DEF AckDelayInv
<1>1. UNCHANGED <<lock, cache, check, answer, asked>> /\ clock' \in Nat /\ clock <= clock'
  BY AckDelayAssumption DEF Pass, ackDelayVars, AckDelayTypes
<1>2. AckDelayTypes' /\ Checking' /\ Answered'
  BY <1>1 DEF AckDelayTypes, Checking, Answered
<1>3. LockInOrder'
  <2>1. ASSUME NEW i \in 1 .. Len(asked)
        PROVE  asked[i].at + asked[i].slip <= clock'
    <3>1. asked[i] \in Asks /\ asked[i].at + asked[i].slip <= clock /\ clock \in Nat
      BY DEF AckDelayTypes, LockInOrder
    <3> QED
      BY <1>1, <3>1 DEF Asks
  <2> QED
    BY <1>1, <2>1 DEF LockInOrder
<1> QED
  BY <1>2, <1>3

LEMMA AckDelayInvStep == AckDelayInv /\ [AckDelayNext]_ackDelayVars => AckDelayInv'
BY StepLock, StepStoreCmd, StepStoreDelay, StepStoreStamp, StepReadLeft, StepAnswer, StepPass
   DEF AckDelayNext

(* The time a stored command has left, as CHECK computes it. *)
LEMMA LeftIsTrue ==
  ASSUME NEW a \in Asks, NEW at \in Nat, a.at + a.slip <= at, a.delay < Word \div 2,
         at - (a.at + a.delay) <= Word \div 2
  PROVE  \E x \in Int : /\ x = a.at + a.slip + a.delay - at
                        /\ LeftOf(a, at) = IF x >= 0 THEN x ELSE 0
<1>1. PICK h \in Nat : h = Word \div 2 /\ h + h <= Word
  BY AckDelayAssumption
<1>2. a.at \in Nat /\ a.slip \in Nat /\ a.delay \in Nat /\ Word \in Nat \ {0}
  BY AckDelayAssumption DEF Asks
<1>3. a.delay \in 0 .. Word - 1
  BY <1>1, <1>2
<1>4. a.delay % Word = a.delay
  BY <1>2, <1>3, ModSmall
<1>5. PICK x \in Int : x = a.at + a.slip + a.delay - at
  BY <1>2
<1>6. x < h /\ -h <= x
  BY <1>1, <1>2, <1>5
<1>7. Signed(x) = x
  BY <1>1, <1>6, SignedSmall
<1>8. LeftOf(a, at) = Max({0, x})
  <2>1. a.at + a.slip + (a.delay % Word) - at = x
    BY <1>4, <1>5
  <2> QED
    BY <1>7, <2>1, Zenon DEF LeftOf
<1> QED
  BY <1>5, <1>8, MaxOfTwo

(* An ACK that met no lock is right about the command's time, whatever the width of the
   words, the delays and the interleaving of locks, CHECKs and answers
   (bt_scheduler.cpp:111-121, 227-232; bt_protocol.cpp:64, 85-114). *)
THEOREM AnswerIsAlwaysTimely == AckDelaySpec => []AnswerIsTimely
<1>1. AckDelaySpec => []AckDelayInv
  BY AckDelayInvInit, AckDelayInvStep, PTL DEF AckDelaySpec
<1>2. ASSUME AckDelayInv PROVE AnswerIsTimely
  <2> SUFFICES ASSUME answer.cmd # 0, ~answer.torn
               PROVE  LET a    == asked[answer.cmd]
                          due  == a.at + a.delay
                          left == Max({0, due - answer.at})
                          us   == answer.ms * UsPerMs
                      IN  a.delay < Word \div 2 /\ answer.at - due <= Word \div 2
                            => us > left - UsPerMs /\ us <= left + a.slip
    BY Zenon DEF AnswerIsTimely
  <2> DEFINE b    == asked[answer.cmd]
             due  == b.at + b.delay
             left == Max({0, due - answer.at})
             us   == answer.ms * UsPerMs
  <2>1. ASSUME b.delay < Word \div 2, answer.at - due <= Word \div 2
        PROVE  us > left - UsPerMs /\ us <= left + b.slip
    <3>1. PICK a \in Asks, at \in Nat :
            /\ a = b /\ at = answer.at /\ a.at + a.slip <= at
            /\ answer.ms = LeftOf(a, at) \div UsPerMs
      BY <1>2 DEF AckDelayInv, Answered, AckDelayTypes
    <3>2. PICK x \in Int : /\ x = a.at + a.slip + a.delay - at
                           /\ LeftOf(a, at) = IF x >= 0 THEN x ELSE 0
      BY <2>1, <3>1, LeftIsTrue
    <3>3. PICK n \in Nat : n = LeftOf(a, at)
      BY <3>2
    <3>4. /\ UsPerMs \in Nat /\ UsPerMs > 0 /\ (n \div UsPerMs) * UsPerMs <= n
          /\ n < (n \div UsPerMs) * UsPerMs + UsPerMs
      BY AckDelayAssumption, IntDivMod
    <3>5. PICK u \in Int : u = us /\ u <= n /\ n < u + UsPerMs
      BY <3>1, <3>3, <3>4
    <3>6. PICK y \in Int : y = (a.at + a.delay) - at
      BY DEF Asks
    <3>7. PICK l \in Int : l = Max({0, y}) /\ l = IF y >= 0 THEN y ELSE 0
      BY <3>6, MaxOfTwo
    <3>8. PICK z \in Nat : z = a.slip /\ x = y + z
      BY <3>2, <3>6 DEF Asks
    <3>9. (n = IF x >= 0 THEN x ELSE 0) /\ (l = IF y >= 0 THEN y ELSE 0)
      BY <3>2, <3>3, <3>7
    <3>10. u > l - UsPerMs /\ u <= l + z
      <4>1. u <= n /\ n < u + UsPerMs /\ x = y + z /\ UsPerMs \in Nat /\ UsPerMs > 0
        BY <3>4, <3>5, <3>8
      <4> HIDE DEF us
      <4> QED
        BY <3>9, <4>1
    <3>11. l = left
      <4>1. due = a.at + a.delay /\ at = answer.at
        BY <3>1, Zenon
      <4>2. y = (a.at + a.delay) - at
        BY <3>6
      <4>3. y = due - answer.at
        BY <4>1, <4>2, Zenon
      <4> HIDE DEF due
      <4> QED
        BY <3>7, <4>3, Zenon
    <3> QED
      BY <3>1, <3>5, <3>8, <3>10, <3>11
  <2> QED
    BY <2>1
<1> QED
  BY <1>1, <1>2, PTL

-----------------------------------------------------------------------------
(* Logger: the ring and the file, for any lines, size and short writes. *)

LEMMA ModAbove ==
  ASSUME NEW w \in Nat \ {0}, NEW x \in Int, w <= x, x < w + w
  PROVE  x % w = x - w
OBVIOUS

LEMMA ModSplit ==
  ASSUME NEW w \in Nat \ {0}, NEW x \in Nat
  PROVE  \E q \in Nat : x % w \in 0 .. w - 1 /\ x = q * w + (x % w)
<1>1. x \div w \in Nat /\ x % w \in 0 .. w - 1 /\ x = (x \div w) * w + (x % w)
  OBVIOUS
<1> QED
  BY <1>1

LEMMA ModUnique ==
  ASSUME NEW w \in Nat \ {0}, NEW q \in Nat, NEW r \in 0 .. w - 1
  PROVE  (q * w + r) % w = r
<1>1. PICK x \in Nat : x = q * w + r
  OBVIOUS
<1>2. PICK p \in Nat : x % w \in 0 .. w - 1 /\ x = p * w + (x % w)
  BY ModSplit
<1>3. PICK s \in 0 .. w - 1 : s = x % w
  BY <1>2
<1>4. p * w + s = q * w + r
  BY <1>1, <1>2, <1>3
<1>5. ASSUME p < q PROVE FALSE
  <2>1. (p + 1) * w <= q * w
    BY <1>5
  <2>2. (p + 1) * w = p * w + w
    OBVIOUS
  <2>3. PICK a \in Int, b \in Int : a = p * w /\ b = q * w
    OBVIOUS
  <2> QED
    BY <1>4, <2>1, <2>2, <2>3
<1>6. ASSUME q < p PROVE FALSE
  <2>1. (q + 1) * w <= p * w
    BY <1>6
  <2>2. (q + 1) * w = q * w + w
    OBVIOUS
  <2>3. PICK a \in Int, b \in Int : a = p * w /\ b = q * w
    OBVIOUS
  <2> QED
    BY <1>4, <2>1, <2>2, <2>3
<1>7. p = q
  BY <1>5, <1>6
<1>8. PICK a \in Int : a = q * w
  OBVIOUS
<1>9. s = r
  BY <1>4, <1>7, <1>8
<1> QED
  BY <1>1, <1>3, <1>9

LEMMA ModPlus ==
  ASSUME NEW w \in Nat \ {0}, NEW x \in Nat
  PROVE  (x + w) % w = x % w
<1>1. PICK q \in Nat : x % w \in 0 .. w - 1 /\ x = q * w + (x % w)
  BY ModSplit
<1>2. PICK r \in 0 .. w - 1 : r = x % w
  BY <1>1
<1>3. x + w = (q + 1) * w + r
  <2>1. (q + 1) * w = q * w + w
    OBVIOUS
  <2>2. PICK a \in Int : a = q * w
    OBVIOUS
  <2> QED
    BY <1>1, <1>2, <2>1, <2>2
<1>4. ((q + 1) * w + r) % w = r
  BY ModUnique
<1> QED
  BY <1>2, <1>3, <1>4

LEMMA ModNext ==
  ASSUME NEW w \in Nat \ {0}, NEW x \in Nat, x % w = 0
  PROVE  (x + 1) % w = 1 % w
<1>1. PICK q \in Nat : x = q * w
  <2>1. PICK q \in Nat : x = q * w + (x % w)
    BY ModSplit
  <2>2. PICK a \in Nat : a = q * w
    OBVIOUS
  <2>3. x = a + (x % w)
    BY <2>1, <2>2
  <2>4. x = a
    BY <2>2, <2>3
  <2> QED
    BY <2>2, <2>4
<1>2. CASE w = 1
  BY <1>2
<1>3. CASE w > 1
  <2>1. (q * w + 1) % w = 1
    <3>1. 1 \in 0 .. w - 1
      BY <1>3
    <3> QED
      BY <3>1, ModUnique
  <2>2. 1 % w = 1
    BY <1>3
  <2> QED
    BY <1>1, <2>1, <2>2
<1> QED
  BY <1>2, <1>3

Cells == 0 .. BufferSize - 1

(* A cell of the ring holds the newest character that went there, if one did. *)
Newest(i) == logged - ((head - 1 - i) % BufferSize)

LoggerTypes ==
  /\ head \in Cells /\ tail \in Cells /\ data \in [Cells -> Nat] /\ logged \in Nat
  /\ logFile \in Seq(Nat) /\ short \in Nat
  /\ flushing \in [part : {"none", "first", "second", "sync"}, written : Nat]

RingIsNewest == \A i \in Cells : data[i] = IF Newest(i) >= 1 THEN Newest(i) ELSE 0

(* A flush has written no more than is unread, and if no write came up short, all of what
   it has passed. *)
Flushing ==
  /\ Unread <= logged /\ flushing.written <= Unread
  /\ mutex = Nobody => flushing.part = "none"
  /\ flushing.part \in {"none", "first"} => flushing.written = 0
  /\ flushing.part = "first" => head # tail
  /\ flushing.part = "second" => head < tail /\ flushing.written <= BufferSize - tail
  /\ (short = 0 /\ flushing.part = "second") => flushing.written = BufferSize - tail
  /\ (short = 0 /\ flushing.part = "sync") => flushing.written = Unread

InOrder(f) ==
  \A i \in 2 .. Len(f) :
    f[i] > f[i - 1] /\ (f[i] - f[i - 1]) % BufferSize = 1 % BufferSize

LastOf(f) == IF f = <<>> THEN 0 ELSE f[Len(f)]

(* The file ends where this flush is, or whole laps before the first unread character. *)
FileEnds ==
  short = 0 =>
    /\ InOrder(logFile)
    /\ IF flushing.written = 0
       THEN /\ LastOf(logFile) <= logged - Unread
            /\ ((logged - Unread) - LastOf(logFile)) % BufferSize = 0
       ELSE LastOf(logFile) = (logged - Unread) + flushing.written

LoggerInv == LoggerTypes /\ RingIsNewest /\ Flushing /\ FileEnds

LEMMA MoveIs ==
  ASSUME NEW x \in Cells, NEW n \in 0 .. BufferSize
  PROVE  /\ (x + n) % BufferSize \in Cells
         /\ (x + n) % BufferSize
              = IF x + n < BufferSize THEN x + n ELSE (x + n) - BufferSize
<1>1. BufferSize \in Nat \ {0} /\ x \in Nat /\ x < BufferSize /\ n \in Nat /\ n <= BufferSize
  BY LoggerAssumption DEF Cells
<1>2. CASE x + n < BufferSize
  <2>1. x + n \in 0 .. BufferSize - 1
    BY <1>1, <1>2
  <2> QED
    BY <1>1, <1>2, <2>1, ModSmall DEF Cells
<1>3. CASE x + n >= BufferSize
  <2>1. PICK y \in Int : y = x + n /\ BufferSize <= y /\ y < BufferSize + BufferSize
    BY <1>1, <1>3
  <2>2. y % BufferSize = y - BufferSize
    BY <1>1, <2>1, ModAbove
  <2> QED
    BY <1>1, <1>3, <2>1, <2>2 DEF Cells
<1> QED
  BY <1>1, <1>2, <1>3

LEMMA DistanceIs ==
  ASSUME NEW x \in Cells, NEW y \in Cells
  PROVE  /\ (x - 1 - y) % BufferSize \in Cells
         /\ (x - 1 - y) % BufferSize
              = IF x > y THEN (x - 1) - y ELSE ((x - 1) - y) + BufferSize
<1>1. /\ BufferSize \in Nat \ {0} /\ x \in Nat /\ x < BufferSize /\ y \in Nat /\ y < BufferSize
  BY LoggerAssumption DEF Cells
<1>2. CASE x > y
  <2>1. (x - 1) - y \in 0 .. BufferSize - 1
    BY <1>1, <1>2
  <2> QED
    BY <1>1, <1>2, <2>1, ModSmall DEF Cells
<1>3. CASE x <= y
  <2>1. PICK d \in Int : d = (x - 1) - y /\ -BufferSize <= d /\ d < 0
    BY <1>1, <1>3
  <2>2. d % BufferSize = d + BufferSize
    BY <1>1, <2>1, ModNegative
  <2> QED
    BY <1>1, <1>3, <2>1, <2>2 DEF Cells
<1> QED
  BY <1>1, <1>2, <1>3

LEMMA GapIs ==
  ASSUME NEW h \in Cells, NEW t \in Cells
  PROVE  /\ (h - t) % BufferSize \in Cells
         /\ (h - t) % BufferSize = IF h >= t THEN h - t ELSE (h - t) + BufferSize
<1>1. /\ BufferSize \in Nat \ {0} /\ h \in Nat /\ h < BufferSize /\ t \in Nat /\ t < BufferSize
  BY LoggerAssumption DEF Cells
<1>2. CASE h >= t
  <2>1. h - t \in 0 .. BufferSize - 1
    BY <1>1, <1>2
  <2> QED
    BY <1>1, <1>2, <2>1, ModSmall DEF Cells
<1>3. CASE h < t
  <2>1. PICK d \in Int : d = h - t /\ -BufferSize <= d /\ d < 0
    BY <1>1, <1>3
  <2>2. d % BufferSize = d + BufferSize
    BY <1>1, <2>1, ModNegative
  <2> QED
    BY <1>1, <1>3, <2>1, <2>2 DEF Cells
<1> QED
  BY <1>1, <1>2, <1>3

LEMMA UnreadIs ==
  ASSUME LoggerTypes
  PROVE  /\ Unread = IF head >= tail THEN head - tail ELSE (head - tail) + BufferSize
         /\ Unread \in Cells
BY GapIs DEF LoggerTypes, Unread

(* The k-th unread character is in its cell. *)
LEMMA UnreadCell ==
  ASSUME LoggerInv, NEW k \in 1 .. Unread
  PROVE  data[(tail + k - 1) % BufferSize] = (logged - Unread) + k
<1>1. /\ BufferSize \in Nat \ {0} /\ head \in Cells /\ tail \in Cells /\ logged \in Nat
      /\ Unread = IF head >= tail THEN head - tail ELSE (head - tail) + BufferSize
      /\ Unread \in Cells /\ Unread <= logged
  BY LoggerAssumption, UnreadIs DEF LoggerInv, LoggerTypes, Flushing
<1>2. PICK u \in Nat : u = Unread
  <2>1. \A j \in Cells : j \in Nat
    BY LoggerAssumption DEF Cells
  <2> QED
    BY <1>1, <2>1, Zenon
<1>3. k \in Nat /\ 1 <= k /\ k <= u
  BY <1>2
<1>4. PICK i \in Cells : /\ i = (tail + (k - 1)) % BufferSize
                         /\ i = tail + (k - 1) \/ i = (tail + (k - 1)) - BufferSize
  <2>1. k - 1 \in 0 .. BufferSize
    BY <1>1, <1>2, <1>3 DEF Cells
  <2> QED
    BY <1>1, <2>1, MoveIs DEF Cells
<1>5. (head - 1 - i) % BufferSize = u - k
  <2>1. u - k \in 0 .. BufferSize - 1
    BY <1>1, <1>2, <1>3 DEF Cells
  <2>2. (head - 1) - i = u - k \/ (head - 1) - i = (u - k) - BufferSize
    BY <1>1, <1>2, <1>3, <1>4 DEF Cells
  <2>3. (head - 1 - i) % BufferSize
          = IF head > i THEN (head - 1) - i ELSE ((head - 1) - i) + BufferSize
    BY <1>1, DistanceIs
  <2> QED
    BY <1>1, <1>4, <2>1, <2>2, <2>3 DEF Cells
<1>6. Newest(i) = (logged - u) + k
  BY <1>1, <1>3, <1>5 DEF Newest
<1>7. Newest(i) >= 1
  BY <1>1, <1>2, <1>3, <1>6
<1>8. data[i] = Newest(i)
  BY <1>7 DEF LoggerInv, RingIsNewest
<1> QED
  <2>1. data[i] = (logged - Unread) + k
    BY <1>2, <1>6, <1>8, Zenon
  <2>2. i = (tail + k - 1) % BufferSize
    BY <1>4
  <2> QED
    BY <2>1, <2>2, Zenon

LEMMA LastIsNat ==
  ASSUME NEW f \in Seq(Nat)
  PROVE  LastOf(f) \in Nat
<1>1. CASE f = <<>>
  BY <1>1 DEF LastOf
<1>2. CASE f # <<>>
  <2>1. Len(f) \in 1 .. Len(f)
    BY <1>2
  <2>2. f[Len(f)] \in Nat
    BY <2>1
  <2> QED
    BY <1>2, <2>2 DEF LastOf
<1> QED
  BY <1>1, <1>2

LEMMA RunAppended ==
  ASSUME NEW f \in Seq(Nat), InOrder(f), NEW base \in Nat, NEW n \in Nat,
         LastOf(f) <= base, (base - LastOf(f)) % BufferSize = 0
  PROVE  /\ f \o [k \in 1 .. n |-> base + k] \in Seq(Nat)
         /\ InOrder(f \o [k \in 1 .. n |-> base + k])
         /\ LastOf(f \o [k \in 1 .. n |-> base + k]) = IF n = 0 THEN LastOf(f) ELSE base + n
<1> DEFINE r == [k \in 1 .. n |-> base + k]
<1>1. r \in Seq(Nat) /\ Len(r) = n /\ \A k \in 1 .. n : r[k] = base + k
  <2>1. \A k \in 1 .. n : base + k \in Nat
    OBVIOUS
  <2> QED
    BY <2>1
<1> HIDE DEF r
<1>2. PICK l \in Nat : l = Len(f)
  OBVIOUS
<1>3. PICK g \in Seq(Nat) : /\ g = f \o r /\ Len(g) = l + n
                            /\ \A i \in 1 .. l + n : g[i] = IF i <= l THEN f[i] ELSE r[i - l]
  <2>1. /\ f \o r \in Seq(Nat) /\ Len(f \o r) = Len(f) + Len(r)
        /\ \A i \in 1 .. Len(f) + Len(r) :
             (f \o r)[i] = IF i <= Len(f) THEN f[i] ELSE r[i - Len(f)]
    BY <1>1, ConcatProperties
  <2>2. PICK g \in Seq(Nat) : g = f \o r
    BY <2>1
  <2>3. Len(f) = l /\ Len(r) = n
    BY <1>1, <1>2
  <2>4. /\ Len(g) = l + n
        /\ \A i \in 1 .. l + n : g[i] = IF i <= l THEN f[i] ELSE r[i - l]
    BY <2>1, <2>2, <2>3, Zenon
  <2> QED
    BY <2>2, <2>4, Zenon
<1>4. l > 0 => LastOf(f) = f[l] /\ f[l] \in Nat
  BY <1>2 DEF LastOf
<1>5. BufferSize \in Nat \ {0}
  BY LoggerAssumption
<1>6. ASSUME NEW i \in 2 .. l + n
      PROVE  g[i] > g[i - 1] /\ (g[i] - g[i - 1]) % BufferSize = 1 % BufferSize
  <2>1. CASE i <= l
    BY <1>2, <1>3, <2>1 DEF InOrder
  <2>2. CASE i = l + 1
    <3>1. l > 0 /\ n > 0 /\ i \in 1 .. l + n /\ i - 1 \in 1 .. l + n /\ i - l = 1 /\ i - 1 = l
      BY <2>2
    <3>2. g[i] = base + 1 /\ g[i - 1] = f[l]
      BY <1>1, <1>3, <2>2, <3>1
    <3>3. PICK d \in Nat : d = base - f[l] /\ d % BufferSize = 0
      <4>1. f[l] \in Nat /\ f[l] <= base /\ (base - f[l]) % BufferSize = 0
        BY <1>4, <3>1, Zenon
      <4>2. base - f[l] \in Nat
        BY <4>1
      <4> QED
        BY <4>1, <4>2, Zenon
    <3>4. g[i] - g[i - 1] = d + 1 /\ g[i] > g[i - 1]
      <4>1. PICK e \in Nat : e = f[l]
        BY <1>4, <3>1
      <4>2. g[i] = base + 1 /\ g[i - 1] = e /\ d = base - e
        BY <3>2, <3>3, <4>1, Zenon
      <4> QED
        BY <4>2
    <3>5. (d + 1) % BufferSize = 1 % BufferSize
      BY <1>5, <3>3, ModNext
    <3> QED
      BY <3>4, <3>5, Zenon
  <2>3. CASE i > l + 1
    <3>1. i \in 1 .. l + n /\ i - 1 \in 1 .. l + n /\ i - l \in 1 .. n /\ i - 1 - l \in 1 .. n
      BY <2>3
    <3>2. g[i] = base + (i - l) /\ g[i - 1] = base + (i - 1 - l)
      <4>1. i \in Int /\ ~(i <= l) /\ ~(i - 1 <= l) /\ (i - 1) - l = i - 1 - l
        BY <2>3
      <4>2. g[i] = r[i - l] /\ g[i - 1] = r[(i - 1) - l]
        BY <1>3, <3>1, <4>1
      <4> QED
        BY <1>1, <3>1, <4>1, <4>2
    <3>3. g[i] - g[i - 1] = 1 /\ g[i] > g[i - 1]
      BY <3>1, <3>2
    <3> QED
      BY <3>3
  <2> QED
    BY <2>1, <2>2, <2>3
<1>7. InOrder(g)
  BY <1>3, <1>6 DEF InOrder
<1>8. LastOf(g) = IF n = 0 THEN LastOf(f) ELSE base + n
  <2>1. CASE n = 0
    <3>1. l = 0 => f = <<>> /\ g = <<>>
      BY <1>2, <1>3, <2>1
    <3>2. l > 0 => g # <<>> /\ f # <<>> /\ g[l] = f[l] /\ Len(g) = l
      BY <1>2, <1>3, <2>1
    <3> QED
      BY <1>2, <1>3, <2>1, <3>1, <3>2 DEF LastOf
  <2>2. CASE n > 0
    <3>1. g # <<>> /\ l + n \in 1 .. l + n /\ n \in 1 .. n /\ (l + n) - l = n
      BY <1>3, <2>2
    <3>2. g[l + n] = base + n
      BY <1>1, <1>3, <2>2, <3>1
    <3> QED
      BY <1>3, <2>2, <3>1, <3>2 DEF LastOf
  <2> QED
    BY <2>1, <2>2
<1> QED
  BY <1>3, <1>7, <1>8 DEF r

LEMMA LoggerInvInit == LoggerInit => LoggerInv
<1> SUFFICES ASSUME LoggerInit PROVE LoggerInv
  OBVIOUS
<1> USE LoggerAssumption DEF LoggerInit, NotFlushing
<1>1. 0 \in Cells
  BY DEF Cells
<1>2. LoggerTypes
  BY <1>1 DEF LoggerTypes, Cells
<1>3. Unread = 0
  BY <1>1, GapIs DEF Unread
<1>4. RingIsNewest
  <2>1. ASSUME NEW i \in Cells PROVE ~(Newest(i) >= 1)
    <3>1. PICK a \in Cells : a = (0 - 1 - i) % BufferSize
      BY <1>1, DistanceIs
    <3>2. Newest(i) = 0 - a
      BY <3>1 DEF Newest
    <3> QED
      BY <3>1, <3>2 DEF Cells
  <2> QED
    BY <2>1 DEF RingIsNewest, Cells
<1>5. Flushing
  BY <1>3 DEF Flushing
<1>6. FileEnds
  <2>1. InOrder(logFile) /\ LastOf(logFile) = 0
    BY DEF InOrder, LastOf
  <2>2. (logged - Unread) - LastOf(logFile) = 0 /\ 0 \in 0 .. BufferSize - 1
    BY <1>3, <2>1
  <2>3. ((logged - Unread) - LastOf(logFile)) % BufferSize = 0
    BY <2>2, ModSmall, Zenon
  <2> QED
    BY <1>3, <2>1, <2>3 DEF FileEnds
<1> QED
  BY <1>2, <1>4, <1>5, <1>6 DEF LoggerInv

(* A line moves every cell's newest character on by its size. *)
LEMMA NewestMoves ==
  ASSUME LoggerInv, NEW size \in 0 .. BufferSize, Log(size), NEW i \in Cells
  PROVE  /\ Newest(i)' \in Int
         /\ data'[i] = IF Newest(i)' >= 1 THEN Newest(i)' ELSE 0
<1>1. /\ BufferSize \in Nat \ {0} /\ head \in Cells /\ logged \in Nat /\ size \in Nat
      /\ head' = (head + size) % BufferSize /\ logged' = logged + size
      /\ data[i] = IF Newest(i) >= 1 THEN Newest(i) ELSE 0
  BY LoggerAssumption DEF LoggerInv, LoggerTypes, RingIsNewest, Log
<1>2. /\ head' \in Cells
      /\ head' = IF head + size < BufferSize THEN head + size ELSE (head + size) - BufferSize
  BY <1>1, MoveIs
<1>3. PICK a \in Cells : /\ a = (head - 1 - i) % BufferSize
                         /\ a = IF head > i THEN (head - 1) - i ELSE ((head - 1) - i) + BufferSize
  BY <1>1, DistanceIs
<1>4. PICK b \in Cells : /\ b = (head' - 1 - i) % BufferSize
                         /\ b = IF head' > i THEN (head' - 1) - i ELSE ((head' - 1) - i) + BufferSize
  BY <1>2, DistanceIs
<1>5. data'[i] = IF b < size THEN logged' - b ELSE data[i]
  <2>1. i \in DOMAIN data
    BY DEF LoggerInv, LoggerTypes
  <2> QED
    BY <1>4, <2>1 DEF Log
<1>6. Newest(i) = logged - a /\ Newest(i)' = logged' - b
  BY <1>3, <1>4 DEF Newest
<1>7. b >= size => b = a + size
  BY <1>1, <1>2, <1>3, <1>4 DEF Cells
<1> QED
  BY <1>1, <1>3, <1>4, <1>5, <1>6, <1>7 DEF Cells

LEMMA StepLog ==
  ASSUME LoggerInv, NEW size \in 0 .. BufferSize, Log(size)
  PROVE  LoggerInv'
<1>1. /\ BufferSize \in Nat \ {0} /\ head \in Cells /\ tail \in Cells /\ logged \in Nat
      /\ size \in Nat /\ size <= BufferSize
      /\ head' = (head + size) % BufferSize /\ logged' = logged + size /\ tail' = tail
      /\ mutex = Nobody /\ mutex' = mutex /\ flushing' = flushing /\ logFile' = logFile
      /\ short' = short /\ LoggerTypes
  BY LoggerAssumption DEF LoggerInv, LoggerTypes, Log
<1>2. /\ head' \in Cells
      /\ head' = IF head + size < BufferSize THEN head + size ELSE (head + size) - BufferSize
  BY <1>1, MoveIs
<1>3. RingIsNewest'
  BY NewestMoves, LoggerAssumption DEF RingIsNewest, Cells
<1>4. data' \in [Cells -> Nat]
  <2>1. ASSUME NEW i \in Cells PROVE data'[i] \in Nat
    BY NewestMoves
  <2>2. data' = [i \in Cells |-> data'[i]]
    <3>1. DOMAIN data = Cells
      BY <1>1 DEF LoggerTypes
    <3> QED
      BY <3>1 DEF Log
  <2> QED
    BY <2>1, <2>2
<1>5. LoggerTypes'
  BY <1>1, <1>2, <1>4 DEF LoggerTypes
<1>6. PICK u \in Cells :
        /\ u = Unread /\ u = IF head >= tail THEN head - tail ELSE (head - tail) + BufferSize
        /\ u <= logged
  BY <1>1, UnreadIs DEF LoggerInv, Flushing
<1>7. PICK v \in Cells :
        v = Unread' /\ v = IF head' >= tail THEN head' - tail ELSE (head' - tail) + BufferSize
  BY <1>1, <1>2, GapIs DEF Unread
<1>8. v = u + size \/ v = (u + size) - BufferSize
  BY <1>1, <1>2, <1>6, <1>7 DEF Cells
<1>9. /\ logged' - v \in Nat
      /\ logged' - v = logged - u \/ logged' - v = (logged - u) + BufferSize
  <2>1. u \in Nat /\ v \in Nat /\ u <= logged /\ u < BufferSize
    BY <1>1, <1>6 DEF Cells
  <2>2. logged' = logged + size /\ size \in Nat /\ logged \in Nat /\ BufferSize \in Nat
    BY <1>1
  <2> QED
    BY <1>8, <2>1, <2>2
<1>10. flushing.part = "none" /\ flushing.written = 0
  BY <1>1 DEF LoggerInv, Flushing
<1>11. Flushing'
  <2>1. v <= logged' /\ 0 <= v
    BY <1>1, <1>6, <1>7, <1>8 DEF Cells
  <2> QED
    BY <1>1, <1>7, <1>10, <2>1 DEF Flushing
<1>12. FileEnds'
  <2>1. SUFFICES ASSUME short = 0 PROVE FileEnds'
    BY <1>1 DEF FileEnds
  <2>2. /\ InOrder(logFile) /\ LastOf(logFile) <= logged - u
        /\ ((logged - u) - LastOf(logFile)) % BufferSize = 0
    BY <1>6, <1>10, <2>1 DEF LoggerInv, FileEnds
  <2>3. PICK l \in Nat : l = LastOf(logFile)
    BY <1>1, LastIsNat DEF LoggerTypes
  <2>4. l <= logged' - v
    BY <1>1, <1>6, <1>9, <2>2, <2>3 DEF Cells
  <2>5. ((logged' - v) - l) % BufferSize = 0
    <3>1. PICK d \in Nat : d = (logged - u) - l /\ d % BufferSize = 0
      <4>1. (logged - u) - l \in Nat
        BY <1>1, <1>6, <2>2, <2>3 DEF Cells
      <4> QED
        BY <2>2, <2>3, <4>1, Zenon
    <3>2. (d + BufferSize) % BufferSize = 0
      BY <1>1, <3>1, ModPlus
    <3>3. (logged' - v) - l = d \/ (logged' - v) - l = d + BufferSize
      <4>1. PICK m \in Nat : m = logged'
        BY <1>1
      <4>2. /\ u \in Nat /\ v \in Nat /\ logged \in Nat /\ BufferSize \in Nat
            /\ m - v = logged - u \/ m - v = (logged - u) + BufferSize
        BY <1>1, <1>9, <4>1 DEF Cells
      <4>3. (m - v) - l = d \/ (m - v) - l = d + BufferSize
        <5>1. PICK e \in Int, g \in Int : e = logged - u /\ g = m - v
          BY <4>2
        <5>2. d = e - l
          BY <3>1, <5>1, Zenon
        <5>3. g = e \/ g = e + BufferSize
          BY <4>2, <5>1, Zenon
        <5>4. g - l = d \/ g - l = d + BufferSize
          BY <4>2, <5>2, <5>3
        <5> QED
          BY <5>1, <5>4, Zenon
      <4> QED
        BY <4>1, <4>3, Zenon
    <3> QED
      BY <3>1, <3>2, <3>3, Zenon
  <2>6. flushing'.written = 0 /\ logged' - Unread' = logged' - v /\ LastOf(logFile') = l
    BY <1>1, <1>7, <1>10, <2>3
  <2> QED
    BY <1>1, <2>2, <2>4, <2>5, <2>6 DEF FileEnds, InOrder
<1> QED
  BY <1>3, <1>5, <1>11, <1>12 DEF LoggerInv

LEMMA StepTake ==
  ASSUME LoggerInv, NEW f \in Flushers, Take(f)
  PROVE  LoggerInv'
<1>1. /\ UNCHANGED <<head, tail, data, logged, logFile, short>>
      /\ mutex = Nobody /\ mutex' = f /\ f # Nobody
      /\ flushing' = IF head = tail THEN NotFlushing ELSE [part |-> "first", written |-> 0]
  BY DEF Take, Flushers, Nobody
<1>2. flushing.part = "none" /\ flushing.written = 0
  BY <1>1 DEF LoggerInv, Flushing
<1>3. /\ flushing' \in [part : {"none", "first", "second", "sync"}, written : Nat]
      /\ flushing'.written = 0 /\ flushing'.part \in {"none", "first"}
      /\ flushing'.part = "first" => head # tail
  BY <1>1 DEF NotFlushing
<1>4. Unread' = Unread /\ \A i : Newest(i)' = Newest(i)
  BY <1>1 DEF Unread, Newest
<1>5. LoggerTypes' /\ RingIsNewest'
  BY <1>1, <1>3, <1>4 DEF LoggerInv, LoggerTypes, RingIsNewest
<1>6. Flushing'
  BY <1>1, <1>2, <1>3, <1>4 DEF LoggerInv, Flushing
<1>7. FileEnds'
  BY <1>1, <1>2, <1>3, <1>4 DEF LoggerInv, FileEnds, InOrder
<1> QED
  BY <1>5, <1>6, <1>7 DEF LoggerInv

(* Writing the ring from where the flush is puts the next unread characters in the file. *)
LEMMA StepFwrite ==
  ASSUME LoggerInv, NEW from \in Nat, NEW to \in Nat, NEW next \in {"second", "sync"},
         Fwrite(from, to, next), UNCHANGED <<head, tail, data, mutex, logged>>,
         from <= to, to <= BufferSize, flushing.written + (to - from) <= Unread,
         mutex # Nobody,
         short = 0 /\ flushing.written = 0 => from < to,
         (tail + flushing.written = from) \/ (short = 0 => tail + flushing.written = from + BufferSize),
         next = "second" => /\ head < tail /\ flushing.written + (to - from) = BufferSize - tail,
         next = "sync" => (short = 0 => flushing.written + (to - from) = Unread)
  PROVE  LoggerInv'
<1>1. PICK n \in 0 .. to - from :
        /\ \/ n = to - from /\ UNCHANGED short
           \/ n < to - from /\ short < MaxShort /\ short' = short + 1
        /\ logFile' = logFile \o [k \in 1 .. n |-> data[from + k - 1]]
        /\ flushing' = [part |-> next, written |-> flushing.written + n]
  BY DEF Fwrite
<1>2. PICK w \in Nat, u \in Nat :
        /\ w = flushing.written /\ u = Unread /\ u <= logged /\ w + (to - from) <= u
        /\ u < BufferSize
  <2>1. BufferSize \in Nat \ {0} /\ Unread \in Cells /\ Unread <= logged /\ flushing.written \in Nat
    BY LoggerAssumption, UnreadIs DEF LoggerInv, LoggerTypes, Flushing
  <2>2. PICK u \in Cells : u = Unread
    BY <2>1, Zenon
  <2> QED
    BY <2>1, <2>2 DEF Cells
<1>3. /\ BufferSize \in Nat \ {0} /\ logged \in Nat /\ tail \in Cells /\ head \in Cells
      /\ logFile \in Seq(Nat) /\ short \in Nat /\ data \in [Cells -> Nat] /\ n \in Nat
      /\ n <= to - from
  BY <1>1, LoggerAssumption DEF LoggerInv, LoggerTypes
<1>4. logFile' \in Seq(Nat)
  <2>1. ASSUME NEW k \in 1 .. n PROVE data[from + k - 1] \in Nat
    <3>1. from + k - 1 \in Cells
      BY <1>3 DEF Cells
    <3> QED
      BY <1>3, <3>1
  <2>2. PICK s \in Seq(Nat) : s = [k \in 1 .. n |-> data[from + k - 1]]
    <3>1. n \in Nat
      BY <1>3
    <3>2. [k \in 1 .. n |-> data[from + k - 1]] \in Seq(Nat)
      BY <2>1, <3>1
    <3> QED
      BY <3>2
  <2>3. logFile \o s \in Seq(Nat)
    BY <1>3, ConcatProperties
  <2> QED
    BY <1>1, <2>2, <2>3, Zenon
<1>5. Unread' = u /\ \A i : Newest(i)' = Newest(i)
  BY <1>2 DEF Unread, Newest
<1>6. flushing' = [part |-> next, written |-> w + n] /\ w + n \in Nat /\ short' \in Nat
  <2>1. flushing' = [part |-> next, written |-> w + n]
    BY <1>1, <1>2, Zenon
  <2>2. short' = short \/ short' = short + 1
    BY <1>1, Zenon
  <2>3. short' \in Nat
    BY <1>3, <2>2
  <2>4. w + n \in Nat
    OBVIOUS
  <2> QED
    BY <2>1, <2>3, <2>4, Zenon
<1>7. LoggerTypes' /\ RingIsNewest'
  BY <1>3, <1>4, <1>5, <1>6 DEF LoggerInv, LoggerTypes, RingIsNewest
<1>8. short' = 0 => short = 0 /\ n = to - from
  BY <1>1, <1>3
<1>9. Flushing'
  <2>1. flushing'.part = next /\ flushing'.written = w + n /\ mutex' = mutex /\ mutex # Nobody
    BY <1>6
  <2>2. w + n <= u
    BY <1>2, <1>3
  <2>3. next = "second" => /\ head < tail /\ w + n <= BufferSize - tail
                           /\ (short' = 0 => w + n = BufferSize - tail)
    BY SMTT(30), <1>2, <1>3, <1>8 DEF Cells
  <2>4. next = "sync" => (short' = 0 => w + n = u)
    BY <1>2, <1>3, <1>8
  <2>5. Unread' <= logged' /\ flushing'.written <= Unread'
    BY <1>2, <1>5, <2>1, <2>2
  <2>6. head' = head /\ tail' = tail /\ next # "none" /\ next # "first"
    OBVIOUS
  <2> QED
    BY <1>5, <2>1, <2>3, <2>4, <2>5, <2>6 DEF Flushing
<1>10. FileEnds'
  <2>1. SUFFICES ASSUME short' = 0 PROVE FileEnds'
    BY DEF FileEnds
  <2>2. short = 0 /\ n = to - from /\ (w = 0 => n > 0)
    BY <1>2, <1>3, <1>8, <2>1
  <2>3. PICK base \in Nat : base = (logged - u) + w
    BY <1>2, <1>3
  <2>4. PICK l \in Nat : l = LastOf(logFile)
    BY <1>3, LastIsNat
  <2>5. InOrder(logFile) /\ l <= base /\ (base - l) % BufferSize = 0
    <3>1. CASE w = 0
      <4>1. InOrder(logFile) /\ l <= logged - u /\ ((logged - u) - l) % BufferSize = 0
        BY <1>2, <2>2, <2>4, <3>1 DEF LoggerInv, FileEnds
      <4>2. base = logged - u
        BY <1>2, <1>3, <2>3, <3>1
      <4> QED
        BY <4>1, <4>2, Zenon
    <3>2. CASE w # 0
      <4>1. InOrder(logFile) /\ l = base
        BY <1>2, <2>2, <2>3, <2>4, <3>2 DEF LoggerInv, FileEnds
      <4>2. base - l = 0 /\ 0 \in 0 .. BufferSize - 1
        BY <1>3, <4>1
      <4>3. (base - l) % BufferSize = 0
        BY <1>3, <4>2, ModSmall, Zenon
      <4> QED
        BY <4>1, <4>3
    <3> QED
      BY <3>1, <3>2
  <2>6. ASSUME NEW k \in 1 .. n PROVE data[from + k - 1] = base + k
    <3>1. PICK j \in 1 .. u : j = w + k
      BY <1>2, <1>3, <2>2
    <3>2. j \in 1 .. Unread
      BY <1>2, <3>1, Zenon
    <3>3. data[(tail + (j - 1)) % BufferSize] = (logged - u) + j
      <4>1. data[(tail + j - 1) % BufferSize] = (logged - Unread) + j
        BY <3>2, UnreadCell
      <4> QED
        BY <1>2, <4>1, Zenon
    <3>4. (tail + (j - 1)) % BufferSize = from + (k - 1)
      <4>1. j - 1 \in 0 .. BufferSize
        BY <1>2, <1>3
      <4>2. (tail + (j - 1)) % BufferSize
              = IF tail + (j - 1) < BufferSize THEN tail + (j - 1) ELSE (tail + (j - 1)) - BufferSize
        BY <1>3, <4>1, MoveIs
      <4>3. tail + w = from \/ tail + w = from + BufferSize
        BY <1>2, <2>2
      <4>4. from + (k - 1) < BufferSize /\ from + (k - 1) >= 0
        BY <1>3, <2>2
      <4>5. tail + (j - 1) = from + (k - 1) \/ tail + (j - 1) = (from + (k - 1)) + BufferSize
        <5>1. tail \in Nat /\ w \in Nat /\ from \in Nat /\ k \in Nat /\ BufferSize \in Nat /\ j = w + k
          BY <1>3, <3>1 DEF Cells
        <5> QED
          BY <4>3, <5>1
      <4> QED
        BY <1>3, <4>2, <4>4, <4>5 DEF Cells
    <3>5. (logged - u) + j = base + k
      BY SMTT(30), <1>2, <1>3, <2>3, <3>1
    <3>6. data[from + (k - 1)] = base + k
      BY <3>3, <3>4, <3>5, Zenon
    <3> QED
      BY <3>6
  <2>7. logFile' = logFile \o [k \in 1 .. n |-> base + k]
    <3>1. [k \in 1 .. n |-> data[from + k - 1]] = [k \in 1 .. n |-> base + k]
      BY <2>6, Zenon
    <3> QED
      BY <1>1, <3>1, Zenon
  <2>8. /\ InOrder(logFile \o [k \in 1 .. n |-> base + k])
        /\ LastOf(logFile \o [k \in 1 .. n |-> base + k])
             = IF n = 0 THEN LastOf(logFile) ELSE base + n
    BY <1>3, <2>4, <2>5, RunAppended
  <2>9. InOrder(logFile)' /\ LastOf(logFile)' = IF n = 0 THEN l ELSE base + n
    <3>1. InOrder(logFile') /\ LastOf(logFile') = IF n = 0 THEN l ELSE base + n
      BY <2>4, <2>7, <2>8, Zenon
    <3> QED
      BY <3>1 DEF InOrder, LastOf
  <2>10. n = 0 => l = base
    <3>1. n = 0 => w # 0
      BY <2>2
    <3> QED
      BY <1>2, <2>2, <2>3, <2>4, <3>1 DEF LoggerInv, FileEnds
  <2>11. LastOf(logFile)' = base + n
    BY <2>9, <2>10, <2>3, <1>3
  <2>12. flushing'.written = w + n /\ w + n # 0 /\ (logged' - Unread') + (w + n) = base + n
    <3>1. flushing'.written = w + n /\ logged' = logged /\ Unread' = u
      BY <1>5, <1>6
    <3>2. w + n # 0 /\ (logged - u) + (w + n) = base + n
      <4>1. w = 0 => n > 0
        BY <2>2
      <4>2. logged \in Nat /\ n \in Nat /\ base = (logged - u) + w
        BY <1>3, <2>3
      <4> QED
        BY <4>1, <4>2
    <3> QED
      BY <3>1, <3>2, Zenon
  <2> QED
    BY <2>9, <2>11, <2>12 DEF FileEnds
<1> QED
  BY <1>7, <1>9, <1>10 DEF LoggerInv

LEMMA StepWriteFirst ==
  ASSUME LoggerInv, WriteFirst
  PROVE  LoggerInv'
<1>1. /\ BufferSize \in Nat \ {0} /\ head \in Cells /\ tail \in Cells /\ head # tail
      /\ flushing.part = "first" /\ flushing.written = 0 /\ mutex # Nobody
      /\ Unread = IF head >= tail THEN head - tail ELSE (head - tail) + BufferSize
  BY LoggerAssumption, UnreadIs DEF LoggerInv, LoggerTypes, Flushing, WriteFirst
<1>2. UNCHANGED <<head, tail, data, mutex, logged>>
  BY DEF WriteFirst
<1>3. head \in Nat /\ tail \in Nat /\ head < BufferSize /\ tail < BufferSize
  BY <1>1 DEF Cells
<1>4. CASE head > tail
  <2>1. Fwrite(tail, head, "sync")
    BY <1>4 DEF WriteFirst
  <2>2. tail < head /\ head <= BufferSize /\ flushing.written + (head - tail) = Unread
        /\ tail + flushing.written = tail
    BY <1>1, <1>3, <1>4
  <2>3. flushing.written + (head - tail) <= Unread /\ Unread \in Int
    BY <1>1, <1>3, <1>4
  <2> QED
    BY <1>1, <1>2, <1>3, <2>1, <2>2, <2>3, StepFwrite
<1>5. CASE head < tail
  <2>1. Fwrite(tail, BufferSize, "second")
    BY <1>3, <1>5 DEF WriteFirst
  <2>2. /\ tail < BufferSize /\ flushing.written + (BufferSize - tail) = BufferSize - tail
        /\ tail + flushing.written = tail /\ flushing.written + (BufferSize - tail) <= Unread
    BY <1>1, <1>3, <1>5
  <2> QED
    BY <1>1, <1>2, <1>3, <1>5, <2>1, <2>2, StepFwrite
<1> QED
  BY <1>1, <1>3, <1>4, <1>5

LEMMA StepWriteSecond ==
  ASSUME LoggerInv, WriteSecond
  PROVE  LoggerInv'
<1>1. /\ BufferSize \in Nat \ {0} /\ head \in Cells /\ tail \in Cells /\ head < tail
      /\ flushing.part = "second" /\ mutex # Nobody /\ flushing.written \in Nat
      /\ flushing.written <= BufferSize - tail
      /\ short = 0 => flushing.written = BufferSize - tail
      /\ Unread = IF head >= tail THEN head - tail ELSE (head - tail) + BufferSize
  BY LoggerAssumption, UnreadIs DEF LoggerInv, LoggerTypes, Flushing, WriteSecond
<1>2. UNCHANGED <<head, tail, data, mutex, logged>> /\ Fwrite(0, head, "sync")
  BY DEF WriteSecond
<1>3. head \in Nat /\ tail \in Nat /\ head < BufferSize /\ tail < BufferSize
  BY <1>1 DEF Cells
<1>4. 0 <= head /\ head <= BufferSize /\ flushing.written + (head - 0) <= Unread
  <2>1. PICK w \in Nat : w = flushing.written /\ w <= BufferSize - tail
    BY <1>1
  <2>2. Unread = (head - tail) + BufferSize
    BY <1>1, <1>3
  <2>3. w + (head - 0) <= (head - tail) + BufferSize /\ 0 <= head /\ head <= BufferSize
    BY <1>1, <1>3, <2>1
  <2> QED
    BY <2>1, <2>2, <2>3, Zenon
<1>5. short = 0 => flushing.written + (head - 0) = Unread /\ tail + flushing.written = 0 + BufferSize
  BY <1>1, <1>3
<1>6. short = 0 /\ flushing.written = 0 => 0 < head
  BY <1>1, <1>3
<1> QED
  BY <1>1, <1>2, <1>3, <1>4, <1>5, <1>6, StepFwrite

LEMMA StepSync ==
  ASSUME LoggerInv, Sync
  PROVE  LoggerInv'
<1>1. /\ BufferSize \in Nat \ {0} /\ head \in Cells /\ tail \in Cells /\ logged \in Nat
      /\ flushing.part = "sync" /\ Unread <= logged /\ flushing.written <= Unread
      /\ flushing.written \in Nat /\ (short = 0 => flushing.written = Unread)
      /\ logFile \in Seq(Nat) /\ LoggerTypes
  BY LoggerAssumption DEF LoggerInv, LoggerTypes, Flushing, Sync
<1>2. /\ UNCHANGED <<head, data, mutex, logged, logFile, short>> /\ flushing' = NotFlushing
      /\ tail' = (tail + flushing.written) % BufferSize
  BY DEF Sync
<1>3. PICK u \in Cells, w \in Nat :
        /\ u = Unread /\ w = flushing.written /\ w <= u
        /\ u = IF head >= tail THEN head - tail ELSE (head - tail) + BufferSize
  <2>1. Unread \in Cells /\ Unread = IF head >= tail THEN head - tail ELSE (head - tail) + BufferSize
    BY <1>1, UnreadIs
  <2>2. PICK u \in Cells : u = Unread
    BY <2>1, Zenon
  <2>3. PICK w \in Nat : w = flushing.written
    BY <1>1, Zenon
  <2> QED
    BY <1>1, <2>1, <2>2, <2>3, Zenon
<1>4. /\ tail' \in Cells
      /\ tail' = IF tail + w < BufferSize THEN tail + w ELSE (tail + w) - BufferSize
  <2>1. w \in 0 .. BufferSize
    BY <1>1, <1>3 DEF Cells
  <2> QED
    BY <1>1, <1>2, <1>3, <2>1, MoveIs
<1>5. Unread' = u - w
  <2>1. PICK v \in Cells :
          /\ v = Unread'
          /\ v = IF head >= tail' THEN head - tail' ELSE (head - tail') + BufferSize
    <3>1. PICK t \in Cells : t = tail'
      BY <1>4, Zenon
    <3>2. Unread' = (head - t) % BufferSize
      BY <1>2, <3>1 DEF Unread
    <3> QED
      BY <1>1, <3>1, <3>2, GapIs
  <2>2. v = u - w
    <3>1. /\ head \in Nat /\ tail \in Nat /\ tail' \in Nat /\ u \in Nat /\ v \in Nat
          /\ BufferSize \in Nat /\ head < BufferSize /\ tail < BufferSize /\ tail' < BufferSize
          /\ u < BufferSize /\ v < BufferSize
      BY <1>1, <1>4 DEF Cells
    <3>2. PICK t \in Nat : t = tail'
      BY <3>1
    <3>3. v = IF head >= t THEN head - t ELSE (head - t) + BufferSize
      BY <2>1, <3>2, Zenon
    <3>4. t = IF tail + w < BufferSize THEN tail + w ELSE (tail + w) - BufferSize
      BY <1>4, <3>2, Zenon
    <3>5. u = IF head >= tail THEN head - tail ELSE (head - tail) + BufferSize
      BY <1>3
    <3> QED
      BY <1>3, <3>1, <3>2, <3>3, <3>4, <3>5
  <2> QED
    BY <2>1, <2>2
<1>6. \A i : Newest(i)' = Newest(i)
  BY <1>2 DEF Newest
<1>7. LoggerTypes' /\ RingIsNewest'
  BY <1>1, <1>2, <1>4, <1>6 DEF LoggerInv, LoggerTypes, RingIsNewest, NotFlushing
<1>8. Flushing'
  <2>1. 0 <= u - w /\ u - w <= logged
    BY <1>1, <1>3 DEF Cells
  <2> QED
    BY <1>2, <1>5, <2>1 DEF Flushing, NotFlushing
<1>9. FileEnds'
  <2>1. SUFFICES ASSUME short = 0 PROVE FileEnds'
    BY <1>2 DEF FileEnds
  <2>2. InOrder(logFile) /\ w = u
    BY <1>1, <1>3, <2>1 DEF LoggerInv, FileEnds
  <2>3. PICK l \in Nat : l = LastOf(logFile)
    BY <1>1, LastIsNat
  <2>4. l <= logged /\ (logged - l) % BufferSize = 0
    <3>1. CASE w = 0
      <4>1. l <= logged - u /\ ((logged - u) - l) % BufferSize = 0
        BY <1>3, <2>1, <2>3, <3>1 DEF LoggerInv, FileEnds
      <4>2. logged - u = logged
        BY <1>1, <2>2, <3>1
      <4> QED
        BY <4>1, <4>2, Zenon
    <3>2. CASE w # 0
      <4>1. l = (logged - u) + w
        BY <1>3, <2>1, <2>3, <3>2 DEF LoggerInv, FileEnds
      <4>2. l = logged /\ logged - l = 0 /\ 0 \in 0 .. BufferSize - 1
        BY <1>1, <1>3, <2>2, <4>1
      <4>3. (logged - l) % BufferSize = 0
        BY <1>1, <4>2, ModSmall, Zenon
      <4> QED
        BY <1>1, <4>2, <4>3
    <3> QED
      BY <3>1, <3>2
  <2>5. logged' - Unread' = logged
    BY <1>1, <1>2, <1>3, <1>5, <2>2
  <2>6. flushing'.written = 0 /\ InOrder(logFile)' /\ LastOf(logFile)' = l
    BY <1>2, <2>2, <2>3 DEF NotFlushing, InOrder, LastOf
  <2> QED
    BY <2>4, <2>5, <2>6 DEF FileEnds
<1> QED
  BY <1>7, <1>8, <1>9 DEF LoggerInv

LEMMA StepGive ==
  ASSUME LoggerInv, UNCHANGED <<head, tail, data, flushing, logged, logFile, short>>,
         flushing = NotFlushing \/ mutex' = mutex
  PROVE  LoggerInv'
BY DEF LoggerInv, LoggerTypes, RingIsNewest, Newest, Flushing, FileEnds, InOrder, LastOf,
       Unread, NotFlushing

LEMMA LoggerInvStep == LoggerInv /\ [LoggerNext]_loggerVars => LoggerInv'
<1> SUFFICES ASSUME LoggerInv, [LoggerNext]_loggerVars PROVE LoggerInv'
  OBVIOUS
<1>1. ASSUME NEW size \in LineSizes, Log(size) PROVE LoggerInv'
  <2>1. size \in 0 .. BufferSize
    BY LoggerAssumption
  <2> QED
    BY <1>1, <2>1, StepLog
<1>2. ASSUME NEW f \in Flushers, Take(f) PROVE LoggerInv'
  BY <1>2, StepTake
<1>3. CASE WriteFirst
  BY <1>3, StepWriteFirst
<1>4. CASE WriteSecond
  BY <1>4, StepWriteSecond
<1>5. CASE Sync
  BY <1>5, StepSync
<1>6. CASE Give
  BY <1>6, StepGive DEF Give
<1>7. CASE UNCHANGED loggerVars
  BY <1>7, StepGive DEF loggerVars
<1> QED
  BY <1>1, <1>2, <1>3, <1>4, <1>5, <1>6, <1>7 DEF LoggerNext

(* However lines, flushes and short writes interleave, the file is in order as long as no
   write came up short, and the unread part of the ring is the end of the log
   (sd_logger.c:31-73, 108-145). *)
THEOREM LogAlwaysInOrder == LoggerSpec => []LogInOrder
<1>1. LoggerInv => LogInOrder
  <2>1. LoggerInv => (short = 0 => FileInOrder)
    BY DEF LoggerInv, FileEnds, InOrder, FileInOrder
  <2>2. LoggerInv => UnreadIsNewest
    BY UnreadCell DEF UnreadIsNewest
  <2> QED
    BY <2>1, <2>2 DEF LogInOrder
<1> QED
  BY <1>1, LoggerInvInit, LoggerInvStep, PTL DEF LoggerSpec

-----------------------------------------------------------------------------
(* PressureReceiver: the windows, slots and timers of example/Pressure_test, for any
   commands on air and any interleaving of its tasks. *)

Cmds == OnAir \cup {Nothing}

(* What packets say of a command's time *)
Near(k, t) == k.at <= t /\ t <= k.at + k.skew
Packets    == {p \in [command : OnAir, target : Nat] : Near(p.command, p.target)}

TimerPoints == {"idle", "dispatch", "trigger", "dark", "stop"}
SyncPoints  == {"receive", "check", "next", "write", "stop", "start", "flash", "led", "done",
                "cache", "dead"}

Slots == [ctx : Cmds, due : Int, done : BOOLEAN]

PressureTypes ==
  /\ now \in Nat /\ spc \in SyncPoints /\ wait \in Int /\ led_timer \in Nat \cup {Never}
  /\ adv_queue \in Seq(Packets) /\ following \in Packets \cup {NoPkt}
  /\ window \in [collecting : BOOLEAN, command : Cmds, sum : Nat, count : Nat, start : Nat]
  /\ window.collecting => window.command \in OnAir /\ window.count > 0
  /\ slots \in [SlotIds -> Slots]
  /\ timer \in [pc : TimerPoints, slot : SlotIds, cmd : Cmds, wait : Nat]
  /\ checked \in Nat /\ late \in Int /\ fired \in [OnAir -> Nat]

LEMMA CmdTypes ==
  \A k \in Cmds : k.id \in SlotIds /\ k.at \in Nat /\ k.prep \in Nat /\ k.skew \in 0 .. Margin
<1>1. \A k \in OnAir : k.id \in SlotIds /\ k.at \in Nat /\ k.prep \in Nat /\ k.skew \in 0 .. Margin
  BY PressureAssumption, Zenon DEF SlotIds
<1>2. Nothing.id \in SlotIds /\ Nothing.at \in Nat /\ Nothing.prep \in Nat /\ Nothing.skew \in 0 .. Margin
  BY PressureAssumption DEF Nothing, SlotIds
<1> QED
  BY <1>1, <1>2 DEF Cmds

LEMMA TypesInit == PressureInit => PressureTypes
BY PressureAssumption
   DEF PressureInit, PressureTypes, SyncPoints, TimerPoints, SlotIds, Cmds, Never, Packets,
       Slots

(* The time of a window is the mean of what its packets say. *)
LEMMA LeftInt ==
  ASSUME PressureTypes, window.collecting
  PROVE  Left \in Int
<1>1. window.sum \in Nat /\ window.count \in Nat \ {0} /\ now \in Nat
  BY DEF PressureTypes
<1>2. window.sum \div window.count \in Nat
  BY <1>1, IntDivMod
<1> QED
  BY <1>1, <1>2 DEF Left

LEMMA TypesClose ==
  ASSUME PressureTypes, window.collecting, Close
  PROVE  wait' \in Int /\ spc' \in SyncPoints
BY LeftInt DEF Close, SyncPoints

LEMMA TypesCollect ==
  ASSUME PressureTypes, NEW packet \in Packets, Collect(packet)
  PROVE  /\ window' \in [collecting : BOOLEAN, command : Cmds, sum : Nat, count : Nat, start : Nat]
         /\ window'.command \in OnAir /\ window'.count > 0
BY DEF PressureTypes, Collect, Packets, Cmds

LEMMA TypesSyncReceive ==
  ASSUME PressureTypes, SyncReceive
  PROVE  /\ spc' \in SyncPoints /\ wait' \in Int /\ adv_queue' \in Seq(Packets)
         /\ following' \in Packets \cup {NoPkt}
         /\ window' \in [collecting : BOOLEAN, command : Cmds, sum : Nat, count : Nat, start : Nat]
         /\ window'.collecting => window'.command \in OnAir /\ window'.count > 0
<1> DEFINE packet == Head(adv_queue)
<1>1. adv_queue' \in Seq(Packets) /\ packet \in Packets
  BY DEF SyncReceive, PressureTypes
<1> HIDE DEF packet
<1>2. \/ /\ ~window.collecting /\ Collect(packet) /\ spc' = "check"
         /\ UNCHANGED <<following, wait>>
      \/ /\ window.collecting /\ packet.command.id = window.command.id /\ spc' = "check"
         /\ window' = IF WindowOpen
                      THEN [window EXCEPT !.sum = @ + packet.target, !.count = @ + 1]
                      ELSE window
         /\ UNCHANGED <<following, wait>>
      \/ /\ window.collecting /\ packet.command.id # window.command.id
         /\ following' = packet /\ Close /\ UNCHANGED window
  BY Zenon DEF SyncReceive, packet
<1>3. CASE ~window.collecting /\ Collect(packet) /\ spc' = "check" /\ UNCHANGED <<following, wait>>
  BY <1>1, <1>3, TypesCollect DEF PressureTypes, SyncPoints
<1>4. CASE /\ window.collecting /\ spc' = "check"
           /\ window' = IF WindowOpen
                        THEN [window EXCEPT !.sum = @ + packet.target, !.count = @ + 1]
                        ELSE window
           /\ UNCHANGED <<following, wait>>
  <2>1. packet.target \in Nat
    BY <1>1 DEF Packets
  <2>2. CASE WindowOpen
    <3>1. window' = [window EXCEPT !.sum = @ + packet.target, !.count = @ + 1]
      BY <1>4, <2>2
    <3>2. PICK sum \in Nat, count \in Nat :
            sum = window.sum + packet.target /\ count = window.count + 1 /\ count > 0
      BY <2>1 DEF PressureTypes
    <3>3. window' = [window EXCEPT !.sum = sum, !.count = count]
      BY <3>1, <3>2
    <3>4. /\ window \in [collecting : BOOLEAN, command : Cmds, sum : Nat, count : Nat, start : Nat]
          /\ window.command \in OnAir
      BY <1>4 DEF PressureTypes
    <3>5. /\ window' \in [collecting : BOOLEAN, command : Cmds, sum : Nat, count : Nat, start : Nat]
          /\ window'.command \in OnAir /\ window'.count > 0
      BY <3>2, <3>3, <3>4
    <3> QED
      BY <1>1, <1>4, <3>5 DEF PressureTypes, SyncPoints
  <2>3. CASE ~WindowOpen
    <3>1. window' = window
      BY <1>4, <2>3
    <3> QED
      BY <1>1, <1>4, <3>1 DEF PressureTypes, SyncPoints
  <2> QED
    BY <2>2, <2>3
<1>5. CASE window.collecting /\ following' = packet /\ Close /\ UNCHANGED window
  BY <1>1, <1>5, TypesClose DEF PressureTypes
<1> QED
  BY <1>2, <1>3, <1>4, <1>5, Zenon

LEMMA TypesSyncTask == PressureTypes /\ SyncTask => PressureTypes'
<1> SUFFICES ASSUME PressureTypes, SyncTask PROVE PressureTypes'
  OBVIOUS
<1>1. UNCHANGED <<now, timer, checked, fired, late>>
  BY DEF SyncTask, timerVars
<1>2. CASE SyncReceive /\ UNCHANGED <<slots, led_timer>>
  BY <1>1, <1>2, TypesSyncReceive DEF PressureTypes
<1>3. CASE SyncTimeout /\ UNCHANGED <<slots, led_timer>>
  <2>1. /\ UNCHANGED <<adv_queue, window, following>>
        /\ \/ window.collecting /\ Close
           \/ spc' = "receive" /\ UNCHANGED wait
    BY <1>3, Zenon DEF SyncTimeout
  <2>2. wait' \in Int /\ spc' \in SyncPoints
    BY <2>1, TypesClose DEF PressureTypes, SyncPoints
  <2> QED
    BY <1>1, <1>3, <2>1, <2>2 DEF PressureTypes
<1>4. CASE SyncNext /\ UNCHANGED <<slots, led_timer>>
  <2>1. CASE following # NoPkt /\ Collect(following) /\ spc' = "check"
    <3>1. following \in Packets
      BY <2>1 DEF PressureTypes
    <3> QED
      BY <1>1, <1>4, <2>1, <3>1, TypesCollect DEF PressureTypes, SyncPoints, SyncNext
  <2>2. CASE window' = [window EXCEPT !.collecting = FALSE] /\ spc' = "receive"
    BY <1>1, <1>4, <2>2 DEF PressureTypes, SyncPoints, SyncNext
  <2> QED
    BY <1>4, <2>1, <2>2 DEF SyncNext
<1>5. CASE SyncExit /\ UNCHANGED <<slots, led_timer>>
  BY <1>1, <1>5 DEF PressureTypes, SyncPoints, SyncExit, Locking
<1>6. CASE SyncSlot /\ UNCHANGED led_timer
  <2>1. window.command \in Cmds /\ window.command.id \in SlotIds /\ now + wait \in Int /\ Never \in Int
    BY CmdTypes DEF PressureTypes, Never
  <2>2. PICK i \in SlotIds : i = window.command.id
    BY <2>1
  <2>3. /\ UNCHANGED <<adv_queue, window, following, wait>> /\ spc' \in SyncPoints
        /\ \/ slots' = [slots EXCEPT ![i].ctx = window.command]
           \/ slots' = [slots EXCEPT ![i].due = Never]
           \/ slots' = [slots EXCEPT ![i].due = now + wait]
    BY <1>6, <2>2 DEF SyncSlot, Locking, Slot, SyncPoints
  <2>4. slots' \in [SlotIds -> Slots]
    <3>1. slots \in [SlotIds -> Slots]
      BY DEF PressureTypes
    <3>2. CASE slots' = [slots EXCEPT ![i].ctx = window.command]
      BY <2>1, <3>1, <3>2 DEF Slots
    <3>3. CASE slots' = [slots EXCEPT ![i].due = Never]
      BY <2>1, <3>1, <3>3 DEF Slots
    <3>4. CASE slots' = [slots EXCEPT ![i].due = now + wait]
      BY <2>1, <3>1, <3>4 DEF Slots
    <3> QED
      BY <2>3, <3>2, <3>3, <3>4
  <2> QED
    BY <1>1, <1>6, <2>3, <2>4 DEF PressureTypes
<1>7. CASE SyncFlash /\ UNCHANGED <<slots, led_timer>>
  BY <1>1, <1>7 DEF PressureTypes, SyncPoints, SyncFlash, Locking
<1>8. CASE SyncLed /\ UNCHANGED slots
  <2>1. now + window.command.prep \in Nat
    BY CmdTypes DEF PressureTypes
  <2> QED
    BY <1>1, <1>8, <2>1 DEF PressureTypes, SyncPoints, SyncLed, Locking
<1>9. CASE SyncDone /\ UNCHANGED led_timer
  BY <1>1, <1>9 DEF PressureTypes, SyncPoints, SyncDone, Locking, Slot, Slots
<1>10. CASE SyncCache /\ UNCHANGED <<slots, led_timer>>
  <2>1. spc' = "next" /\ UNCHANGED <<adv_queue, window, following, wait>>
    BY <1>10 DEF SyncCache, Locking
  <2> QED
    BY <1>1, <1>10, <2>1 DEF PressureTypes, SyncPoints
<1> QED
  BY <1>2, <1>3, <1>4, <1>5, <1>6, <1>7, <1>8, <1>9, <1>10 DEF SyncTask

LEMMA TypesFired ==
  ASSUME PressureTypes, Fired
  PROVE  fired' \in [OnAir -> Nat] /\ late' \in Int
<1>1. PICK k \in Cmds : k = timer.cmd /\ k.at \in Nat
  BY CmdTypes DEF PressureTypes
<1>2. fired \in [OnAir -> Nat] /\ now \in Nat /\ late \in Int /\ LastTick \in Nat
  BY PressureAssumption DEF PressureTypes
<1>3. fired' = [fired EXCEPT ![k] = @ + 1]
  BY <1>1 DEF Fired
<1>4. late' = IF now < k.at THEN LastTick + now - k.at
              ELSE IF now - k.at > late THEN now - k.at ELSE late
  BY <1>1 DEF Fired
<1>5. fired' \in [OnAir -> Nat]
  <2>1. CASE k \in OnAir
    <3>1. fired[k] + 1 \in Nat
      BY <1>2, <2>1
    <3> QED
      BY <1>2, <1>3, <3>1
  <2>2. CASE k \notin OnAir
    <3>1. fired' = fired
      BY <1>2, <1>3, <2>2
    <3> QED
      BY <1>2, <3>1
  <2> QED
    BY <2>1, <2>2
<1>6. LastTick + now - k.at \in Int /\ now - k.at \in Int
  BY <1>1, <1>2
<1>7. late' \in Int
  BY <1>2, <1>4, <1>6
<1> QED
  BY <1>5, <1>7

LEMMA ClearedRecord ==
  ASSUME NEW x \in Slots, NEW n \in Int, NEW b \in BOOLEAN, NEW y,
         y = [x EXCEPT !.due = n, !.done = b]
  PROVE  y.ctx = x.ctx /\ y.due = n /\ y \in Slots
BY DEF Slots

Cleared(s, i) == [s EXCEPT ![i].due = Never, ![i].done = FALSE]

LEMMA ClearedTyped ==
  ASSUME NEW s \in [SlotIds -> Slots], NEW i
  PROVE  Cleared(s, i) \in [SlotIds -> Slots]
<1>1. CASE i \in SlotIds
  <2>1. PICK e : e = [s[i] EXCEPT !.due = Never, !.done = FALSE]
    OBVIOUS
  <2>2. e \in Slots
    <3>1. s[i] \in Slots /\ Never \in Int
      BY <1>1 DEF Never
    <3> QED
      BY <2>1, <3>1, ClearedRecord, ZenonT(30)
  <2>3. Cleared(s, i) = [s EXCEPT ![i] = e]
    BY <1>1, <2>1 DEF Cleared
  <2> QED
    BY <1>1, <2>2, <2>3
<1>2. CASE i \notin SlotIds
  <2>1. Cleared(s, i) = s
    BY <1>2 DEF Cleared
  <2> QED
    BY <2>1
<1> QED
  BY <1>1, <1>2

LEMMA ClearedSlot ==
  ASSUME NEW s \in [SlotIds -> Slots], NEW i,
         NEW r, r = [s EXCEPT ![i].due = Never, ![i].done = FALSE]
  PROVE  /\ r \in [SlotIds -> Slots]
         /\ \A j \in SlotIds : r[j].ctx = s[j].ctx /\ r[j].due \in {s[j].due, Never}
                               /\ (j = i => r[j].due = Never)
<1>1. \A j \in SlotIds : s[j] \in Slots
  OBVIOUS
<1>2. CASE i \in SlotIds
  <2>1. /\ r[i] = [s[i] EXCEPT !.due = Never, !.done = FALSE]
        /\ \A j \in SlotIds : j # i => r[j] = s[j]
    BY <1>2
  <2>2. r[i].ctx = s[i].ctx /\ r[i].due = Never /\ r[i] \in Slots
    <3>1. s[i] \in Slots /\ Never \in Int
      BY <1>2 DEF Never
    <3> QED
      BY <2>1, <3>1, ClearedRecord, ZenonT(30)
  <2>3. r = [j \in SlotIds |-> r[j]]
    OBVIOUS
  <2> QED
    BY <1>1, <2>1, <2>2, <2>3
<1>3. CASE i \notin SlotIds
  <2>1. r = s
    BY <1>3
  <2> QED
    BY <1>1, <1>3, <2>1
<1> QED
  BY <1>2, <1>3

LEMMA TypesTimerTask ==
  ASSUME PressureTypes, TimerTask
  PROVE  PressureTypes'
<1>1. UNCHANGED <<now, syncVars>>
  BY DEF TimerTask
<1>2. UNCHANGED <<now, spc, wait, adv_queue, following, window>>
  BY <1>1 DEF syncVars
<1>3. fired' \in [OnAir -> Nat] /\ late' \in Int /\ checked' \in Nat
  <2>1. CASE TimerDispatch
    BY <2>1, TypesFired DEF TimerDispatch, PressureTypes
  <2>2. CASE TimerExpire \/ TimerLed \/ TimerDark
    <3>1. UNCHANGED <<fired, late, checked>>
      BY <2>2, Zenon DEF TimerExpire, TimerLed, TimerDark, timerVars
    <3> QED
      BY <3>1 DEF PressureTypes
  <2>3. CASE TimerTrigger
    <3>1. UNCHANGED <<fired, late>> /\ checked' = checked + 1
      BY <2>3 DEF TimerTrigger
    <3> QED
      BY <3>1 DEF PressureTypes
  <2> QED
    BY <2>1, <2>2, <2>3 DEF TimerTask
<1>4. timer' \in [pc : TimerPoints, slot : SlotIds, cmd : Cmds, wait : Nat]
  <2>1. CASE TimerExpire
    BY <2>1 DEF TimerExpire, PressureTypes, TimerPoints, Slots
  <2>2. CASE TimerLed
    BY <2>2 DEF TimerLed, PressureTypes, timerVars
  <2>3. CASE TimerDispatch
    BY <2>3, PressureAssumption DEF TimerDispatch, TimerAt, PressureTypes, TimerPoints
  <2>4. CASE TimerDark
    BY <2>4 DEF TimerDark, TimerAt, PressureTypes, TimerPoints
  <2>5. CASE TimerTrigger
    BY <2>5 DEF TimerTrigger, TimerAt, PressureTypes, TimerPoints
  <2> QED
    BY <2>1, <2>2, <2>3, <2>4, <2>5 DEF TimerTask
<1>5. slots' \in [SlotIds -> Slots] /\ led_timer' \in Nat \cup {Never}
  <2>1. CASE TimerExpire
    <3>1. PICK i \in SlotIds : slots' = [slots EXCEPT ![i].due = Never, ![i].done = FALSE]
      BY <2>1 DEF TimerExpire
    <3> QED
      BY <2>1, <3>1, ClearedSlot DEF TimerExpire, PressureTypes
  <2>2. CASE TimerLed \/ TimerDark \/ TimerTrigger
    BY <2>2 DEF TimerLed, TimerDark, TimerTrigger, PressureTypes
  <2>3. CASE TimerDispatch
    <3>1. \/ UNCHANGED slots
          \/ slots' = [slots EXCEPT ![timer.cmd.data].due = Never, ![timer.cmd.data].done = FALSE]
      BY <2>3 DEF TimerDispatch
    <3>2. UNCHANGED led_timer
      BY <2>3 DEF TimerDispatch
    <3>3. PICK i : i = timer.cmd.data
      OBVIOUS
    <3> QED
      BY SMTT(30), <3>1, <3>2, <3>3, ClearedSlot DEF PressureTypes
  <2> QED
    BY <2>1, <2>2, <2>3 DEF TimerTask
<1> QED
  BY <1>2, <1>3, <1>4, <1>5 DEF PressureTypes

LEMMA TypesOther ==
  ASSUME PressureTypes,
         \/ SysTask \/ UpdateEnds \/ TakeDown \/ Unit \/ UNCHANGED pressureVars
         \/ \E t \in Ackers : AckTask(t)
         \/ \E k \in OnAir : HearPacket(k)
  PROVE  PressureTypes'
<1>1. CASE \/ SysTask \/ UpdateEnds \/ (\E t \in Ackers : AckTask(t))
           \/ UNCHANGED pressureVars
  <2>1. UNCHANGED <<now, spc, wait, adv_queue, following, window, slots, led_timer, timer, checked,
                    late, fired>>
    BY <1>1 DEF SysTask, UpdateEnds, AckTask, pressureVars, syncVars, timerVars
  <2> QED
    BY <2>1 DEF PressureTypes
<1>2. CASE TakeDown
  <2>1. UNCHANGED <<now, window, following, wait, timer, checked, fired, late>>
    BY <1>2 DEF TakeDown, timerVars
  <2>2. /\ slots' \in [SlotIds -> Slots]
        /\ led_timer' \in Nat \cup {Never} /\ spc' \in SyncPoints /\ adv_queue' \in Seq(Packets)
    <3>1. slots \in [SlotIds -> Slots] /\ led_timer \in Nat \cup {Never} /\ spc \in SyncPoints
          /\ adv_queue \in Seq(Packets)
      BY DEF PressureTypes
    <3>2. /\ UNCHANGED slots \/ slots' = [i \in SlotIds |-> [slots[i] EXCEPT !.due = Never]]
          /\ UNCHANGED led_timer \/ led_timer' = Never
          /\ UNCHANGED spc \/ spc' = "dead"
          /\ UNCHANGED adv_queue \/ adv_queue' = <<>>
      BY <1>2 DEF TakeDown
    <3>3. slots' \in [SlotIds -> Slots]
      BY SMTT(30), <3>1, <3>2 DEF Slots, Never
    <3>4. led_timer' \in Nat \cup {Never}
      BY <3>1, <3>2
    <3>5. spc' \in SyncPoints
      BY <3>1, <3>2 DEF SyncPoints
    <3>6. adv_queue' \in Seq(Packets)
      <4>1. <<>> \in Seq(Packets)
        OBVIOUS
      <4>2. adv_queue' = adv_queue \/ adv_queue' = <<>>
        BY <3>2
      <4> QED
        BY <3>1, <4>1, <4>2, Zenon
    <3> QED
      BY <3>3, <3>4, <3>5, <3>6
  <2> QED
    BY <2>1, <2>2 DEF PressureTypes
<1>3. CASE Unit
  <2>1. UNCHANGED <<spc, wait, adv_queue, following, window, slots, led_timer, checked, late, fired>>
    BY <1>3 DEF Unit, syncVars
  <2>2. now' \in Nat /\ timer' \in [pc : TimerPoints, slot : SlotIds, cmd : Cmds, wait : Nat]
    <3>1. timer.wait \in Nat /\ (timer.wait > 0 => timer.wait - 1 \in Nat)
      BY DEF PressureTypes
    <3>2. PICK w \in Nat : timer' = [timer EXCEPT !.wait = w]
      BY <1>3, <3>1 DEF Unit, Countdown
    <3>3. now' \in Nat
      BY <1>3 DEF Unit, PressureTypes
    <3> QED
      BY <3>2, <3>3 DEF PressureTypes
  <2> QED
    BY <2>1, <2>2 DEF PressureTypes
<1>4. ASSUME NEW k \in OnAir, HearPacket(k) PROVE PressureTypes'
  <2>1. UNCHANGED <<now, spc, wait, following, window, slots, led_timer, timer, checked, late, fired>>
    BY <1>4 DEF HearPacket, timerVars
  <2>2. PICK skew \in 0 .. k.skew :
          adv_queue' = IF Len(adv_queue) < QueueLen
                       THEN Append(adv_queue, [command |-> k, target |-> k.at + skew])
                       ELSE adv_queue
    BY <1>4 DEF HearPacket
  <2>3. k.at \in Nat /\ k.skew \in Nat
    BY CmdTypes, PressureAssumption DEF Cmds
  <2>4. PICK p \in Packets : p = [command |-> k, target |-> k.at + skew]
    <3>1. PICK target \in Nat : target = k.at + skew /\ k.at <= target /\ target <= k.at + k.skew
      BY <2>3
    <3>2. [command |-> k, target |-> target] \in Packets
      BY <3>1 DEF Packets, Near
    <3> QED
      BY <3>1, <3>2
  <2>5. adv_queue' \in Seq(Packets)
    BY <2>2, <2>4 DEF PressureTypes
  <2> QED
    BY <2>1, <2>5 DEF PressureTypes
<1> QED
  BY <1>1, <1>2, <1>3, <1>4

AckTime == AckWaits[1] + AckWaits[2] + AckWaits[3] + AckWaits[4]

(* For how long an ACK task has been at work, as its position tells *)
Begun(step) ==
  CASE step = 1 -> 0
    [] step = 2 -> AckWaits[1]
    [] step = 3 -> AckWaits[1] + AckWaits[2]
    [] step = 4 -> AckWaits[1] + AckWaits[2] + AckWaits[3]
    [] OTHER    -> AckWaits[1] + AckWaits[2] + AckWaits[3] + AckWaits[4]
AtWork(a) == Begun(a.step) - a.wait

Radios == [up : BOOLEAN, scanning : BOOLEAN, advertising : BOOLEAN]

AckTypes == acks \in [Ackers -> [step : 0 .. 5, wait : Nat]] /\ radio \in Radios

(* The timer task is held by a CHECK for what is left of its delay, less than which
   no ACK has been at work. *)
Apart ==
  /\ \A s, t \in Acking : s = t
  /\ \A t \in Acking : 0 <= AtWork(acks[t])
  /\ timer.pc = "trigger" => \A t \in Acking : CheckDelay <= AtWork(acks[t]) + timer.wait

(* The radio is where the one ACK that is at work has put it. *)
RadioFollows ==
  down = "up" =>
    /\ radio.up
    /\ radio.scanning <=> \A t \in Acking : acks[t].step = 1
    /\ radio.advertising <=> \E t \in Acking : acks[t].step = 5

AcksInv == AckTypes /\ Apart /\ RadioFollows

LEMMA AcksInvInit == PressureInit => AcksInv
BY PressureAssumption
   DEF PressureInit, AcksInv, AckTypes, Apart, RadioFollows, Acking, Resting, Radios

LEMMA BegunTypes ==
  /\ \A s \in 1 .. 5 : Begun(s) \in Nat /\ Begun(s) <= AckTime
  /\ \A s \in 1 .. 4 : Begun(s + 1) = Begun(s) + AckWaits[s] /\ AckWaits[s] \in Nat
BY PressureAssumption DEF Begun, AckTime

LEMMA AcksUntouched ==
  ASSUME PressureTypes, AcksInv, UNCHANGED acks,
         timer'.pc = "trigger" => timer'.wait = CheckDelay \/ timer' = timer,
         radio' \in Radios, down' = "up" => down = "up" /\ UNCHANGED radio
  PROVE  AcksInv'
<1>1. AckTypes'
  BY DEF AcksInv, AckTypes
<1>2. Acking' = Acking /\ \A t : AtWork(acks'[t]) = AtWork(acks[t])
  BY DEF Acking
<1>3. \A t \in Acking : AtWork(acks[t]) \in Int
  BY BegunTypes DEF AcksInv, AckTypes, Acking, AtWork
<1>4. CheckDelay \in Nat
  BY PressureAssumption
<1>5. Apart'
  <2>1. timer'.pc = "trigger" =>
          \A t \in Acking : CheckDelay <= AtWork(acks[t]) + timer'.wait
    BY <1>3, <1>4 DEF AcksInv, Apart
  <2> QED
    BY <1>2, <2>1 DEF AcksInv, Apart, Acking, AtWork
<1>6. RadioFollows'
  BY <1>2 DEF AcksInv, RadioFollows, Acking
<1> QED
  BY <1>1, <1>5, <1>6 DEF AcksInv

LEMMA AcksTimerTask ==
  ASSUME PressureTypes, AcksInv, AckTime < CheckDelay, TimerTask
  PROVE  AcksInv'
<1>1. UNCHANGED <<radio, down>> /\ radio \in Radios
  BY DEF TimerTask, AcksInv, AckTypes
<1>2. timer \in [pc : TimerPoints, slot : SlotIds, cmd : Cmds, wait : Nat] /\ CheckDelay \in Nat
  BY PressureAssumption DEF PressureTypes
<1>3. CASE TimerExpire
  <2>1. PICK i \in SlotIds : timer' = [timer EXCEPT !.pc = "dispatch", !.slot = i, !.cmd = slots[i].ctx]
    BY <1>3 DEF TimerExpire
  <2>2. timer'.pc = "dispatch" /\ UNCHANGED acks
    BY <1>2, <1>3, <2>1 DEF TimerExpire
  <2> QED
    BY <1>1, <2>2, AcksUntouched
<1>4. CASE TimerLed
  <2>1. UNCHANGED <<acks, timer>>
    BY <1>4 DEF TimerLed, timerVars
  <2> QED
    BY <1>1, <2>1, AcksUntouched
<1>5. CASE TimerDispatch
  <2>1. UNCHANGED acks
    BY <1>5 DEF TimerDispatch
  <2>2. \/ \E to \in {"idle", "dark"} : timer' = [timer EXCEPT !.pc = to]
        \/ timer' = [timer EXCEPT !.pc = "trigger", !.wait = CheckDelay]
    BY <1>5 DEF TimerDispatch, TimerAt
  <2>3. timer'.pc = "trigger" => timer'.wait = CheckDelay
    BY <1>2, <2>2
  <2> QED
    BY <1>1, <2>1, <2>3, AcksUntouched
<1>6. CASE TimerDark
  <2>1. UNCHANGED acks /\ \E to \in {"stop", "idle"} : timer' = [timer EXCEPT !.pc = to]
    BY <1>6 DEF TimerDark, TimerAt
  <2>2. timer'.pc # "trigger"
    BY <1>2, <2>1
  <2> QED
    BY <1>1, <2>1, <2>2, AcksUntouched
<1>7. CASE TimerTrigger
  <2>1. timer.pc = "trigger" /\ timer.wait = 0 /\ timer'.pc = "idle"
    BY <1>2, <1>7 DEF TimerTrigger, TimerAt
  <2>2. CASE UNCHANGED acks
    BY <1>1, <2>1, <2>2, AcksUntouched
  <2>3. ASSUME NEW t \in Ackers, acks[t] = Resting, acks' = [acks EXCEPT ![t].step = 1]
        PROVE  AcksInv'
    <3>1. Acking = {}
      <4>1. ASSUME NEW s \in Acking PROVE FALSE
        <5>1. CheckDelay <= AtWork(acks[s]) + 0
          BY <2>1, <4>1 DEF AcksInv, Apart
        <5>2. acks[s].step \in 1 .. 5 /\ acks[s].wait \in Nat
          BY <4>1 DEF AcksInv, AckTypes, Acking
        <5>3. PICK b \in Nat, w \in Nat : b = Begun(acks[s].step) /\ w = acks[s].wait /\ b <= AckTime
          BY <5>2, BegunTypes
        <5>4. AtWork(acks[s]) = b - w /\ AckTime \in Nat
          BY <5>3, PressureAssumption DEF AtWork, AckTime
        <5> QED
          BY <1>2, <5>1, <5>3, <5>4
      <4> QED
        BY <4>1
    <3>2. acks'[t] = [step |-> 1, wait |-> 0] /\ \A s \in Ackers : s # t => acks'[s] = acks[s]
      BY <2>3 DEF AcksInv, AckTypes, Resting
    <3>3. AckTypes'
      BY <1>1, <2>3, <3>2 DEF AcksInv, AckTypes
    <3>4. Acking' = {t}
      BY <3>1, <3>2 DEF Acking
    <3>5. AtWork(acks'[t]) = 0
      BY <3>2 DEF AtWork, Begun
    <3>6. Apart'
      BY <2>1, <3>4, <3>5 DEF Apart, AtWork
    <3>7. RadioFollows'
      BY <1>1, <3>1, <3>2, <3>4 DEF AcksInv, RadioFollows
    <3> QED
      BY <3>3, <3>6, <3>7 DEF AcksInv
  <2> QED
    BY <1>7, <2>2, <2>3 DEF TimerTrigger
<1> QED
  BY <1>3, <1>4, <1>5, <1>6, <1>7 DEF TimerTask

LEMMA AcksAckTask ==
  ASSUME PressureTypes, AcksInv, NEW t \in Ackers, AckTask(t)
  PROVE  AcksInv'
<1>1. PICK k \in 1 .. 5 : k = acks[t].step /\ acks[t].wait = 0
  BY DEF AcksInv, AckTypes, AckTask
<1>2. /\ UNCHANGED <<timer, down>>
      /\ acks' = [acks EXCEPT ![t] = IF k = 5 THEN Resting ELSE [step |-> k + 1, wait |-> AckWaits[k]]]
      /\ Radio(CASE k = 1 -> [radio EXCEPT !.scanning = FALSE]
                 [] k \in {2, 3} -> radio
                 [] k = 4 -> [radio EXCEPT !.advertising = TRUE]
                 [] k = 5 -> [radio EXCEPT !.advertising = FALSE, !.scanning = TRUE])
  BY <1>1 DEF AckTask, timerVars
<1>3. /\ acks'[t] = IF k = 5 THEN Resting ELSE [step |-> k + 1, wait |-> AckWaits[k]]
      /\ \A s \in Ackers : s # t => acks'[s] = acks[s]
  BY <1>2 DEF AcksInv, AckTypes
<1>4. k < 5 => AckWaits[k] \in Nat /\ Begun(k + 1) = Begun(k) + AckWaits[k] /\ Begun(k) \in Nat
  BY BegunTypes
<1>5. radio' \in Radios /\ (radio.up => /\ radio'.up
                                        /\ k = 1 => ~radio'.scanning /\ radio'.advertising = radio.advertising
                                        /\ k \in {2, 3} => radio' = radio
                                        /\ k = 4 => radio'.scanning = radio.scanning /\ radio'.advertising
                                        /\ k = 5 => radio'.scanning /\ ~radio'.advertising)
  <2>1. PICK no \in BOOLEAN, yes \in BOOLEAN : no = FALSE /\ yes = TRUE
    OBVIOUS
  <2>2. radio \in Radios
    BY DEF AcksInv, AckTypes
  <2>3. CASE ~radio.up
    BY <1>2, <2>2, <2>3 DEF Radio
  <2>4. CASE radio.up
    <3>1. PICK r1 : r1 = [radio EXCEPT !.scanning = FALSE]
      OBVIOUS
    <3>2. PICK r4 : r4 = [radio EXCEPT !.advertising = TRUE]
      OBVIOUS
    <3>3. PICK r5 : r5 = [radio EXCEPT !.advertising = FALSE, !.scanning = TRUE]
      OBVIOUS
    <3>4. radio' = CASE k = 1 -> r1 [] k \in {2, 3} -> radio [] k = 4 -> r4 [] k = 5 -> r5
      BY <1>2, <2>4, <3>1, <3>2, <3>3, Zenon DEF Radio
    <3>5. /\ k = 1 => radio' = r1
          /\ k \in {2, 3} => radio' = radio
          /\ k = 4 => radio' = r4
          /\ k = 5 => radio' = r5
      BY <3>4
    <3>6. r1 = [radio EXCEPT !.scanning = no] /\ r4 = [radio EXCEPT !.advertising = yes]
          /\ r5 = [radio EXCEPT !.advertising = no, !.scanning = yes]
      BY <2>1, <3>1, <3>2, <3>3, Zenon
    <3>7. /\ r1 \in Radios /\ r1.up = radio.up /\ r1.scanning = no /\ r1.advertising = radio.advertising
          /\ r4 \in Radios /\ r4.up = radio.up /\ r4.scanning = radio.scanning /\ r4.advertising = yes
          /\ r5 \in Radios /\ r5.up = radio.up /\ r5.scanning = yes /\ r5.advertising = no
      <4> HIDE <3>1, <3>2, <3>3
      <4> QED
        BY <2>2, <3>6 DEF Radios
    <3>8. CASE k = 1
      BY <2>1, <2>4, <3>5, <3>7, <3>8
    <3>9. CASE k \in {2, 3}
      BY <2>2, <2>4, <3>5, <3>9
    <3>10. CASE k = 4
      BY <2>1, <2>4, <3>5, <3>7, <3>10
    <3>11. CASE k = 5
      BY <2>1, <2>4, <3>5, <3>7, <3>11
    <3> QED
      BY <3>8, <3>9, <3>10, <3>11
  <2> QED
    BY <2>3, <2>4
<1>6. AckTypes'
  BY <1>2, <1>3, <1>4, <1>5 DEF AcksInv, AckTypes, Resting
<1>7. Acking = {t}
  BY <1>1 DEF AcksInv, Apart, Acking
<1>8. Acking' = IF k = 5 THEN {} ELSE {t}
  BY <1>3, <1>7 DEF Acking, Resting
<1>9. k < 5 => AtWork(acks'[t]) = AtWork(acks[t])
  <2>1. AtWork(acks[t]) = Begun(k) - 0
    BY <1>1 DEF AtWork
  <2>2. k < 5 => AtWork(acks'[t]) = Begun(k + 1) - AckWaits[k]
    BY <1>3 DEF AtWork
  <2> QED
    BY <1>4, <2>1, <2>2
<1>10. Apart'
  BY <1>2, <1>7, <1>8, <1>9 DEF AcksInv, Apart, AtWork
<1>11. RadioFollows'
  <2>1. SUFFICES ASSUME down = "up"
                 PROVE  /\ radio'.up
                        /\ radio'.scanning <=> \A s \in Acking' : acks'[s].step = 1
                        /\ radio'.advertising <=> \E s \in Acking' : acks'[s].step = 5
    BY <1>2 DEF RadioFollows
  <2>2. /\ radio.up /\ (radio.scanning <=> k = 1) /\ (radio.advertising <=> k = 5)
    BY <1>1, <1>7, <2>1 DEF AcksInv, RadioFollows
  <2> QED
    BY <1>3, <1>5, <1>8, <2>2
<1> QED
  BY <1>6, <1>10, <1>11 DEF AcksInv

LEMMA AcksUnit ==
  ASSUME PressureTypes, AcksInv, Unit
  PROVE  AcksInv'
<1>1. /\ acks' = [t \in Ackers |-> Countdown(acks[t])] /\ timer' = Countdown(timer)
      /\ UNCHANGED <<radio, down>>
      /\ timer.wait > 0 \/ timer.pc = "idle"
      /\ \A t \in Ackers : acks[t].step = 0 \/ acks[t].wait > 0
  BY DEF Unit, TasksIdle
<1>2. timer'.pc = timer.pc /\ (timer.wait > 0 => timer'.wait = timer.wait - 1) /\ timer.wait \in Nat
  BY <1>1 DEF PressureTypes, Countdown
<1>3. ASSUME NEW t \in Ackers
      PROVE  /\ acks'[t] \in [step : 0 .. 5, wait : Nat] /\ acks'[t].step = acks[t].step
             /\ acks[t].step > 0 => acks'[t].wait = acks[t].wait - 1
  BY <1>1 DEF AcksInv, AckTypes, Countdown
<1>4. AckTypes'
  BY <1>1, <1>3 DEF AcksInv, AckTypes
<1>5. Acking' = Acking
  BY <1>3 DEF Acking
<1>6. ASSUME NEW t \in Acking
      PROVE  AtWork(acks'[t]) = AtWork(acks[t]) + 1 /\ AtWork(acks[t]) \in Int
  <2>1. /\ acks'[t].step = acks[t].step /\ acks'[t].wait = acks[t].wait - 1
        /\ acks[t].step \in 1 .. 5 /\ acks[t].wait \in Nat
    BY <1>3 DEF Acking, AcksInv, AckTypes
  <2>2. PICK b \in Nat : b = Begun(acks[t].step)
    BY <2>1, BegunTypes
  <2> QED
    BY <2>1, <2>2 DEF AtWork
<1>7. Apart'
  <2>1. \A t \in Acking : 0 <= AtWork(acks'[t])
    BY <1>6 DEF AcksInv, Apart
  <2>2. ASSUME timer.pc = "trigger", NEW t \in Acking
        PROVE  CheckDelay <= AtWork(acks'[t]) + timer'.wait
    <3>1. CheckDelay <= AtWork(acks[t]) + timer.wait /\ timer'.wait = timer.wait - 1
      BY <1>1, <1>2, <2>2 DEF AcksInv, Apart
    <3>2. timer.wait \in Nat /\ CheckDelay \in Nat
      BY <1>2, PressureAssumption
    <3> QED
      BY <1>6, <3>1, <3>2
  <2> QED
    BY <1>2, <1>5, <2>1, <2>2 DEF AcksInv, Apart, AtWork
<1>8. RadioFollows'
  BY <1>1, <1>3, <1>5 DEF AcksInv, RadioFollows, Acking
<1> QED
  BY <1>4, <1>7, <1>8 DEF AcksInv

LEMMA AcksInvStep ==
  PressureTypes /\ AcksInv /\ AckTime < CheckDelay /\ [PressureNext]_pressureVars => AcksInv'
<1> SUFFICES ASSUME PressureTypes, AcksInv, AckTime < CheckDelay, [PressureNext]_pressureVars
             PROVE  AcksInv'
  OBVIOUS
<1>1. radio \in Radios
  BY DEF AcksInv, AckTypes
<1>2. CASE SyncTask \/ (\E k \in OnAir : HearPacket(k)) \/ UNCHANGED pressureVars
  <2>1. UNCHANGED <<acks, radio, timer, down>>
    BY <1>2 DEF SyncTask, HearPacket, pressureVars, timerVars
  <2> QED
    BY <1>1, <2>1, AcksUntouched
<1>3. CASE SysTask \/ UpdateEnds
  <2>1. UNCHANGED <<acks, radio, timer>> /\ (down' = "up" => down = "up")
    BY <1>3 DEF SysTask, UpdateEnds, Downward, timerVars
  <2> QED
    BY <1>1, <2>1, AcksUntouched
<1>4. CASE TakeDown
  <2>1. UNCHANGED <<acks, timer>> /\ down' # "up"
    BY <1>4 DEF TakeDown, Downward, timerVars
  <2>2. radio' \in Radios
    <3>1. PICK no \in BOOLEAN : no = FALSE
      OBVIOUS
    <3>2. \/ radio' = radio \/ radio' = [radio EXCEPT !.scanning = no]
          \/ radio' = [up |-> no, scanning |-> no, advertising |-> no]
      BY <1>4, <3>1, Zenon DEF TakeDown, Radio
    <3> QED
      BY <1>1, <3>2 DEF Radios
  <2> QED
    BY <2>1, <2>2, AcksUntouched
<1> QED
  BY <1>2, <1>3, <1>4, AcksTimerTask, AcksAckTask, AcksUnit DEF PressureNext

LEMMA TypesStep == PressureTypes /\ [PressureNext]_pressureVars => PressureTypes'
BY TypesSyncTask, TypesTimerTask, TypesOther DEF PressureNext

(* For any delays of which the CHECK's is longer than an ACK's, and any commands and
   packets, ACKs do not overlap and the receiver scans between them
   (bt_receiver.cpp:188-243, 399-414). *)
THEOREM AcksAlwaysApart == PressureSpec => []AcksApart
<1>1. AcksInv => AcksApart
  BY DEF AcksInv, Apart, RadioFollows, AcksApart
<1>2. CASE AckTime < CheckDelay
  BY <1>1, <1>2, TypesInit, TypesStep, AcksInvInit, AcksInvStep, PTL DEF PressureSpec
<1>3. CASE ~(AckTime < CheckDelay)
  <2>1. AcksApart
    BY <1>3 DEF AcksApart, AckTime
  <2> QED
    BY <2>1, PTL
<1> QED
  BY <1>2, <1>3

-----------------------------------------------------------------------------
(* Induction *)
Below == {pair \in Nat \X Nat : pair[1] < pair[2]}

LEMMA BelowWellFounded == IsWellFoundedOn(Below, Nat)
<1>1. Below = OpToRel(<, Nat)
  BY DEF Below, OpToRel
<1> QED
  BY <1>1, NatLessThanWellFounded

(* A set of numbers that is not empty has a least one. *)
LEMMA LeastOne ==
  ASSUME NEW T \in SUBSET Nat, T # {}
  PROVE  \E n \in T : \A m \in T : n <= m
<1>1. T \subseteq Nat /\ T # {}
  OBVIOUS
<1>2. \A R, S : IsWellFoundedOn(R, S) =>
        \A U : U \subseteq S /\ U # {} => \E x \in U : \A y \in U : ~(<<y, x>> \in R)
  BY WFMin, Zenon
<1>3. PICK n \in T : \A m \in T : ~(<<m, n>> \in Below)
  BY <1>1, <1>2, BelowWellFounded, Zenon
<1>4. ASSUME NEW m \in T PROVE n <= m
  <2>1. n \in Nat /\ m \in Nat
    OBVIOUS
  <2>2. m < n => <<m, n>> \in Below
    BY <2>1 DEF Below
  <2> QED
    BY <1>3, <2>1, <2>2
<1> QED
  BY <1>4

(* How long a CHECK, or several in a row, can have held the timer task since a slot
   was due. *)
CheckWait == CheckDelay * checked + (IF timer.pc = "trigger" THEN CheckDelay - timer.wait ELSE 0)

Locks == {"write", "stop", "start", "flash", "led", "done", "cache"}
Armed == {i \in SlotIds : slots[i].due # Never}

(* A window holds the packets of one command, whose time it knows as well as they do, and
   arms a timer only while that is ahead. *)
WindowHolds ==
  /\ window.collecting =>
       /\ window.count * window.command.at <= window.sum
       /\ window.sum <= window.count * (window.command.at + window.command.skew)
  /\ spc \in Locks => window.collecting
  /\ spc \in {"write", "stop", "start"} => Margin < wait /\ Near(window.command, now + wait)
  /\ spc \in {"stop", "start"} => slots[window.command.id].ctx = window.command

(* An armed slot is for a command that was not dispatched, and is not overdue by more than
   the CHECKs took. *)
SlotsAhead ==
  \A i \in Armed :
    LET k == slots[i].ctx IN
    /\ k \in OnAir /\ k.id = i /\ Near(k, slots[i].due)
    /\ now - slots[i].due <= CheckWait
    /\ fired[k] = 0
    /\ timer.pc = "dispatch" => timer.cmd # k

TimerHolds ==
  /\ timer.pc # "trigger" => timer.wait = 0
  /\ timer.wait <= CheckDelay
  /\ timer.pc = "dispatch" => /\ timer.cmd \in OnAir /\ fired[timer.cmd] = 0
                              /\ timer.cmd.at <= now /\ now - timer.cmd.at <= Margin + CheckWait

FiredOnce ==
  /\ late <= Margin + CheckDelay * checked
  /\ \A k \in OnAir : fired[k] <= 1 /\ (fired[k] = 1 => k.at <= now)

LateInv == WindowHolds /\ SlotsAhead /\ TimerHolds /\ FiredOnce

DistinctIds == \A j, k \in OnAir : j.id = k.id => j = k

LEMMA HeldNat ==
  ASSUME PressureTypes, TimerHolds
  PROVE  CheckWait \in Nat /\ CheckDelay * checked \in Nat /\ CheckDelay * checked <= CheckWait
<1>1. CheckDelay \in Nat /\ checked \in Nat /\ timer.wait \in Nat /\ timer.wait <= CheckDelay
  BY PressureAssumption DEF PressureTypes, TimerHolds
<1>2. PICK p \in Nat : p = CheckDelay * checked
  BY <1>1
<1> QED
  BY <1>1, <1>2 DEF CheckWait

LEMMA LateInvInit == PressureInit => LateInv
<1> SUFFICES ASSUME PressureInit PROVE LateInv
  OBVIOUS
<1>1. PressureTypes
  BY TypesInit
<1>2. WindowHolds
  BY DEF PressureInit, WindowHolds, Locks
<1>3. Armed = {}
  BY DEF PressureInit, Armed
<1>4. SlotsAhead
  BY <1>3 DEF SlotsAhead
<1>5. TimerHolds
  BY PressureAssumption DEF PressureInit, TimerHolds
<1>6. FiredOnce
  <2>1. late = 0 /\ \A k \in OnAir : fired[k] = 0
    BY DEF PressureInit
  <2>2. PICK p \in Nat : p = CheckDelay * checked
    BY <1>1, <1>5, HeldNat
  <2> QED
    BY <2>1, <2>2, PressureAssumption DEF FiredOnce
<1> QED
  BY <1>2, <1>4, <1>5, <1>6 DEF LateInv

(* The mean of times is between the earliest and the latest of them. *)
LEMMA MeanBetween ==
  ASSUME NEW sum \in Nat, NEW count \in Nat \ {0}, NEW low \in Nat, NEW high \in Nat,
         count * low <= sum, sum <= count * high
  PROVE  sum \div count \in Nat /\ low <= sum \div count /\ sum \div count <= high
<1>1. PICK q \in Nat : /\ q = sum \div count
                       /\ q * count <= sum /\ sum < q * count + count
  BY IntDivMod
<1>2. ASSUME q < low PROVE FALSE
  <2>1. (q + 1) * count <= low * count
    BY <1>2
  <2>2. (q + 1) * count = q * count + count /\ low * count = count * low
    OBVIOUS
  <2>3. PICK a \in Nat, b \in Nat, c \in Nat : a = q * count /\ b = count * low /\ c = (q + 1) * count
    OBVIOUS
  <2> QED
    BY <1>1, <2>1, <2>2, <2>3
<1>3. ASSUME high < q PROVE FALSE
  <2>1. (high + 1) * count <= q * count
    BY <1>3
  <2>2. (high + 1) * count = high * count + count /\ high * count = count * high
    OBVIOUS
  <2>3. PICK a \in Nat, b \in Nat, c \in Nat : a = q * count /\ b = count * high /\ c = (high + 1) * count
    OBVIOUS
  <2> QED
    BY <1>1, <2>1, <2>2, <2>3
<1> QED
  BY <1>1, <1>2, <1>3

LEMMA LeftNear ==
  ASSUME PressureTypes, WindowHolds, window.collecting
  PROVE  Left \in Int /\ Near(window.command, now + Left)
<1>1. /\ window.sum \in Nat /\ window.count \in Nat \ {0} /\ now \in Nat
      /\ window.command \in Cmds
  BY DEF PressureTypes
<1>2. PICK at \in Nat, skew \in Nat : at = window.command.at /\ skew = window.command.skew
  BY <1>1, CmdTypes, PressureAssumption
<1>3. window.count * at <= window.sum /\ window.sum <= window.count * (at + skew)
  BY <1>2 DEF WindowHolds
<1>4. PICK mean \in Nat : mean = window.sum \div window.count /\ at <= mean /\ mean <= at + skew
  <2>1. PICK sum \in Nat, count \in Nat \ {0}, high \in Nat :
          sum = window.sum /\ count = window.count /\ high = at + skew
    BY <1>1
  <2>2. count * at <= sum /\ sum <= count * high
    BY <1>3, <2>1, Zenon
  <2>3. sum \div count \in Nat /\ at <= sum \div count /\ sum \div count <= high
    BY <2>2, MeanBetween
  <2> QED
    BY <2>1, <2>3, Zenon
<1> QED
  BY <1>1, <1>2, <1>4 DEF Left, Near

LEMMA LateSame ==
  ASSUME LateInv, UNCHANGED <<now, timer, fired, checked, late, slots, window>>,
         spc' = "dead" \/ UNCHANGED <<spc, wait>>
  PROVE  LateInv'
<1>1. WindowHolds'
  BY DEF LateInv, WindowHolds, Locks
<1>2. SlotsAhead' /\ TimerHolds' /\ FiredOnce'
  BY DEF LateInv, SlotsAhead, TimerHolds, FiredOnce, CheckWait, Armed
<1> QED
  BY <1>1, <1>2 DEF LateInv

(* The timers, while the receiver's own state is as it was *)
LEMMA HoldsOn ==
  ASSUME LateInv, UNCHANGED <<now, timer, fired, checked, late>>
  PROVE  TimerHolds' /\ FiredOnce' /\ CheckWait' = CheckWait
BY DEF LateInv, TimerHolds, FiredOnce, CheckWait

LEMMA CloseHolds ==
  ASSUME PressureTypes, LateInv, window.collecting, Close,
         UNCHANGED <<now, timer, fired, checked, late, slots, window>>
  PROVE  LateInv'
<1>1. Left \in Int /\ Near(window.command, now + Left)
  BY LeftNear DEF LateInv
<1>2. wait' = Left /\ spc' = IF Left > Margin THEN "write" ELSE "next"
  BY DEF Close
<1>3. Margin \in Nat
  BY PressureAssumption
<1>4. WindowHolds'
  BY <1>1, <1>2, <1>3 DEF LateInv, WindowHolds, Locks, Near
<1>5. SlotsAhead' /\ TimerHolds' /\ FiredOnce'
  BY HoldsOn DEF LateInv, SlotsAhead, Armed
<1> QED
  BY <1>4, <1>5 DEF LateInv

LEMMA CollectHolds ==
  ASSUME PressureTypes, LateInv, NEW packet \in Packets, Collect(packet), spc' = "check",
         UNCHANGED <<now, timer, fired, checked, late, slots>>
  PROVE  LateInv'
<1>1. /\ packet.command \in OnAir /\ packet.target \in Nat /\ Near(packet.command, packet.target)
      /\ packet.command.at \in Nat /\ packet.command.skew \in Nat
  BY CmdTypes, PressureAssumption DEF Packets, Cmds
<1>2. /\ window'.command = packet.command /\ window'.sum = packet.target /\ window'.count = 1
  BY DEF Collect
<1>3. 1 * packet.command.at <= packet.target
      /\ packet.target <= 1 * (packet.command.at + packet.command.skew)
  BY <1>1 DEF Near
<1>4. WindowHolds'
  BY <1>2, <1>3 DEF WindowHolds, Locks
<1>5. SlotsAhead' /\ TimerHolds' /\ FiredOnce'
  BY HoldsOn DEF LateInv, SlotsAhead, Armed
<1> QED
  BY <1>4, <1>5 DEF LateInv

LEMMA LateSyncReceive ==
  ASSUME PressureTypes, LateInv, DistinctIds, SyncReceive,
         UNCHANGED <<now, timer, fired, checked, late, slots>>
  PROVE  LateInv'
<1> DEFINE packet == Head(adv_queue)
<1>1. packet \in Packets /\ spc = "receive"
  BY DEF SyncReceive, PressureTypes
<1> HIDE DEF packet
<1>2. \/ ~window.collecting /\ Collect(packet) /\ spc' = "check"
      \/ /\ window.collecting /\ packet.command.id = window.command.id /\ spc' = "check"
         /\ window' = IF WindowOpen
                      THEN [window EXCEPT !.sum = @ + packet.target, !.count = @ + 1]
                      ELSE window
      \/ window.collecting /\ Close /\ UNCHANGED window
  BY Zenon DEF SyncReceive, packet
<1>3. CASE Collect(packet) /\ spc' = "check"
  BY <1>1, <1>3, CollectHolds
<1>4. CASE /\ window.collecting /\ packet.command.id = window.command.id /\ spc' = "check"
           /\ window' = IF WindowOpen
                        THEN [window EXCEPT !.sum = @ + packet.target, !.count = @ + 1]
                        ELSE window
  <2>1. /\ window \in [collecting : BOOLEAN, command : Cmds, sum : Nat, count : Nat, start : Nat]
        /\ window.command \in OnAir
    BY <1>4 DEF PressureTypes
  <2>2. packet.command = window.command /\ packet.target \in Nat
        /\ Near(window.command, packet.target)
    BY <1>1, <1>4, <2>1 DEF Packets, DistinctIds
  <2>3. CASE WindowOpen
    <3>1. window' = [window EXCEPT !.sum = @ + packet.target, !.count = @ + 1]
      BY <1>4, <2>3
    <3>2. PICK at \in Nat, high \in Nat, t \in Nat :
            /\ at = window.command.at /\ high = window.command.at + window.command.skew
            /\ t = packet.target /\ at <= t /\ t <= high
      BY <2>1, <2>2, CmdTypes, PressureAssumption DEF Near, Cmds
    <3>3. PICK sum \in Nat, count \in Nat : sum = window.sum /\ count = window.count
      BY <2>1
    <3>4. count * at <= sum /\ sum <= count * high
      BY <1>4, <3>2, <3>3 DEF LateInv, WindowHolds
    <3>5. (count + 1) * at <= sum + t /\ sum + t <= (count + 1) * high
      <4>1. (count + 1) * at = count * at + at /\ (count + 1) * high = count * high + high
        OBVIOUS
      <4>2. PICK a \in Nat, b \in Nat : a = count * at /\ b = count * high
        OBVIOUS
      <4> QED
        BY <3>2, <3>4, <4>1, <4>2
    <3>6. window' = [window EXCEPT !.sum = sum + t, !.count = count + 1]
      BY <3>1, <3>2, <3>3
    <3>7. /\ window'.command = window.command /\ window'.sum = sum + t
          /\ window'.count = count + 1
      BY <2>1, <3>6
    <3>8. WindowHolds'
      BY <1>4, <3>2, <3>5, <3>7 DEF WindowHolds, Locks
    <3>9. SlotsAhead' /\ TimerHolds' /\ FiredOnce'
      BY HoldsOn DEF LateInv, SlotsAhead, Armed
    <3> QED
      BY <3>8, <3>9 DEF LateInv
  <2>4. CASE ~WindowOpen
    <3>1. window' = window
      BY <1>4, <2>4
    <3>2. WindowHolds'
      BY <1>4, <3>1 DEF LateInv, WindowHolds, Locks
    <3>3. SlotsAhead' /\ TimerHolds' /\ FiredOnce'
      BY HoldsOn DEF LateInv, SlotsAhead, Armed
    <3> QED
      BY <3>2, <3>3 DEF LateInv
  <2> QED
    BY <2>3, <2>4
<1>5. CASE window.collecting /\ Close /\ UNCHANGED window
  BY <1>5, CloseHolds
<1> QED
  BY <1>2, <1>3, <1>4, <1>5, Zenon

(* What is written to a slot as its timer is armed anew *)
LEMMA LateSyncSlot ==
  ASSUME PressureTypes, LateInv, DistinctIds, SyncSlot,
         UNCHANGED <<now, timer, fired, checked, late>>
  PROVE  LateInv'
<1>1. /\ UNCHANGED <<window, wait>> /\ spc \in {"write", "stop", "start"} /\ spc' \in Locks
      /\ window.collecting /\ window.command \in OnAir
  BY DEF SyncSlot, Locking, Locks, LateInv, WindowHolds, PressureTypes
<1>2. PICK k \in OnAir, i \in SlotIds : k = window.command /\ i = k.id
  BY <1>1, CmdTypes DEF Cmds
<1>3. slots \in [SlotIds -> Slots]
  BY DEF PressureTypes
<1>4. \A j \in Armed : slots[j].ctx.id = j /\ slots[j].ctx \in OnAir
  BY DEF LateInv, SlotsAhead
<1>5. TimerHolds' /\ FiredOnce' /\ CheckWait' = CheckWait
  BY HoldsOn
<1>6. CASE spc = "write"
  <2>1. spc' = "stop" /\ slots' = [slots EXCEPT ![i].ctx = k]
    BY <1>2, <1>6 DEF SyncSlot, Locking, Slot
  <2>2. /\ slots'[i].ctx = k /\ slots'[i].due = slots[i].due
        /\ \A j \in SlotIds : j # i => slots'[j] = slots[j]
    BY <1>3, <2>1 DEF Slots
  <2>3. \A j \in SlotIds : slots'[j].due = slots[j].due
    BY <2>2
  <2>4. Armed' = Armed
    BY <2>3 DEF Armed
  <2>5. \A j \in Armed : slots'[j].ctx = slots[j].ctx
    BY <1>2, <1>4, <2>2 DEF DistinctIds, Armed
  <2>6. SlotsAhead'
    BY <1>5, <2>3, <2>4, <2>5 DEF LateInv, SlotsAhead, Armed
  <2>7. WindowHolds'
    BY <1>1, <1>2, <1>6, <2>1, <2>2 DEF LateInv, WindowHolds, Locks
  <2> QED
    BY <1>5, <2>6, <2>7 DEF LateInv
<1>7. CASE spc = "stop"
  <2>1. spc' = "start" /\ slots' = [slots EXCEPT ![i].due = Never]
    BY <1>2, <1>7 DEF SyncSlot, Locking, Slot
  <2>2. /\ slots'[i].ctx = slots[i].ctx /\ slots'[i].due = Never
        /\ \A j \in SlotIds : j # i => slots'[j] = slots[j]
    BY <1>3, <2>1 DEF Slots
  <2>3. \A j \in Armed' : j \in Armed /\ slots'[j] = slots[j]
    BY <2>2 DEF Armed
  <2>4. SlotsAhead'
    BY <1>5, <2>3 DEF LateInv, SlotsAhead
  <2>5. WindowHolds'
    BY <1>1, <1>2, <1>7, <2>1, <2>2 DEF LateInv, WindowHolds, Locks
  <2> QED
    BY <1>5, <2>4, <2>5 DEF LateInv
<1>8. CASE spc = "start"
  <2>1. spc' = "flash" /\ slots' = [slots EXCEPT ![i].due = now + wait]
    BY <1>2, <1>8 DEF SyncSlot, Locking, Slot
  <2>2. Margin < wait /\ Near(k, now + wait) /\ slots[i].ctx = k
    BY <1>2, <1>8 DEF LateInv, WindowHolds
  <2>3. /\ slots'[i].ctx = k /\ slots'[i].due = now + wait
        /\ \A j \in SlotIds : j # i => slots'[j] = slots[j]
    BY <1>3, <2>1, <2>2 DEF Slots
  <2>4. now \in Nat /\ wait \in Int /\ Margin \in Nat /\ k.at \in Nat /\ k.skew \in 0 .. Margin
    BY <1>2, CmdTypes, PressureAssumption DEF PressureTypes, Cmds
  <2>5. now < k.at
    BY <2>2, <2>4 DEF Near
  <2>6. fired[k] = 0
    <3>1. fired[k] \in Nat /\ fired[k] <= 1 /\ (fired[k] = 1 => k.at <= now)
      BY <1>2 DEF LateInv, FiredOnce, PressureTypes
    <3> QED
      BY <2>4, <2>5, <3>1
  <2>7. timer.pc = "dispatch" => timer.cmd # k
    BY <2>4, <2>5 DEF LateInv, TimerHolds
  <2>8. now - (now + wait) <= CheckWait
    BY <2>2, <2>4, HeldNat DEF LateInv
  <2>9. \A j \in Armed' : j # i => j \in Armed /\ slots'[j] = slots[j]
    BY <2>3 DEF Armed
  <2>10. ASSUME NEW j \in Armed'
         PROVE  LET c == slots'[j].ctx IN
                /\ c \in OnAir /\ c.id = j /\ Near(c, slots'[j].due)
                /\ now - slots'[j].due <= CheckWait
                /\ fired[c] = 0
                /\ timer.pc = "dispatch" => timer.cmd # c
    <3>1. CASE j = i
      BY <1>2, <2>2, <2>3, <2>6, <2>7, <2>8, <3>1
    <3>2. CASE j # i
      BY <2>9, <2>10, <3>2 DEF LateInv, SlotsAhead
    <3> QED
      BY <3>1, <3>2
  <2>11. SlotsAhead'
    BY <1>5, <2>10 DEF SlotsAhead, Near
  <2>12. WindowHolds'
    BY <1>1, <2>1 DEF LateInv, WindowHolds, Locks
  <2> QED
    BY <1>5, <2>11, <2>12 DEF LateInv
<1> QED
  BY <1>1, <1>6, <1>7, <1>8

LEMMA LateSyncTask ==
  ASSUME PressureTypes, LateInv, DistinctIds, SyncTask
  PROVE  LateInv'
<1>1. UNCHANGED <<now, timer, fired, checked, late>>
  BY DEF SyncTask, timerVars
<1>2. CASE SyncReceive /\ UNCHANGED slots
  BY <1>1, <1>2, LateSyncReceive
<1>3. CASE SyncTimeout /\ UNCHANGED slots
  <2>1. /\ UNCHANGED window
        /\ \/ window.collecting /\ Close
           \/ spc' = "receive" /\ UNCHANGED wait
    BY <1>3, Zenon DEF SyncTimeout
  <2>2. CASE window.collecting /\ Close
    BY <1>1, <1>3, <2>1, <2>2, CloseHolds
  <2>3. CASE spc' = "receive" /\ UNCHANGED wait
    <3>1. WindowHolds'
      BY <1>1, <1>3, <2>1, <2>3 DEF LateInv, WindowHolds, Locks
    <3> QED
      BY <1>1, <1>3, <3>1, HoldsOn DEF LateInv, SlotsAhead, Armed
  <2> QED
    BY <2>1, <2>2, <2>3
<1>4. CASE SyncNext /\ UNCHANGED slots
  <2>1. CASE following # NoPkt /\ Collect(following) /\ spc' = "check"
    <3>1. following \in Packets
      BY <2>1 DEF PressureTypes
    <3> QED
      BY <1>1, <1>4, <2>1, <3>1, CollectHolds
  <2>2. CASE window' = [window EXCEPT !.collecting = FALSE] /\ spc' = "receive"
    <3>1. ~window'.collecting
      BY <2>2 DEF PressureTypes
    <3>2. WindowHolds'
      BY <2>2, <3>1 DEF WindowHolds, Locks
    <3> QED
      BY <1>1, <1>4, <3>2, HoldsOn DEF LateInv, SlotsAhead, Armed
  <2> QED
    BY <1>4, <2>1, <2>2 DEF SyncNext
<1>5. CASE SyncExit /\ UNCHANGED slots
  BY <1>1, <1>5, LateSame DEF SyncExit, Locking
<1>6. CASE SyncSlot
  BY <1>1, <1>6, LateSyncSlot
<1>7. CASE (SyncFlash \/ SyncLed \/ SyncCache) /\ UNCHANGED slots
  <2>1. UNCHANGED <<window, wait>> /\ spc \in Locks /\ spc' \in {"led", "done", "cache", "next"}
    BY <1>7 DEF SyncFlash, SyncLed, SyncCache, Locking, Locks
  <2>2. WindowHolds'
    BY <2>1 DEF LateInv, WindowHolds, Locks
  <2> QED
    BY <1>1, <1>7, <2>2, HoldsOn DEF LateInv, SlotsAhead, Armed
<1>8. CASE SyncDone
  <2>1. UNCHANGED <<window, wait>> /\ spc \in Locks /\ spc' = "cache" /\ Slot("done", TRUE)
    <3>1. UNCHANGED <<window, wait>> /\ spc = "done" /\ spc' = "cache" /\ Slot("done", TRUE)
      BY <1>8, Zenon DEF SyncDone, Locking
    <3> QED
      BY <3>1, Zenon DEF Locks
  <2>2. WindowHolds'
    BY <2>1 DEF LateInv, WindowHolds, Locks
  <2>3. \A j \in SlotIds : slots'[j].ctx = slots[j].ctx /\ slots'[j].due = slots[j].due
    <3>1. PICK yes \in BOOLEAN : yes = TRUE
      OBVIOUS
    <3>2. PICK i : i = window.command.id
      OBVIOUS
    <3>3. slots' = [slots EXCEPT ![i].done = yes]
      BY <2>1, <3>1, <3>2, Zenon DEF Slot
    <3> QED
      BY <3>3 DEF PressureTypes, Slots
  <2>4. Armed' = Armed
    BY <2>3 DEF Armed
  <2>5. SlotsAhead'
    BY <1>1, <2>3, <2>4, HoldsOn DEF LateInv, SlotsAhead, Armed
  <2> QED
    BY <1>1, <2>2, <2>5, HoldsOn DEF LateInv
<1> QED
  BY <1>2, <1>3, <1>4, <1>5, <1>6, <1>7, <1>8 DEF SyncTask

(* Clearing slots leaves the others, and the window, as they are. *)
LEMMA ClearedHolds ==
  ASSUME PressureTypes, LateInv, slots' \in [SlotIds -> Slots],
         \A j \in SlotIds : slots'[j].ctx = slots[j].ctx /\ slots'[j].due \in {slots[j].due, Never},
         UNCHANGED <<now, window, spc, wait>>
  PROVE  /\ WindowHolds' /\ Armed' \subseteq Armed
         /\ \A j \in Armed' : slots'[j].ctx = slots[j].ctx /\ slots'[j].due = slots[j].due
<1>1. window.collecting => window.command.id \in SlotIds
  BY CmdTypes DEF PressureTypes
<1>2. WindowHolds'
  BY <1>1 DEF LateInv, WindowHolds, Locks
<1>3. Armed' \subseteq Armed
        /\ \A j \in Armed' : slots'[j].ctx = slots[j].ctx /\ slots'[j].due = slots[j].due
  BY DEF Armed
<1> QED
  BY <1>2, <1>3

LEMMA LateTimerExpire ==
  ASSUME PressureTypes, LateInv, TimerExpire, UNCHANGED <<now, window, spc, wait>>
  PROVE  LateInv'
<1>1. PICK i \in SlotIds :
        /\ timer.pc = "idle" /\ First(slots[i].due)
        /\ timer' = [timer EXCEPT !.pc = "dispatch", !.slot = i, !.cmd = slots[i].ctx]
        /\ slots' = [slots EXCEPT ![i].due = Never, ![i].done = FALSE]
  BY Zenon DEF TimerExpire
<1>2. UNCHANGED <<checked, fired, late>>
  BY Zenon DEF TimerExpire
<1>3. /\ slots' \in [SlotIds -> Slots] /\ slots'[i].due = Never
      /\ \A j \in SlotIds : slots'[j].ctx = slots[j].ctx /\ slots'[j].due \in {slots[j].due, Never}
  <2>1. slots \in [SlotIds -> Slots]
    BY DEF PressureTypes
  <2> QED
    <3>1. slots' = [slots EXCEPT ![i].due = Never, ![i].done = FALSE]
      BY <1>1
    <3>2. slots' \in [SlotIds -> Slots]
      <4>1. slots' = Cleared(slots, i)
        BY <3>1 DEF Cleared
      <4> QED
        BY <2>1, <4>1, ClearedTyped
    <3>3. \A j \in SlotIds : /\ slots'[j].ctx = slots[j].ctx
                             /\ slots'[j].due \in {slots[j].due, Never}
                             /\ j = i => slots'[j].due = Never
      BY <2>1, <3>1, ClearedSlot
    <3> QED
      BY <3>2, <3>3
<1>4. /\ WindowHolds' /\ Armed' \subseteq Armed /\ i \notin Armed'
      /\ \A j \in Armed' : slots'[j].ctx = slots[j].ctx /\ slots'[j].due = slots[j].due
  BY <1>3, ClearedHolds DEF Armed
<1>5. i \in Armed /\ slots[i].due <= now
  BY <1>1 DEF First, Armed
<1>6. PICK k \in OnAir : /\ k = slots[i].ctx /\ k.id = i /\ Near(k, slots[i].due)
                         /\ now - slots[i].due <= CheckWait /\ fired[k] = 0
  BY <1>5 DEF LateInv, SlotsAhead
<1>7. timer'.pc = "dispatch" /\ timer'.cmd = k /\ timer'.wait = timer.wait /\ timer.wait = 0
  BY <1>1, <1>6 DEF LateInv, TimerHolds, PressureTypes
<1>8. CheckWait' = CheckWait /\ CheckWait \in Nat
  BY <1>1, <1>2, <1>7, HeldNat DEF CheckWait, LateInv
<1>9. /\ k.at \in Nat /\ k.skew \in 0 .. Margin /\ now \in Nat /\ slots[i].due \in Int
      /\ Margin \in Nat /\ CheckDelay \in Nat
  BY CmdTypes, PressureAssumption DEF PressureTypes, Slots, Cmds
<1>10. k.at <= now /\ now - k.at <= Margin + CheckWait
  BY <1>5, <1>6, <1>8, <1>9 DEF Near
<1>11. TimerHolds'
  BY <1>2, <1>6, <1>7, <1>8, <1>9, <1>10 DEF TimerHolds
<1>12. SlotsAhead'
  <2>1. ASSUME NEW j \in Armed' PROVE slots[j].ctx # k
    <3>1. slots[j].ctx.id = j /\ j # i
      BY <1>4 DEF LateInv, SlotsAhead
    <3> QED
      BY <1>6, <3>1
  <2> QED
    BY <1>2, <1>4, <1>7, <1>8, <2>1 DEF LateInv, SlotsAhead
<1>13. FiredOnce'
  BY <1>2 DEF LateInv, FiredOnce
<1> QED
  BY <1>4, <1>11, <1>12, <1>13 DEF LateInv

LEMMA LateTimerDispatch ==
  ASSUME PressureTypes, LateInv, TimerDispatch, UNCHANGED <<now, window, spc, wait>>
  PROVE  LateInv'
<1>1. /\ timer.pc = "dispatch" /\ Fired /\ UNCHANGED checked
      /\ \/ \E to \in {"idle", "dark"} : timer' = [timer EXCEPT !.pc = to]
         \/ timer' = [timer EXCEPT !.pc = "trigger", !.wait = CheckDelay]
  BY DEF TimerDispatch, TimerAt
<1>2. PICK k \in OnAir : /\ k = timer.cmd /\ fired[k] = 0 /\ timer.wait = 0
                         /\ k.at <= now /\ now - k.at <= Margin + CheckWait
  BY <1>1 DEF LateInv, TimerHolds
<1>3. \/ timer'.pc \in {"idle", "dark"} /\ timer'.wait = 0
      \/ timer'.pc = "trigger" /\ timer'.wait = CheckDelay
  BY <1>1, <1>2 DEF PressureTypes
<1>4. CheckDelay \in Nat /\ Margin \in Nat /\ checked \in Nat /\ k.at \in Nat /\ now \in Nat /\ late \in Int
  BY CmdTypes, PressureAssumption DEF PressureTypes, Cmds
<1>5. CheckWait = CheckDelay * checked /\ CheckWait' = CheckDelay * checked /\ CheckDelay * checked \in Nat
  <2>1. PICK p \in Nat : p = CheckDelay * checked
    BY <1>4
  <2>2. CheckWait = p + 0 /\ CheckWait' = p + 0
    BY <1>1, <1>3, <1>4, <2>1 DEF CheckWait
  <2> QED
    BY <2>1, <2>2
<1>6. TimerHolds'
  BY <1>3, <1>4 DEF TimerHolds
<1>7. fired' = [fired EXCEPT ![k] = 1] /\ fired \in [OnAir -> Nat]
  BY <1>1, <1>2 DEF Fired, PressureTypes
<1>8. FiredOnce'
  <2>1. late' = IF now - k.at > late THEN now - k.at ELSE late
    BY <1>1, <1>2, <1>4 DEF Fired
  <2>2. late' <= Margin + CheckDelay * checked
    <3>1. PICK p \in Nat : p = CheckDelay * checked
      BY <1>5
    <3>2. now - k.at <= Margin + p /\ late <= Margin + p
      BY <1>2, <1>5, <3>1 DEF LateInv, FiredOnce
    <3> QED
      BY <2>1, <3>1, <3>2
  <2>3. \A c \in OnAir : fired'[c] <= 1 /\ (fired'[c] = 1 => c.at <= now)
    BY <1>2, <1>7 DEF LateInv, FiredOnce
  <2> QED
    BY <1>1, <2>2, <2>3 DEF FiredOnce
<1>9. \/ UNCHANGED slots
      \/ slots' = [slots EXCEPT ![timer.cmd.data].due = Never, ![timer.cmd.data].done = FALSE]
  BY DEF TimerDispatch
<1>10. /\ slots' \in [SlotIds -> Slots]
       /\ \A j \in SlotIds : slots'[j].ctx = slots[j].ctx /\ slots'[j].due \in {slots[j].due, Never}
  <2>1. slots \in [SlotIds -> Slots]
    BY DEF PressureTypes
  <2>2. PICK i : i = timer.cmd.data
    OBVIOUS
  <2> QED
    BY <1>9, <2>1, <2>2, ClearedSlot
<1>11. /\ WindowHolds' /\ Armed' \subseteq Armed
       /\ \A j \in Armed' : slots'[j].ctx = slots[j].ctx /\ slots'[j].due = slots[j].due
  BY <1>10, ClearedHolds
<1>12. SlotsAhead'
  <2>1. ASSUME NEW j \in Armed'
        PROVE  slots[j].ctx \in OnAir /\ fired'[slots[j].ctx] = 0
    <3>1. slots[j].ctx \in OnAir /\ fired[slots[j].ctx] = 0 /\ slots[j].ctx # k
      BY <1>1, <1>2, <1>11 DEF LateInv, SlotsAhead
    <3> QED
      BY <1>7, <3>1
  <2>2. timer'.pc # "dispatch"
    BY <1>3
  <2> QED
    BY <1>5, <1>11, <2>1, <2>2 DEF LateInv, SlotsAhead
<1> QED
  BY <1>6, <1>8, <1>11, <1>12 DEF LateInv

LEMMA LateTimerTask ==
  ASSUME PressureTypes, LateInv, TimerTask
  PROVE  LateInv'
<1>1. UNCHANGED <<now, window, spc, wait>>
  BY DEF TimerTask, syncVars
<1>2. CASE TimerExpire
  BY <1>1, <1>2, LateTimerExpire
<1>3. CASE TimerLed
  BY <1>1, <1>3, LateSame DEF TimerLed, timerVars
<1>4. CASE TimerDispatch
  BY <1>1, <1>4, LateTimerDispatch
<1>5. timer \in [pc : TimerPoints, slot : SlotIds, cmd : Cmds, wait : Nat]
  BY DEF PressureTypes
<1>6. ASSUME UNCHANGED slots PROVE WindowHolds' /\ Armed' = Armed
  BY <1>1, <1>6 DEF LateInv, WindowHolds, Locks, Armed
<1>7. CASE TimerDark
  <2>1. UNCHANGED <<slots, checked, fired, late>> /\ timer.wait = 0
        /\ \E to \in {"stop", "idle"} : timer' = [timer EXCEPT !.pc = to]
    BY <1>7 DEF TimerDark, TimerAt
  <2>2. timer'.pc \in {"stop", "idle"} /\ timer'.wait = 0 /\ timer.pc # "trigger"
    BY <1>5, <1>7, <2>1 DEF TimerDark, TimerAt
  <2>3. CheckWait' = CheckWait
    BY <2>1, <2>2 DEF CheckWait
  <2>4. TimerHolds'
    BY <2>2, PressureAssumption DEF TimerHolds
  <2>5. SlotsAhead' /\ FiredOnce'
    BY <1>1, <1>6, <2>1, <2>2, <2>3 DEF LateInv, SlotsAhead, FiredOnce
  <2> QED
    BY <1>6, <2>1, <2>4, <2>5 DEF LateInv
<1>8. CASE TimerTrigger
  <2>1. UNCHANGED <<slots, fired, late>> /\ checked' = checked + 1
        /\ timer.pc = "trigger" /\ timer.wait = 0 /\ timer' = [timer EXCEPT !.pc = "idle"]
    BY <1>8 DEF TimerTrigger, TimerAt
  <2>2. timer'.pc = "idle" /\ timer'.wait = 0
    BY <1>5, <2>1
  <2>3. CheckDelay \in Nat /\ checked \in Nat /\ Margin \in Nat /\ late \in Int
    BY PressureAssumption DEF PressureTypes
  <2>4. PICK p \in Nat : p = CheckDelay * checked
    BY <2>3
  <2>5. CheckDelay * (checked + 1) = p + CheckDelay
    <3>1. CheckDelay * (checked + 1) = CheckDelay * checked + CheckDelay
      BY <2>3
    <3> QED
      BY <2>4, <3>1, Zenon
  <2>6. CheckWait' = CheckWait
    <3>1. CheckWait' = CheckDelay * (checked + 1) + 0
      BY <2>1, <2>2 DEF CheckWait
    <3>2. CheckWait = CheckDelay * checked + (CheckDelay - 0)
      BY <2>1 DEF CheckWait
    <3> QED
      BY <2>3, <2>4, <2>5, <3>1, <3>2
  <2>7. TimerHolds'
    BY <2>2, <2>3 DEF TimerHolds
  <2>8. SlotsAhead'
    BY <1>1, <1>6, <2>1, <2>2, <2>6 DEF LateInv, SlotsAhead
  <2>9. FiredOnce'
    <3>1. late <= Margin + p
      BY <2>4 DEF LateInv, FiredOnce
    <3>2. late <= Margin + (p + CheckDelay)
      BY <2>3, <3>1
    <3>3. late' <= Margin + CheckDelay * checked'
      BY <2>1, <2>5, <3>2
    <3> QED
      BY <1>1, <2>1, <3>3 DEF LateInv, FiredOnce
  <2> QED
    BY <1>6, <2>1, <2>7, <2>8, <2>9 DEF LateInv
<1> QED
  BY <1>2, <1>3, <1>4, <1>7, <1>8 DEF TimerTask

(* When the timer task is at rest, nothing is due: of what was, something would be
   due first. *)
LEMMA NothingDue ==
  ASSUME PressureTypes, LateInv, \A d \in Dues : ~First(d), NEW i \in Armed
  PROVE  now < slots[i].due
<1>1. \A j \in SlotIds : slots[j].due \in Nat \cup {Never}
  <2>1. ASSUME NEW j \in Armed PROVE slots[j].due \in Nat
    <3>1. PICK k \in OnAir : k = slots[j].ctx /\ k.at <= slots[j].due
      BY DEF LateInv, SlotsAhead, Near
    <3>2. k.at \in Nat /\ slots[j].due \in Int
      BY PressureAssumption DEF PressureTypes, Slots, Armed
    <3> QED
      BY <3>1, <3>2
  <2> QED
    BY <2>1 DEF Armed
<1>2. Dues \subseteq Nat \cup {Never} /\ now \in Nat
  BY <1>1 DEF Dues, PressureTypes
<1>3. ASSUME slots[i].due <= now PROVE FALSE
  <2> DEFINE Pending == Dues \ {Never}
  <2>1. slots[i].due \in Pending
    BY DEF Armed, Dues
  <2>2. Pending \in SUBSET Nat
    BY <1>2
  <2>3. PICK d \in Pending : \A e \in Pending : d <= e
    <3> HIDE DEF Pending
    <3> QED
      BY <2>1, <2>2, LeastOne
  <2>4. d \in Dues /\ d # Never /\ d <= slots[i].due /\ d \in Nat /\ slots[i].due \in Nat
    BY <2>1, <2>2, <2>3
  <2>5. d <= now
    BY <1>2, <1>3, <2>4
  <2>6. First(d)
    BY <2>3, <2>4, <2>5 DEF First
  <2> QED
    BY <2>4, <2>6
<1>4. slots[i].due \in Nat
  BY <1>1, <1>2 DEF Armed
<1> QED
  BY <1>2, <1>3, <1>4

LEMMA LateUnit ==
  ASSUME PressureTypes, LateInv, Unit
  PROVE  LateInv'
<1>1. /\ UNCHANGED <<spc, window, wait, slots, checked, fired, late>>
      /\ now' = now + 1 /\ timer' = Countdown(timer)
      /\ spc \in {"dead", "receive"}
      /\ timer.wait > 0 \/ (timer.pc = "idle" /\ \A d \in Dues : ~First(d))
  BY DEF Unit, TasksIdle, syncVars
<1>2. now \in Nat /\ timer.wait \in Nat /\ CheckDelay \in Nat /\ checked \in Nat
      /\ timer \in [pc : TimerPoints, slot : SlotIds, cmd : Cmds, wait : Nat]
  BY PressureAssumption DEF PressureTypes
<1>3. WindowHolds'
  BY <1>1 DEF LateInv, WindowHolds, Locks
<1>4. \A i \in Armed : slots[i].due \in Int
  BY DEF PressureTypes, Slots, Armed
<1>5. PICK p \in Nat : p = CheckDelay * checked
  BY <1>2
<1>6. CASE timer.wait > 0
  <2>1. timer.pc = "trigger" /\ timer'.pc = "trigger" /\ timer'.wait = timer.wait - 1
        /\ timer.wait <= CheckDelay
    BY <1>1, <1>2, <1>6 DEF LateInv, TimerHolds, Countdown
  <2>2. CheckWait' = CheckWait + 1 /\ CheckWait \in Int
    <3>1. CheckWait = p + (CheckDelay - timer.wait) /\ CheckWait' = p + (CheckDelay - (timer.wait - 1))
      BY <1>1, <1>5, <2>1 DEF CheckWait
    <3> QED
      BY <1>2, <3>1
  <2>3. TimerHolds'
    BY <1>2, <2>1 DEF TimerHolds
  <2>4. \A i \in Armed : now' - slots[i].due <= CheckWait'
    BY <1>1, <1>2, <1>4, <2>2 DEF LateInv, SlotsAhead
  <2>5. SlotsAhead'
    BY <1>1, <2>1, <2>4 DEF LateInv, SlotsAhead, Armed
  <2> QED
    <3>1. FiredOnce'
      BY <1>1, <1>2, PressureAssumption DEF LateInv, FiredOnce
    <3> QED
      BY <1>3, <2>3, <2>5, <3>1 DEF LateInv
<1>7. CASE timer.wait = 0
  <2>1. timer.pc = "idle" /\ \A d \in Dues : ~First(d)
    BY <1>1, <1>7
  <2>2. timer'.pc = "idle" /\ timer'.wait = 0
    BY <1>1, <1>2, <1>7, <2>1 DEF Countdown
  <2>3. CheckWait' = p + 0
    BY <1>1, <1>5, <2>2 DEF CheckWait
  <2>4. TimerHolds'
    BY <1>2, <2>2 DEF TimerHolds
  <2>5. \A i \in Armed : now' - slots[i].due <= CheckWait'
    <3>1. \A i \in Armed : now < slots[i].due
      BY <2>1, NothingDue
    <3> QED
      BY <1>1, <1>2, <1>4, <2>3, <3>1
  <2>6. SlotsAhead'
    BY <1>1, <2>2, <2>5 DEF LateInv, SlotsAhead, Armed
  <2> QED
    <3>1. FiredOnce'
      BY <1>1, <1>2, PressureAssumption DEF LateInv, FiredOnce
    <3> QED
      BY <1>3, <2>4, <2>6, <3>1 DEF LateInv
<1> QED
  BY <1>2, <1>6, <1>7

LEMMA LateTakeDown ==
  ASSUME PressureTypes, LateInv, TakeDown
  PROVE  LateInv'
<1>1. UNCHANGED <<now, window, wait, timer, fired, checked, late>>
  BY DEF TakeDown, timerVars
<1>2. CASE UNCHANGED slots /\ spc' = "dead"
  BY <1>1, <1>2, LateSame
<1>3. CASE UNCHANGED spc /\ slots' = [i \in SlotIds |-> [slots[i] EXCEPT !.due = Never]]
  <2>1. \A i \in SlotIds : slots'[i].due = Never /\ slots'[i].ctx = slots[i].ctx
    BY <1>3 DEF PressureTypes, Slots
  <2>2. WindowHolds'
    <3>1. window.collecting => window.command.id \in SlotIds
      BY CmdTypes DEF PressureTypes
    <3> QED
      BY <1>1, <1>3, <2>1, <3>1 DEF LateInv, WindowHolds, Locks
  <2>3. Armed' = {}
    BY <2>1 DEF Armed
  <2>4. SlotsAhead'
    BY <2>3 DEF SlotsAhead
  <2> QED
    BY <1>1, <2>2, <2>4, HoldsOn DEF LateInv
<1>4. CASE UNCHANGED <<slots, spc>>
  BY <1>1, <1>4, LateSame
<1> QED
  BY <1>2, <1>3, <1>4 DEF TakeDown

LEMMA LateInvStep ==
  PressureTypes /\ LateInv /\ DistinctIds /\ [PressureNext]_pressureVars => LateInv'
<1> SUFFICES ASSUME PressureTypes, LateInv, DistinctIds, [PressureNext]_pressureVars
             PROVE  LateInv'
  OBVIOUS
<1>1. CASE \/ SysTask \/ UpdateEnds \/ (\E t \in Ackers : AckTask(t))
           \/ (\E k \in OnAir : HearPacket(k)) \/ UNCHANGED pressureVars
  <2>1. UNCHANGED <<now, timer, fired, checked, late, slots, window, spc, wait>>
    BY <1>1 DEF SysTask, UpdateEnds, AckTask, HearPacket, pressureVars, syncVars, timerVars
  <2> QED
    BY <2>1, LateSame
<1> QED
  BY <1>1, LateSyncTask, LateTimerTask, LateTakeDown, LateUnit DEF PressureNext

(* Provided the commands on air have ids of their own, none is dispatched twice, none early,
   and none later than a margin after its time and the CHECKs that held the timer task, for
   any windows, margins, delays and commands, and however packets are heard or lost
   (bt_receiver.cpp:351-431, 434-575). *)
THEOREM AlwaysLateByChecks ==
  ASSUME DistinctIds
  PROVE  PressureSpec => []LateByChecks
<1>1. LateInv => LateByChecks
  BY DEF LateInv, FiredOnce, LateByChecks
<1>2. PressureInit => PressureTypes /\ LateInv
  BY TypesInit, LateInvInit
<1>3. PressureTypes /\ LateInv /\ [PressureNext]_pressureVars => PressureTypes' /\ LateInv'
  BY TypesStep, LateInvStep
<1> QED
  BY <1>1, <1>2, <1>3, PTL DEF PressureSpec

-----------------------------------------------------------------------------
(* Partition: the light table, for any size of it and of its erase unit, any requests,
   and any number of sessions, failures and power cuts. *)

USE PartitionAssumption DEF PartitionAssumption

(* An open writer has filled its range up to its offset.  The rest is erased, or holds
   bytes of a write that failed and is to be repeated.  No table is in its range. *)
Filling ==
  writer.started =>
    /\ writer.begin <= writer.offset /\ writer.offset <= writer.end
    /\ \A a \in Addresses :
         /\ writer.begin <= a /\ a < writer.offset => flash[a] = Byte(session, a)
         /\ writer.offset <= a /\ a < writer.end => flash[a] \in {Erased, Byte(session, a)}
         /\ writer.begin <= a /\ a < writer.end => ~(table.offset <= a /\ a < table.end)

(* A session is not reused: what a reader began with was complete before the writer
   that is open now. *)
Sessions ==
  /\ table.session <= session /\ got.table.session <= session
  /\ writer.started => table.session < session /\ got.table.session < session

PartitionInv == PartitionTypeOK /\ Filling /\ Sessions /\ TableIntact /\ ReadsTable

(* LD_PARTITION_ALIGN_UP rounds up, as no size of a request overflows. *)
LEMMA AlignUpCovers ==
  ASSUME NEW total \in Nat, total <= PartitionSize
  PROVE  AlignUp(total) \in Nat /\ total <= AlignUp(total)
<1>1. PICK x \in Nat : x = total + EraseSize - 1
  OBVIOUS
<1>2. x % SizeWord = x
  BY <1>1
<1>3. x \div EraseSize \in Nat /\ x < (x \div EraseSize) * EraseSize + EraseSize
  BY IntDivMod
<1>4. PICK q \in Nat : q = (x \div EraseSize) * EraseSize
  BY <1>3
<1> QED
  BY <1>1, <1>2, <1>3, <1>4 DEF AlignUp

LEMMA FlashCells ==
  /\ Erased \in Nat \X Nat /\ Garbage \in Nat \X Nat
  /\ \A s, a \in Nat : Byte(s, a) \in Nat \X Nat
BY DEF Erased, Garbage, Byte

LEMMA ClosedFacts ==
  Closed \in Handles /\ ~Closed.started /\ NoTable \in Tables
  /\ NoTable.session = 0 /\ NoTable.end = 0
BY DEF Closed, Handles, NoTable, Tables, Bounds

LEMMA PartitionInvInit == PartitionInit => PartitionInv
<1> SUFFICES ASSUME PartitionInit PROVE PartitionInv
  OBVIOUS
<1> USE DEF PartitionInit
<1>1. PartitionTypeOK
  BY FlashCells, ClosedFacts DEF PartitionTypeOK
<1>2. Filling /\ Sessions /\ ReadsTable
  BY ClosedFacts DEF Filling, Sessions, ReadsTable
<1>3. TableIntact
  BY ClosedFacts DEF TableIntact, Addresses
<1> QED
  BY <1>1, <1>2, <1>3 DEF PartitionInv

LEMMA EraseKeeps ==
  ASSUME PartitionInv, NEW offset \in Bounds, NEW end \in Bounds, Erase(offset, end)
  PROVE  /\ flash' \in [Addresses -> Nat \X Nat] /\ table' \in {table, NoTable}
         /\ TableIntact'
         /\ \A a \in Addresses : offset <= a /\ a < end =>
              flash'[a] = Erased /\ ~(table'.offset <= a /\ a < table'.end)
<1> USE DEF Erase
<1>1. \A a \in Addresses : flash'[a] = IF offset <= a /\ a < end THEN Erased ELSE flash[a]
  OBVIOUS
<1>2. flash' \in [Addresses -> Nat \X Nat]
  BY FlashCells DEF PartitionInv, PartitionTypeOK
<1>3. CASE table' = NoTable
  BY <1>1, <1>2, <1>3, ClosedFacts DEF TableIntact, Addresses
<1>4. CASE table' = table /\ ~(offset < table.end /\ table.offset < end)
  <2>1. \A a \in Addresses : offset <= a /\ a < end => ~(table.offset <= a /\ a < table.end)
    BY SMTT(30), <1>4 DEF PartitionInv, PartitionTypeOK, Tables, Bounds, Addresses
  <2>2. TableIntact'
    BY <1>1, <1>4, <2>1 DEF PartitionInv, TableIntact
  <2> QED
    BY <1>1, <1>2, <1>4, <2>1, <2>2
<1> QED
  BY <1>3, <1>4

LEMMA ReadsAfterErase ==
  ASSUME ReadsTable, table' \in {table, NoTable}, UNCHANGED <<reader, got>>
  PROVE  ReadsTable'
BY ClosedFacts DEF ReadsTable, Addresses

LEMMA StepWriterBegin ==
  ASSUME PartitionInv, NEW offset \in Requests, NEW total \in Requests, WriterBegin(offset, total)
  PROVE  PartitionInv'
<1> DEFINE end == offset + AlignUp(total)
<1>1. /\ offset \in Nat /\ total \in Nat /\ session' = session + 1 /\ session' \in 0 .. MaxBegins
      /\ UNCHANGED <<reader, got>>
  BY DEF WriterBegin, PartitionInv, PartitionTypeOK
<1>2. CASE ~(InRange(offset, total) /\ offset % EraseSize = 0 /\ InRange(offset, AlignUp(total)))
  <2>1. writer' = Closed /\ UNCHANGED <<flash, table, flashFaults>>
    BY <1>2 DEF WriterBegin
  <2>2. PartitionTypeOK' /\ Filling' /\ TableIntact'
    BY <1>1, <2>1, ClosedFacts DEF PartitionInv, PartitionTypeOK, Filling, TableIntact
  <2>3. Sessions' /\ ReadsTable'
    BY <1>1, <2>1, ClosedFacts DEF PartitionInv, PartitionTypeOK, Sessions, ReadsTable, Tables
  <2> QED
    BY <2>2, <2>3 DEF PartitionInv
<1>3. CASE InRange(offset, total) /\ offset % EraseSize = 0 /\ InRange(offset, AlignUp(total))
  <2>1. /\ AlignUp(total) \in Nat /\ total <= AlignUp(total)
        /\ offset \in Bounds /\ end \in Bounds /\ offset + total \in Bounds
        /\ offset + total <= end
    BY <1>1, <1>3, AlignUpCovers DEF InRange, Bounds
  <2> HIDE DEF end
  <2>2. ASSUME NEW part \in offset .. end, Erase(offset, part), writer' = Closed, 
               flashFaults' \in 0 .. MaxFlashFaults
        PROVE  PartitionInv'
    <3>1. part \in Bounds
      BY <2>1, <2>2 DEF Bounds
    <3>2. /\ flash' \in [Addresses -> Nat \X Nat] /\ table' \in {table, NoTable}
          /\ TableIntact'
      BY <2>1, <2>2, <3>1, EraseKeeps
    <3>3. PartitionTypeOK' /\ Filling'
      BY <1>1, <2>2, <3>2, ClosedFacts DEF PartitionInv, PartitionTypeOK, Filling
    <3>4. Sessions'
      BY <1>1, <2>2, <3>2, ClosedFacts DEF PartitionInv, PartitionTypeOK, Sessions, Tables
    <3>5. ReadsTable'
      BY <1>1, <3>2, ReadsAfterErase DEF PartitionInv
    <3> QED
      BY <3>2, <3>3, <3>4, <3>5 DEF PartitionInv
  <2>3. ASSUME Erase(offset, end), writer' = Open(offset, offset + total),
               UNCHANGED flashFaults
        PROVE  PartitionInv'
    <3>1. /\ flash' \in [Addresses -> Nat \X Nat] /\ table' \in {table, NoTable}
          /\ TableIntact'
          /\ \A a \in Addresses : offset <= a /\ a < end =>
               flash'[a] = Erased /\ ~(table'.offset <= a /\ a < table'.end)
      BY <2>1, <2>3, EraseKeeps
    <3>2. /\ writer' \in Handles /\ writer'.begin = offset /\ writer'.offset = offset
          /\ writer'.end = offset + total
      BY <1>1, <2>1, <2>3 DEF Open, Handles, Bounds
    <3>3. PartitionTypeOK'
      BY <1>1, <2>3, <3>1, <3>2 DEF PartitionInv, PartitionTypeOK, NoTable, Tables, Bounds
    <3>4. Filling'
      BY <1>1, <2>1, <3>1, <3>2 DEF Filling, Addresses, Bounds
    <3>5. Sessions'
      BY <1>1, <3>1 DEF PartitionInv, PartitionTypeOK, Sessions, NoTable, Tables
    <3>6. ReadsTable'
      BY <1>1, <3>1, ReadsAfterErase DEF PartitionInv
    <3> QED
      BY <3>1, <3>3, <3>4, <3>5, <3>6 DEF PartitionInv
  <2> QED
    BY <1>1, <1>3, <2>2, <2>3 DEF WriterBegin, end, FlashFault, PartitionInv, PartitionTypeOK
<1> QED
  BY <1>2, <1>3

LEMMA StepWrite ==
  ASSUME PartitionInv, NEW size \in Requests, Write(size)
  PROVE  PartitionInv'
<1> USE DEF PartitionInv
<1>1. /\ writer.started /\ size \in Nat /\ session \in Nat
      /\ writer.begin \in Nat /\ writer.offset \in Nat /\ writer.end \in Bounds
      /\ writer.begin <= writer.offset /\ writer.offset + size <= writer.end
      /\ UNCHANGED <<reader, session, table, got>>
  BY DEF Write, PartitionTypeOK, Filling, Handles, Bounds
<1>2. ASSUME NEW part \in 0 .. size, Put(part)
      PROVE  /\ flash' \in [Addresses -> Nat \X Nat] /\ TableIntact'
             /\ \A a \in Addresses :
                  /\ writer.begin <= a /\ a < writer.offset + part
                       => flash'[a] = Byte(session, a)
                  /\ writer.offset + part <= a /\ a < writer.end
                       => flash'[a] \in {Erased, Byte(session, a)}
  <2>1. \A a \in Addresses : flash'[a] =
          IF writer.offset <= a /\ a < writer.offset + part
          THEN Program(flash[a], Byte(session, a)) ELSE flash[a]
    BY <1>2 DEF Put
  <2>2. \A a \in Addresses : writer.offset <= a /\ a < writer.offset + part
          => flash'[a] = Byte(session, a) /\ ~(table.offset <= a /\ a < table.end)
    BY <1>1, <1>2, <2>1 DEF Filling, Program, Addresses, Bounds
  <2>3. \A a \in Addresses : ~(writer.offset <= a /\ a < writer.offset + part)
          => flash'[a] = flash[a]
    BY <2>1
  <2>4. flash' \in [Addresses -> Nat \X Nat]
    <3>1. ASSUME NEW a \in Addresses PROVE flash'[a] \in Nat \X Nat
      <4>1. CASE writer.offset <= a /\ a < writer.offset + part
        <5>1. session \in Nat /\ a \in Nat
          BY <1>1 DEF Addresses
        <5>2. Byte(session, a) \in Nat \X Nat
          BY <5>1, FlashCells
        <5> QED
          BY <2>2, <4>1, <5>2
      <4>2. CASE ~(writer.offset <= a /\ a < writer.offset + part)
        BY <2>3, <4>2 DEF PartitionTypeOK
      <4> QED
        BY <4>1, <4>2
    <3> QED
      BY <1>2, <3>1 DEF Put
  <2>5. TableIntact'
    BY <1>1, <2>2, <2>3 DEF TableIntact
  <2>6. \A a \in Addresses :
          /\ writer.begin <= a /\ a < writer.offset + part => flash'[a] = Byte(session, a)
          /\ writer.offset + part <= a /\ a < writer.end
               => flash'[a] \in {Erased, Byte(session, a)}
    BY <1>1, <1>2, <2>2, <2>3 DEF Filling, Addresses, Bounds
  <2> QED
    BY <2>4, <2>5, <2>6
<1>3. CASE Put(size) /\ UNCHANGED flashFaults /\ writer' = [writer EXCEPT !.offset = @ + size]
  <2>1. /\ flash' \in [Addresses -> Nat \X Nat] /\ TableIntact'
        /\ \A a \in Addresses :
             /\ writer.begin <= a /\ a < writer.offset + size => flash'[a] = Byte(session, a)
             /\ writer.offset + size <= a /\ a < writer.end
                  => flash'[a] \in {Erased, Byte(session, a)}
    BY <1>1, <1>2, <1>3
  <2>2. /\ writer' \in Handles /\ writer'.begin = writer.begin /\ writer'.end = writer.end
        /\ writer'.offset = writer.offset + size
    BY <1>1, <1>3 DEF PartitionTypeOK, Handles, Bounds
  <2>3. Filling'
    BY <1>1, <2>1, <2>2 DEF Filling
  <2> QED
    BY <1>1, <1>3, <2>1, <2>2, <2>3 DEF PartitionTypeOK, Sessions, ReadsTable
<1>4. CASE FlashFault /\ UNCHANGED writer /\ \E part \in 0 .. size : Put(part)
  <2>1. PICK part \in 0 .. size : Put(part)
    BY <1>4
  <2>2. /\ flash' \in [Addresses -> Nat \X Nat] /\ TableIntact'
        /\ \A a \in Addresses :
             /\ writer.begin <= a /\ a < writer.offset + part => flash'[a] = Byte(session, a)
             /\ writer.offset + part <= a /\ a < writer.end
                  => flash'[a] \in {Erased, Byte(session, a)}
    BY <1>2, <2>1
  <2>3. Filling'
    <3>1. UNCHANGED <<writer, session, table>> /\ part \in Nat
      BY <1>1, <1>4
    <3>2. ASSUME NEW a \in Addresses
          PROVE  /\ writer.begin <= a /\ a < writer.offset => flash'[a] = Byte(session, a)
                 /\ writer.offset <= a /\ a < writer.end
                      => flash'[a] \in {Erased, Byte(session, a)}
      <4>1. /\ a < writer.offset => a < writer.offset + part
            /\ writer.offset <= a => writer.begin <= a
            /\ a < writer.offset + part \/ writer.offset + part <= a
        BY <1>1, <3>1 DEF Addresses
      <4> QED
        BY <2>2, <4>1, Zenon
    <3> QED
      BY <1>1, <3>1, <3>2 DEF Filling
  <2> QED
    BY <1>1, <1>4, <2>2, <2>3 DEF PartitionTypeOK, Sessions, ReadsTable, FlashFault
<1> QED
  BY <1>3, <1>4 DEF Write

LEMMA StepWriterEnd == PartitionInv /\ WriterEnd => PartitionInv'
<1> SUFFICES ASSUME PartitionInv, WriterEnd PROVE PartitionInv'
  OBVIOUS
<1> USE DEF PartitionInv, WriterEnd
<1>1. PartitionTypeOK'
  BY DEF PartitionTypeOK, Closed, Handles, Tables, Bounds
<1>2. Filling'
  BY DEF Filling, Closed
<1>3. Sessions' /\ got.table.session < session
  BY DEF PartitionTypeOK, Sessions, Closed, Tables
<1>4. TableIntact'
  BY DEF TableIntact, Filling
<1>5. ReadsTable'
  BY <1>3 DEF PartitionTypeOK, ReadsTable, Tables
<1> QED
  BY <1>1, <1>2, <1>3, <1>4, <1>5

LEMMA StepReaderBegin ==
  ASSUME PartitionInv, NEW offset \in Requests, NEW total \in Requests, ReaderBegin(offset, total)
  PROVE  PartitionInv'
<1> USE DEF PartitionInv, ReaderBegin
<1>1. offset \in Nat /\ total \in Nat
  OBVIOUS
<1>2. /\ reader' \in Handles
      /\ reader'.started => reader'.begin = reader'.offset
  BY <1>1 DEF InRange, Open, Closed, Handles, Bounds
<1>3. PartitionTypeOK'
  BY <1>2, FlashCells DEF PartitionTypeOK
<1>4. Filling' /\ Sessions' /\ TableIntact'
  BY DEF Filling, Sessions, TableIntact
<1>5. ReadsTable'
  BY <1>2 DEF ReadsTable, Handles, Bounds, Addresses
<1> QED
  BY <1>3, <1>4, <1>5

LEMMA StepRead ==
  ASSUME PartitionInv, NEW dstSize \in Requests, Read(dstSize)
  PROVE  PartitionInv'
<1> USE DEF PartitionInv
<1> DEFINE left == reader.end - reader.offset
           size == IF dstSize < left THEN dstSize ELSE left
           end  == reader.offset + size
<1>1. UNCHANGED <<flash, writer, session, table>>
  BY DEF Read
<1>2. Filling' /\ TableIntact'
  BY <1>1 DEF Filling, TableIntact
<1>3. CASE /\ reader' = [reader EXCEPT !.offset = end] /\ UNCHANGED flashFaults
           /\ got' = [got EXCEPT !.bytes = [a \in Addresses |->
                        IF reader.offset <= a /\ a < end THEN flash[a] ELSE @[a]]]
  <2>1. end \in Bounds
    BY DEF PartitionTypeOK, Handles, Bounds, Read
  <2> HIDE DEF end
  <2>2. /\ reader' \in Handles /\ reader'.begin = reader.begin /\ reader'.offset = end
        /\ reader'.started = reader.started
    BY <1>3, <2>1 DEF PartitionTypeOK, Handles, Bounds
  <2>3. /\ got'.table = got.table
        /\ \A a \in Addresses : got'.bytes[a] =
             IF reader.offset <= a /\ a < end THEN flash[a] ELSE got.bytes[a]
        /\ got' \in [table : Tables, bytes : [Addresses -> Nat \X Nat]]
    BY <1>3 DEF PartitionTypeOK
  <2>4. PartitionTypeOK' /\ Sessions'
    BY <1>1, <1>3, <2>2, <2>3 DEF PartitionTypeOK, Sessions
  <2>5. ReadsTable'
    <3>1. ASSUME reader.started, got.table = table, NEW a \in Addresses,
                 reader.begin <= a, a < end, table.offset <= a, a < table.end
          PROVE  got'.bytes[a] = Byte(table.session, a)
      <4>1. CASE reader.offset <= a
        BY <2>3, <3>1, <4>1 DEF TableIntact
      <4>2. CASE ~(reader.offset <= a)
        <5>1. a < reader.offset
          BY <4>2 DEF PartitionTypeOK, Handles, Bounds, Addresses
        <5> QED
          BY <2>3, <3>1, <4>2, <5>1 DEF ReadsTable
      <4> QED
        BY <4>1, <4>2
    <3> QED
      BY <1>1, <2>2, <2>3, <3>1 DEF ReadsTable
  <2> QED
    BY <1>2, <2>4, <2>5
<1>4. CASE size > 0 /\ FlashFault /\ UNCHANGED <<reader, got>>
  BY <1>1, <1>2, <1>4 DEF PartitionTypeOK, Sessions, ReadsTable, FlashFault
<1> QED
  BY <1>3, <1>4 DEF Read

LEMMA StepReaderEndOrCut == PartitionInv /\ (ReaderEnd \/ PowerCut \/ UNCHANGED partitionVars) => PartitionInv'
<1> SUFFICES ASSUME PartitionInv, ReaderEnd \/ PowerCut \/ UNCHANGED partitionVars PROVE PartitionInv'
  OBVIOUS
<1>1. /\ UNCHANGED <<flash, session, table, got>>
      /\ writer' = writer \/ writer' = Closed
      /\ reader' = reader \/ reader' = Closed
      /\ flashFaults' = flashFaults \/ FlashFault
  BY DEF ReaderEnd, PowerCut, partitionVars
<1>2. PartitionTypeOK'
  BY <1>1, ClosedFacts DEF PartitionInv, PartitionTypeOK, FlashFault
<1>3. Filling' /\ Sessions'
  BY <1>1, ClosedFacts DEF PartitionInv, Filling, Sessions
<1>4. TableIntact' /\ ReadsTable'
  BY <1>1, ClosedFacts DEF PartitionInv, TableIntact, ReadsTable
<1> QED
  BY <1>2, <1>3, <1>4 DEF PartitionInv

LEMMA PartitionInvStep == PartitionInv /\ [PartitionNext]_partitionVars => PartitionInv'
BY StepWriterBegin, StepWrite, StepWriterEnd, StepReaderBegin, StepRead, StepReaderEndOrCut
   DEF PartitionNext

(* What writer_end() has reported complete stays in flash and is what readers return,
   whatever fails or is cut off, for every size of the partition and of its erase
   units (ld_partition.c:42-163). *)
THEOREM TableAlwaysKept == PartitionSpec => []TableKept
<1>1. PartitionSpec => []PartitionInv
  BY PartitionInvInit, PartitionInvStep, PTL DEF PartitionSpec
<1>2. PartitionInv => TableKept
  BY DEF PartitionInv, TableKept
<1> QED
  BY <1>1, <1>2, PTL

=============================================================================
