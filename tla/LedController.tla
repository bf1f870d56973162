----------------------------- MODULE LedController -----------------------------
(***************************************************************************)
(* The LED controller (LedController/src/LedController.cpp) with its two    *)
(* drivers: WS2812B strips over RMT (ws2812b.c), PCA9955B chips over I2C    *)
(* (pca9955b.c).                                                            *)
(*                                                                          *)
(* The player acquires the controller, writes frames into the drivers'      *)
(* buffers and shows them, and releases it.  An operation is the sequence   *)
(* of driver calls it makes; each call may fail.  RMT sends a strip's       *)
(* buffer in place, in parts, while the player goes on.                     *)
(***************************************************************************)
EXTENDS Integers, Sequences

CONSTANTS
  NumWs, NumPca,      \* LD_BOARD_WS2812B_NUM, LD_BOARD_PCA9955B_NUM
  WsFirst, PcaFirst,  \* the first batches of show()
  Topologies,         \* the sets of strips that ch_info may give no pixels
  NumChannels,        \* RMT transmit channels of the chip
  QueueDepth,         \* LD_BOARD_RMT_TRANS_QUEUE_DEPTH
  Colours,            \* bound: frames shown, one colour each; 0 is black
  MaxFaults           \* bound: calls that fail, chips that lose power

ASSUME SizeAssumption ==
  /\ NumWs \in Nat /\ NumPca \in Nat /\ NumChannels \in Nat /\ QueueDepth \in Nat
  /\ WsFirst \in 0 .. NumWs /\ PcaFirst \in 0 .. NumPca
  /\ MaxFaults \in Nat
  /\ Topologies \subseteq SUBSET (1 .. NumWs) /\ Topologies # {}
ASSUME ColourAssumption == Colours \subseteq Nat /\ 0 \in Colours

Strips   == 1 .. NumWs
Chips    == 1 .. NumPca
Channels == 1 .. NumChannels
Null     == 0
Torn     == -1        \* a chip that holds parts of two frames
Devices  == ({"ws"} \X Strips) \cup ({"pca"} \X Chips)

VARIABLES
  unused,               \* ch_info, loaded at boot: the strips without pixels
  bus_handle,           \* is it set?
  ws2812b, pca9955b,    \* the device structures
  port, attached,       \* I2C driver: port in use, chips registered
  taken, tx,            \* RMT driver: channels in use, what each strip still has to send
  lit, chip,            \* the LEDs of each strip; each chip's registers
  phase, todo, ret,     \* the player: does it hold the controller, calls still to make, result
  wanted,               \* history: colour last written or filled, and by which operation
  hit, lost, cause,     \* history: devices a call failed for since then, devices not turned
                        \* off at release, why something may be held by nobody
  faults

handleVars  == <<bus_handle, ws2812b, pca9955b>>
driverVars  == <<port, attached, taken>>
lightVars   == <<tx, lit, chip>>
historyVars == <<wanted, hit, lost, cause>>
vars == <<unused, handleVars, driverVars, lightVars, phase, todo, ret, historyVars, faults>>

NoStrip   == [channel |-> Null, pixels |-> FALSE, buffer |-> 0]
NothingTx == [queued |-> 0, part |-> 1]

Init ==
  /\ unused \in Topologies
  /\ bus_handle = FALSE
  /\ ws2812b = [i \in Strips |-> NoStrip]
  /\ pca9955b = [j \in Chips |-> [dev |-> FALSE, buffer |-> 0, enable |-> FALSE]]
  /\ port = FALSE /\ attached = {} /\ taken = {}
  /\ tx = [i \in Strips |-> NothingTx]
  /\ lit = [i \in Strips |-> <<0, 0>>]
  /\ chip = [j \in Chips |-> [iref |-> FALSE, pwm |-> 0]]
  /\ phase = "released" /\ todo = <<>> /\ ret = "ok"
  /\ wanted = [colour |-> 0, op |-> "init"]
  /\ hit = {} /\ lost = {} /\ cause = {} /\ faults = 0

Alive(i) == ws2812b[i].channel # Null
Light(j) == IF chip[j].iref THEN chip[j].pwm ELSE 0    \* no current, no light

-----------------------------------------------------------------------------
(* The driver calls of an operation, in order *)

Calls(op, call, from, to) ==
  [k \in 1 .. to - from + 1 |-> [op |-> op, call |-> call, dev |-> from + k - 1]]

InitCalls ==
  Calls("init", "i2c_bus_init", 1, 1) \o Calls("init", "ws2812b_init", 1, NumWs)
    \o Calls("init", "pca9955b_init", 1, NumPca)

WriteFrameCalls == Calls("write", "pca9955b_set_pixel", 1, NumPca)
                     \o Calls("write", "ws2812b_write_grb", 1, NumWs)

FillCalls == Calls("fill", "ws2812b_fill", 1, NumWs) \o Calls("fill", "pca9955b_fill", 1, NumPca)

ShowCalls ==
  Calls("show", "ws2812b_show", 1, WsFirst) \o Calls("show", "ws2812b_wait_done", 1, WsFirst)
    \o Calls("show", "pca9955b_show", 1, PcaFirst)
    \o Calls("show", "ws2812b_show", WsFirst + 1, NumWs)
    \o Calls("show", "ws2812b_wait_done", WsFirst + 1, NumWs)
    \o Calls("show", "pca9955b_show", PcaFirst + 1, NumPca)

DeinitCalls ==
  Calls("deinit", "ws2812b_del", 1, NumWs) \o Calls("deinit", "pca9955b_del", 1, NumPca)
    \o Calls("deinit", "i2c_del_master_bus", 1, 1)

Now(call) == todo # <<>> /\ Head(todo).call = call
Dev == Head(todo).dev

Returns ==        \* ESP_OK, or what the caller does not look at
  todo' = Tail(todo) /\ UNCHANGED ret

\* Mutant of Fails: show() gives up like write_frame().
FailsAtOnce ==
  /\ todo' = IF Head(todo).op = "write" THEN ShowCalls ELSE <<>>
  /\ ret' = IF Head(todo).op = "show" THEN "error" ELSE ret

(* write_frame returns the first error, which the player ignores before it shows;
   show latches the error and goes on. *)
Fails ==
  /\ todo' = IF Head(todo).op = "write" THEN ShowCalls ELSE Tail(todo)
  /\ ret' = IF Head(todo).op = "show" THEN "error" ELSE ret

Fault(device) == faults < MaxFaults /\ faults' = faults + 1 /\ hit' = hit \cup {device}
NoFault       == UNCHANGED <<faults, hit>>

-----------------------------------------------------------------------------
(* The player's calls *)

\* init() begins by clearing the handles, whatever they hold.
Acquire ==
  /\ phase = "released" /\ todo = <<>>
  /\ phase' = "acquiring" /\ todo' = InitCalls /\ ret' = "ok"
  /\ bus_handle' = FALSE
  /\ ws2812b' = [i \in Strips |-> NoStrip]
  /\ pca9955b' = [j \in Chips |-> [pca9955b[j] EXCEPT !.dev = FALSE, !.buffer = 0]]
  /\ cause' = IF bus_handle THEN cause \cup {"init again"} ELSE cause
  /\ wanted' = [colour |-> 0, op |-> "init"] /\ hit' = {}
  /\ UNCHANGED <<driverVars, lightVars, lost, faults>>

(* Player::acquireResources goes on with the clock, which may fail: then it calls
   init() again, and never deinit(). *)
Acquired ==
  /\ phase = "acquiring" /\ todo = <<>>
  /\ \/ ret = "ok" /\ phase' = "acquired" /\ UNCHANGED faults
     \/ ret = "ok" /\ phase' = "released" /\ faults < MaxFaults /\ faults' = faults + 1
     \/ ret # "ok" /\ phase' = "released" /\ UNCHANGED faults
  /\ UNCHANGED <<handleVars, driverVars, lightVars, todo, ret, historyVars>>

Pass(op, colour, calls) ==
  /\ phase = "acquired" /\ todo = <<>>
  /\ todo' = calls \o ShowCalls /\ ret' = "ok"
  /\ wanted' = [colour |-> colour, op |-> op] /\ hit' = {}
  /\ UNCHANGED <<handleVars, driverVars, lightVars, phase, lost, cause, faults>>

Update   == \E colour \in Colours : Pass("write", colour, WriteFrameCalls)
Blackout == Pass("fill", 0, FillCalls)

Release ==
  /\ phase = "acquired" /\ todo = <<>>
  /\ phase' = "releasing" /\ todo' = DeinitCalls
  /\ UNCHANGED <<handleVars, driverVars, lightVars, ret, historyVars, faults>>

Released ==
  /\ phase = "releasing" /\ todo = <<>> /\ phase' = "released"
  /\ UNCHANGED <<handleVars, driverVars, lightVars, todo, ret, historyVars, faults>>

-----------------------------------------------------------------------------
(* The I2C bus *)

BusInit ==        \* a port in use cannot be opened again; then deinit()
  /\ Now("i2c_bus_init")
  /\ \/ /\ ~port /\ port' = TRUE /\ bus_handle' = TRUE
        /\ Returns /\ UNCHANGED faults
     \/ /\ \/ port /\ UNCHANGED faults
           \/ faults < MaxFaults /\ faults' = faults + 1
        /\ todo' = DeinitCalls /\ ret' = "error"
        /\ UNCHANGED <<port, bus_handle>>
  /\ UNCHANGED <<ws2812b, pca9955b, attached, taken, lightVars, phase, historyVars>>

BusDel ==         \* the handle is cleared even when the bus cannot be deleted
  /\ Now("i2c_del_master_bus") /\ Returns
  /\ bus_handle' = FALSE
  /\ \/ /\ ~bus_handle
        /\ UNCHANGED <<port, cause, faults>>
     \/ /\ bus_handle /\ attached = {}
        /\ port' = FALSE /\ UNCHANGED <<cause, faults>>
     \/ /\ bus_handle /\ attached # {}
        /\ UNCHANGED <<port, cause, faults>>
     \/ /\ bus_handle /\ faults < MaxFaults /\ faults' = faults + 1
        /\ cause' = cause \cup {"bus"} /\ UNCHANGED port
  /\ UNCHANGED <<ws2812b, pca9955b, attached, taken, lightVars, phase, wanted, hit, lost>>

-----------------------------------------------------------------------------
(* WS2812B strips *)

NewChannel == CHOOSE c \in Channels \ taken : TRUE

StripReady(i, c) == ws2812b' = [ws2812b EXCEPT ![i] =
                                  [channel |-> c, pixels |-> TRUE, buffer |-> 0]]

(* Validation, encoder, channel, drive capability, enable, and a first black
   transmission, whose end is waited for.  What fails before the channel is
   enabled is undone; an enabled channel cannot be deleted.  The controller
   ignores the failure. *)
WsInit ==
  /\ Now("ws2812b_init") /\ Returns
  /\ LET i == Dev IN
       \/ /\ i \in unused \/ Channels \subseteq taken
          /\ ws2812b' = [ws2812b EXCEPT ![i].pixels = i \notin unused]
          /\ NoFault /\ UNCHANGED <<taken, lightVars, lost, cause>>
       \/ /\ i \notin unused /\ Fault(<<"ws", i>>)
          /\ ws2812b' = [ws2812b EXCEPT ![i].pixels = TRUE]
          /\ UNCHANGED <<taken, lightVars, lost, cause>>
       \/ /\ i \notin unused /\ ~ Channels \subseteq taken
          /\ taken' = taken \cup {NewChannel}
          /\ \/ /\ StripReady(i, NewChannel) /\ lit' = [lit EXCEPT ![i] = <<0, 0>>]
                /\ lost' = lost \ {<<"ws", i>>}
                /\ NoFault /\ UNCHANGED <<tx, chip, cause>>
             \/ /\ StripReady(i, NewChannel) /\ tx' = [tx EXCEPT ![i].queued = 1]
                /\ Fault(<<"ws", i>>) /\ UNCHANGED <<lit, chip, lost, cause>>
             \/ /\ ws2812b' = [ws2812b EXCEPT ![i].pixels = TRUE]
                /\ cause' = cause \cup {"enabled"}
                /\ Fault(<<"ws", i>>) /\ UNCHANGED <<lightVars, lost>>
  /\ UNCHANGED <<bus_handle, pca9955b, port, attached, phase, wanted>>

WsWrite ==        \* write_channel: ESP_ERR_INVALID_STATE for a strip without handles
  /\ Now("ws2812b_write_grb")
  /\ \/ Alive(Dev) /\ Returns /\ ws2812b' = [ws2812b EXCEPT ![Dev].buffer = wanted.colour]
     \/ ~Alive(Dev) /\ Fails /\ UNCHANGED ws2812b
  /\ UNCHANGED <<bus_handle, pca9955b, driverVars, lightVars, phase, historyVars, faults>>

WsFill ==
  /\ Now("ws2812b_fill") /\ Returns
  /\ ws2812b' = [ws2812b EXCEPT ![Dev].buffer = IF ws2812b[Dev].pixels THEN wanted.colour ELSE @]
  /\ UNCHANGED <<bus_handle, pca9955b, driverVars, lightVars, phase, historyVars, faults>>

WsShow ==         \* rmt_transmit queues the buffer; a full queue is an error
  /\ Now("ws2812b_show")
  /\ \/ /\ Alive(Dev) /\ tx[Dev].queued < QueueDepth
        /\ tx' = [tx EXCEPT ![Dev].queued = @ + 1] /\ Returns /\ NoFault
     \/ Alive(Dev) /\ Fault(<<"ws", Dev>>) /\ Fails /\ UNCHANGED tx
     \/ /\ Alive(Dev) /\ tx[Dev].queued = QueueDepth
        /\ hit' = hit \cup {<<"ws", Dev>>} /\ Fails /\ UNCHANGED <<tx, faults>>
     \/ ~Alive(Dev) /\ Fails /\ NoFault /\ UNCHANGED tx
  /\ UNCHANGED <<handleVars, driverVars, lit, chip, phase, wanted, lost, cause>>

\* Mutant of WsWait: a timeout of 0, the result not looked at.
WsWaitAtOnce ==
  /\ Now("ws2812b_wait_done")
  /\ IF Alive(Dev) THEN Returns ELSE Fails
  /\ NoFault
  /\ UNCHANGED <<handleVars, driverVars, lightVars, phase, wanted, lost, cause>>

WsWait ==         \* until everything queued is sent, or LD_CFG_RMT_TIMEOUT_MS
  /\ Now("ws2812b_wait_done")
  /\ \/ Alive(Dev) /\ tx[Dev].queued = 0 /\ Returns /\ NoFault
     \/ Alive(Dev) /\ tx[Dev].queued > 0 /\ Fault(<<"ws", Dev>>) /\ Fails
     \/ ~Alive(Dev) /\ Fails /\ NoFault
  /\ UNCHANGED <<handleVars, driverVars, lightVars, phase, wanted, lost, cause>>

Shift(i) ==       \* RMT sends the next part of the buffer as it is now
  /\ tx[i].queued > 0
  /\ lit' = [lit EXCEPT ![i][tx[i].part] = ws2812b[i].buffer]
  /\ tx' = [tx EXCEPT ![i] = IF @.part = 1 THEN [@ EXCEPT !.part = 2]
                             ELSE [queued |-> @.queued - 1, part |-> 1]]
  /\ UNCHANGED <<handleVars, driverVars, chip, phase, todo, ret, historyVars, faults>>

\* Mutant of WsDel: the channel is deleted as it is.
WsDelLit ==
  /\ Now("ws2812b_del") /\ Returns
  /\ ws2812b' = [ws2812b EXCEPT ![Dev].channel = Null]
  /\ tx' = [tx EXCEPT ![Dev] = NothingTx]
  /\ taken' = taken \ {ws2812b[Dev].channel}
  /\ UNCHANGED <<bus_handle, pca9955b, port, attached, lit, chip, phase, historyVars, faults>>

(* Black is sent and waited for, as far as that goes; then the channel is
   disabled, which ends what it is sending, and deleted. *)
WsDel ==
  /\ Now("ws2812b_del") /\ Returns
  /\ LET i == Dev
         c == ws2812b[i].channel IN
       \/ /\ ~Alive(i)
          /\ NoFault /\ UNCHANGED <<ws2812b, taken, lightVars, lost, cause>>
       \/ /\ Alive(i)
          /\ ws2812b' = [ws2812b EXCEPT ![i].channel = Null, ![i].buffer = 0]
          /\ tx' = [tx EXCEPT ![i] = NothingTx] /\ UNCHANGED chip
          /\ \/ /\ tx[i].queued < QueueDepth /\ lit' = [lit EXCEPT ![i] = <<0, 0>>]
                /\ \/ taken' = taken \ {c} /\ NoFault /\ UNCHANGED cause
                   \/ Fault(<<"ws", i>>) /\ cause' = cause \cup {"delete"} /\ UNCHANGED taken
                /\ lost' = lost \ {<<"ws", i>>}
             \/ /\ taken' = taken \ {c} /\ lost' = lost \cup {<<"ws", i>>}
                /\ \/ Fault(<<"ws", i>>)
                   \/ tx[i].queued = QueueDepth /\ NoFault
                /\ UNCHANGED <<lit, cause>>
  /\ UNCHANGED <<bus_handle, pca9955b, port, attached, phase, wanted>>

-----------------------------------------------------------------------------
(* PCA9955B chips *)

SetPca(j, dev, enable) ==
  pca9955b' = [pca9955b EXCEPT ![j] = [dev |-> dev, buffer |-> 0, enable |-> enable]]

\* Mutant of PcaInit: a chip that does not answer stays registered.
PcaInitKeepsDevice ==
  /\ Now("pca9955b_init") /\ Returns
  /\ LET j == Dev IN
       \/ /\ Fault(<<"pca", j>>) /\ SetPca(j, FALSE, FALSE)
          /\ attached' = attached \cup {j} /\ UNCHANGED <<chip, lost>>
       \/ /\ SetPca(j, TRUE, TRUE) /\ attached' = attached \cup {j}
          /\ chip' = [chip EXCEPT ![j] = [iref |-> TRUE, pwm |-> 0]]
          /\ lost' = lost \ {<<"pca", j>>} /\ NoFault
  /\ UNCHANGED <<bus_handle, ws2812b, port, taken, tx, lit, phase, wanted, cause>>

(* The chip is probed and registered, IREF and black are written; a chip that
   fails one of these is removed from the bus and stays disabled. *)
PcaInit ==
  /\ Now("pca9955b_init") /\ Returns
  /\ LET j == Dev IN
       \/ /\ Fault(<<"pca", j>>) /\ SetPca(j, FALSE, FALSE)
          /\ chip' \in {chip, [chip EXCEPT ![j].iref = TRUE], [chip EXCEPT ![j] =
                                 [iref |-> TRUE, pwm |-> Torn]]}
          /\ lost' = IF chip' = chip THEN lost ELSE lost \cup {<<"pca", j>>}
          /\ UNCHANGED attached
       \/ /\ SetPca(j, TRUE, TRUE) /\ attached' = attached \cup {j}
          /\ chip' = [chip EXCEPT ![j] = [iref |-> TRUE, pwm |-> 0]]
          /\ lost' = lost \ {<<"pca", j>>} /\ NoFault
  /\ UNCHANGED <<bus_handle, ws2812b, port, taken, tx, lit, phase, wanted, cause>>

PcaStage ==       \* pca9955b_set_pixel, pca9955b_fill; a disabled chip is passed over
  /\ Now("pca9955b_set_pixel") \/ Now("pca9955b_fill")
  /\ Returns
  /\ pca9955b' = [pca9955b EXCEPT ![Dev].buffer =
                    IF pca9955b[Dev].enable THEN wanted.colour ELSE @]
  /\ UNCHANGED <<bus_handle, ws2812b, driverVars, lightVars, phase, historyVars, faults>>

PcaShow ==        \* IREF, then the buffer, which a failure may leave half written
  /\ Now("pca9955b_show")
  /\ LET j == Dev IN
       \/ ~pca9955b[j].enable /\ Returns /\ NoFault /\ UNCHANGED chip
       \/ /\ pca9955b[j].enable /\ Returns /\ NoFault
          /\ chip' = [chip EXCEPT ![j] = [iref |-> TRUE, pwm |-> pca9955b[j].buffer]]
       \/ /\ pca9955b[j].enable /\ Fails /\ Fault(<<"pca", j>>)
          /\ chip' \in {chip} \cup {[chip EXCEPT ![j] = [iref |-> TRUE, pwm |-> p]] :
                                      p \in {chip[j].pwm, Torn}}
  /\ UNCHANGED <<handleVars, driverVars, tx, lit, phase, wanted, lost, cause>>

PowerDip(j) ==    \* the chip "may lose IREF unexpectedly"
  /\ chip[j].iref /\ Fault(<<"pca", j>>)
  /\ chip' = [chip EXCEPT ![j] = [iref |-> FALSE, pwm |-> 0]]
  /\ UNCHANGED <<handleVars, driverVars, tx, lit, phase, todo, ret, wanted, lost, cause>>

PcaDel ==         \* black is sent, the device removed; the handle is cleared anyway
  /\ Now("pca9955b_del") /\ Returns
  /\ LET j == Dev IN
       \/ /\ ~pca9955b[j].enable
          /\ NoFault /\ UNCHANGED <<pca9955b, attached, chip, lost, cause>>
       \/ /\ pca9955b[j].enable /\ SetPca(j, FALSE, FALSE)
          /\ \/ /\ ~pca9955b[j].dev
                /\ NoFault /\ UNCHANGED <<attached, chip, lost, cause>>
             \/ /\ pca9955b[j].dev /\ chip' = [chip EXCEPT ![j].pwm = 0] /\ UNCHANGED lost
                /\ \/ attached' = attached \ {j} /\ NoFault /\ UNCHANGED cause
                   \/ Fault(<<"pca", j>>) /\ cause' = cause \cup {"remove"} /\ UNCHANGED attached
             \/ /\ pca9955b[j].dev /\ Fault(<<"pca", j>>) /\ attached' = attached \ {j}
                /\ chip' \in {chip, [chip EXCEPT ![j].pwm = Torn]}
                /\ lost' = lost \cup {<<"pca", j>>} /\ UNCHANGED cause
  /\ UNCHANGED <<bus_handle, ws2812b, port, taken, tx, lit, phase, wanted>>

-----------------------------------------------------------------------------
Ws  == WsInit \/ WsWrite \/ WsFill \/ WsShow \/ WsWait \/ WsDel
Pca == PcaInit \/ PcaStage \/ PcaShow \/ PcaDel

Step ==
  \/ Acquire \/ Acquired \/ Update \/ Blackout \/ Release \/ Released
  \/ BusInit \/ BusDel \/ Ws \/ Pca
  \/ \E i \in Strips : Shift(i)
  \/ \E j \in Chips : PowerDip(j)

Next == Step /\ UNCHANGED unused

Spec == Init /\ [][Next]_vars

-----------------------------------------------------------------------------
Shown == phase = "acquired" /\ todo = <<>>

(* The strips that the last operation wrote to: write_frame stops at the first
   strip that was not initialised, fill does not. *)
Reached(i) == Alive(i) /\ (wanted.op = "write" => \A k \in 1 .. i : Alive(k))

(* A device whose own calls succeeded shows the last frame, whole, whatever failed
   for the others: show() never stops half-way (LedController.cpp:134-244). *)
HealthyShown ==
  Shown =>
    /\ \A i \in Strips : Reached(i) /\ <<"ws", i>> \notin hit =>
         lit[i] = <<wanted.colour, wanted.colour>>
    /\ \A j \in Chips : pca9955b[j].enable /\ <<"pca", j>> \notin hit => Light(j) = wanted.colour

(* When show() returns ESP_OK every strip shows the frame, and every chip in use
   that kept its power: the transmissions it started have ended and none was cut,
   torn or left without current (LedController.cpp:150-244, pca9955b.c:144-179). *)
OkMeansShown ==
  Shown /\ wanted.op # "init" /\ ret = "ok" =>
    /\ \A i \in Strips : lit[i] = <<wanted.colour, wanted.colour>> /\ tx[i].queued = 0
    /\ \A j \in Chips : pca9955b[j].enable => Light(j) = wanted.colour \/ <<"pca", j>> \in hit

(* A controller that was released leaves nothing lit, except devices whose last
   transmission failed (ws2812b.c:140-170, pca9955b.c:181-206). *)
DarkWhenReleased ==
  phase = "released" /\ todo = <<>> =>
    /\ \A i \in Strips : <<"ws", i>> \notin lost => lit[i] = <<0, 0>>
    /\ \A j \in Chips : <<"pca", j>> \notin lost => Light(j) = 0

(* What the drivers hold, the controller has a handle to: an initialisation that
   fails at any step, and a release, give back what they took.  The exceptions are
   named: a release call failed, a strip failed after its channel was enabled, or
   init() was called again without deinit() (LedController.cpp:19-87,246-274). *)
NothingOrphaned ==
  cause = {} =>
    /\ port = bus_handle
    /\ taken = {ws2812b[i].channel : i \in Strips} \ {Null}
    /\ attached = {j \in Chips : pca9955b[j].dev}

=============================================================================
