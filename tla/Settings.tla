-------------------------------- MODULE Settings --------------------------------
(***************************************************************************)
(* The player's number: set on the console (player_console.cpp), kept in    *)
(* flash (ld_storage/ld_nvs.c), read by the Bluetooth receiver at boot      *)
(* (main.cpp) and by every content update (tcp_client.cpp).                 *)
(***************************************************************************)
EXTENDS Integers

CONSTANTS
  Numbers,          \* bound: arguments of `nvs set id`
  MaxNvsFaults      \* bound: NVS operations that fail

ASSUME NumbersAssumption == Numbers \subseteq Nat /\ MaxNvsFaults \in Nat

Unset     == -1
Broadcast == 0
Dedicated == 1 .. 31

VARIABLES
  nvs,           \* the number in flash
  nvs_ready,     \* app_task's, and whether the firmware runs
  running,
  my_player_id,  \* the receiver's, and the number last sent by an update
  pid,
  acked,         \* history: the number whose storing was last reported, while nothing
                 \* that failed since may have changed it
  promised,      \* history: what my_player_id and pid should be, on that account
  nvsFaults

settingsVars == <<nvs, nvs_ready, running, my_player_id, pid, acked, promised, nvsFaults>>

NoPromise == [bluetooth |-> Unset, update |-> Unset]

SettingsInit ==
  /\ nvs = Unset /\ nvs_ready = FALSE /\ running = FALSE
  /\ my_player_id = Broadcast /\ pid = Unset
  /\ acked = Unset /\ promised = NoPromise /\ nvsFaults = 0

NvsFault == nvsFaults < MaxNvsFaults /\ nvsFaults' = nvsFaults + 1

-----------------------------------------------------------------------------
Valid(number) == number >= 1 /\ number <= 31

\* ld_nvs_get_u8; Unset stands for an error.
ReadU8(ready, stored, value) ==
  \/ value = (IF ready THEN stored ELSE Unset) /\ UNCHANGED nvsFaults
  \/ ready /\ stored # Unset /\ value = Unset /\ NvsFault

LoadPlayerId ==
  \E value \in {nvs', Unset} :
    /\ ReadU8(nvs_ready', nvs', value)
    /\ my_player_id' = IF Valid(value) THEN value ELSE Broadcast
    /\ promised' = IF value = Unset THEN NoPromise
                   ELSE [bluetooth |-> acked', update |-> Unset]

\* Power on: ld_nvs_init, which may have to erase everything, or fail.
NvsBoot ==
  /\ ~running /\ running' = TRUE /\ pid' = Unset
  /\ \/ nvs_ready' \in BOOLEAN /\ UNCHANGED <<nvs, acked>>
     \/ nvs_ready' = TRUE /\ nvs' = Unset /\ acked' = Unset
  /\ LoadPlayerId

NvsRestart ==
  /\ running /\ running' = FALSE
  /\ UNCHANGED <<nvs, nvs_ready, my_player_id, pid, acked, promised, nvsFaults>>

\* Mutant of SetU8: a commit that fails is not reported.
SetU8Unchecked(number) ==
  /\ nvs' \in {nvs, number} /\ acked' = number
  /\ UNCHANGED nvsFaults

\* ld_nvs_set_u8: a failed commit may have stored the number all the same.
SetU8(number) ==
  \/ nvs' = number /\ acked' = number /\ UNCHANGED nvsFaults
  \/ UNCHANGED <<nvs, acked>> /\ NvsFault
  \/ nvs' \in {nvs, number} /\ acked' = Unset /\ NvsFault

\* `nvs set id <number>`, which says what it stored, or that it could not
SetCommand(number) ==
  /\ running
  /\ IF nvs_ready /\ number <= 255 THEN SetU8(number) ELSE UNCHANGED <<nvs, acked, nvsFaults>>
  /\ UNCHANGED <<nvs_ready, running, my_player_id, pid, promised>>

\* An update reads the number again, and takes 1 for a missing one or for 0.
SendNumber ==
  /\ running
  /\ \E value \in {nvs, Unset} :
       /\ ReadU8(nvs_ready, nvs, value)
       /\ pid' = IF value <= 0 THEN 1 ELSE value
       /\ promised' = [promised EXCEPT !.update = IF value = Unset THEN Unset ELSE acked]
  /\ UNCHANGED <<nvs, nvs_ready, running, my_player_id, acked>>

SettingsNext ==
  \/ NvsBoot \/ NvsRestart \/ SendNumber
  \/ \E number \in Numbers : SetCommand(number)

SettingsSpec == SettingsInit /\ [][SettingsNext]_settingsVars

-----------------------------------------------------------------------------
(* A number the console reported as stored, in 1 .. 31, is what the receiver listens to
   from the next boot and what every update from now on asks the server for, unless
   NVS was erased or could not be read then (ld_nvs.c:14-65, main.cpp:219-240,
   tcp_client.cpp:234-237). *)
NumberIsMine ==
  /\ promised.bluetooth \in Dedicated => my_player_id = promised.bluetooth
  /\ promised.update \in Dedicated    => pid = promised.update

=============================================================================
