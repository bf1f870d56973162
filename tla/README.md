# LightDance firmware: TLA+ models and proofs

This directory models the firmware of a LightDance player (`src/legacy/LPS`):
an ESP32 that hears commands over Bluetooth, plays a light show from two files,
and drives LED strips and chips. The projects under `src/legacy/example` are
earlier copies and test programs; of these, the Bluetooth receiver and the frame
system of `Pressure_test` are modelled too, because they differ from what the
firmware became. Paths below are relative to `src/legacy/LPS/components` unless
they start with `main/` or `example/`.

## 1. The system

| Component | State it keeps | Operations | Interacts with |
|---|---|---|---|
| Frame system, `PT_Reader/readframe.c`, `frame_reader.c` | one frame buffer, two binary semaphores, a posted command and its epoch, status flags, the file position | `frame_system_init`; reader task; `read_frame`, `frame_reset`, `read_frame_seek` | the player task calls it; shared memory between two cores |
| Timeline, `PT_Reader/control_reader.c` | the timestamps and channels of `control.dat` | `get_channel_info`, seek lookup | read at boot; called by `read_frame_seek` |
| FrameBuffer, `Player/src/framebuffer.cpp` | two key frames, end-reported flag, test mode | `init`, `reset`, `seek`, `compute` | the player; reads the frame system |
| PlayerClock, `Player/src/player_clock.cpp` | stopwatch state, accumulated time; a metronome over a hardware timer | `init`, `deinit`, `start`, `pause`, `reset`, `set_time_us`, `now_us` | the timer's interrupt notifies the player task |
| Player, `Player/src/player.cpp`, `player_fsm.cpp` | state, owned resources, event queue, notification bits | public calls from any task; `Loop`, `processEvent`, `updateState` | FrameBuffer, PlayerClock, LedController |
| Scheduler, `Messenger/src/bt_scheduler.cpp` | packet queue, window of samples, 16 slots with timers, feedback flags, last locked command | reception, `sync_process_task`, `timer_timeout_cb`, `led_timer_cb`, teardown | calls Player, the system command queue and the ACK task |
| Receiver, ACK task, HCI, `Messenger/src/bt_receiver.cpp`, `bt_ack.cpp`, `bt_hci.cpp` | the controller's scanning, advertising, parameters and data | start, stop; one task per CHECK | one Bluetooth controller, commanded by all |
| Content update, `FileDownloader/src/*` | Wi-Fi events, the output file | `update_task_func` | tears the receiver down, writes the show, queues UPLOAD_SUCCESS |
| Boot and system commands, `main/main.cpp` | `nvs_ready`, the channels, `sys_cmd_queue` | `app_task`; UPLOAD, RESET, UPLOAD_SUCCESS | starts all others; Player, content update, restart |
| LedController, `LedController/src/*` | strips, chips and their buffers, the I2C bus, the RMT channels and their encoders | `init`, `write_frame`, `show`, `fill`, `deinit` | the player; RMT sends a strip's buffer in place |
| Colour arithmetic, `ld_core/inc/ld_led_ops.h`, `ld_math_u8.h`, `ld_gamma_lut.c` | the gamma tables | HSV conversion, interpolation, gamma, brightness | FrameBuffer |
| Settings, `ld_storage/ld_nvs.c`, `Player/src/player_console.cpp` | the player's number in flash | set, get, erase | receiver at boot, update |
| Light table partition, `ld_storage/ld_partition.c` | flash, the cursors of a writer and a reader | `begin`, `write`, `end`, `read` | none: it has no callers yet |
| Logger, `SD/sd_logger.c` | a ring buffer, a file | log line, flushing task, `sd_log_flush` | compiled out by `LD_CFG_ENABLE_LOGGER = 0` |

What is hard here: the reader and the player share a buffer across two cores;
a command overtakes a prefetch in flight; callers, the interrupt and the player
itself feed one queue of bounded length; drivers fail half-way through an
acquisition; the same command is heard many times, in several windows, on one
core while its timer fires on the other; everything is torn down while timers
are armed; ACK tasks that know nothing of each other switch one radio; power is
lost in the middle of a download; hardware still reads a buffer that is being
written.

What makes each part correct, in one line: the frame system gives the frames of
the file in order from where the last command put it, and every call returns;
the frame buffer interpolates between the frame due and the following one; the
clock is a stopwatch and is never silent while it runs; the player's devices
agree with its state, no event is stranded and a show ends; a command is
dispatched once, not early, and its red light is put out; a receiver that stops
scanning resumes, and an ACK tells the time that is left; an update that was not
disturbed leaves a whole show, which the next boot plays, and boot leaves no part
half initialised; the devices that work show the frame, and a released controller
is dark and holds nothing; a fade is faithful to its key frames and stays below
the maximum brightness; the file of the log, the table in flash and the player's
number are what was written.

## 2. Modules

| Module | Models | Correspondence |
|---|---|---|
| `FrameSystem` | reader task and the player inside `read_frame`, `frame_reset`, `read_frame_seek` | `R...` actions are the statements of `pt_reader_task`, `P...` those of the player's calls; each access to a variable both tasks use is a step |
| `FrameBuffer` | `framebuffer.cpp`, the seek lookup | pure operators on a record: `cur`, `nxt` are `*current`, `*next`; the loop of `handle_frames` is a recursive function |
| `Playback` | `resetPlayback`, `set_time_us`, `updatePlayback` on one `FrameBuffer` | one action each |
| `Stopwatch` | nothing in the code: what a clock promises | abstract specification |
| `PlayerClock` | `PlayerClock` and `PlayerMetronome` | one action per method; driver calls fail where the code checks for it; refines `Stopwatch` |
| `Player` | `player.cpp`, `player_fsm.cpp` | player task with its control point `pc`; each caller is between the steps of `sendEvent`; interrupt; uses the operators of `FrameBuffer` |
| `Scheduler` | `bt_scheduler.cpp` with reception and teardown | `S...` actions are `sync_process_task`, `C...` the timer task, `D...` the teardown |
| `BtAck` | `bt_hci.cpp`, `bt_ack.cpp`, start and stop of `bt_receiver.cpp` | a task is a position and the units of 5 ms until its next step; a step is a command to the controller |
| `AckDelay` | `bt_protocol.cpp`, `s_last_locked_cmd` | the writes of the cache, the reads of CHECK, the conversions between ms and us modulo `Word` |
| `Boot` | `app_task` from power-on, `frame_system_init`, `get_channel_info` | one action per part brought up, failing or not; `stored` is the storage, which outlives a restart |
| `ContentUpdate` | `sys_cmd_task`, `tcp_client.cpp`, `sd_writer.cpp` | extends `Boot`; `M...` actions are `sys_cmd_task`, `T...` an update task down into the file writer, `Wifi...` the event handler |
| `LedController` | `LedController.cpp`, `ws2812b.c`, `pca9955b.c` | an operation is the sequence `todo` of driver calls it still has to make; each call is an action; `Shift` is RMT reading the buffer |
| `Encoder` | `ws2812b_encoder.c` | `Encode` is a call by the driver with some room, `Interrupt` a disabled channel, `NewEncoder` the allocations |
| `Colour`, `MCColour` | `ld_led_ops.h`, `ld_math_u8.h`, `ld_gamma_lut.c`, as `compute` and `updatePlayback` apply them | pure operators on one LED; the actions choose the inputs |
| `Settings` | `ld_nvs.c`, the console command, their readers | one action per operation, each failing or not |
| `Partition` | `ld_partition.c` | one action per function; sizes wrap at `SizeWord` |
| `Logger` | `sd_logger.c` | lines and flushes as steps between the takes of the mutex |
| `PressureReceiver`, `MCPressure` | `example/Pressure_test/components/Messenger` with what its commands do to the player | the synchronisation task, the timer task that waits for the ACK, the ACK tasks |
| `SingleBuffer` | `example/Pressure_test/components/PT_Reader/readframe.c`, `frame_reader.c` | one action per statement of `sd_reader_task` and of the player's calls |
| `MCPlayback`, `MCPlayer`, `MCScheduler`, `MCUnits` | nothing: values of constants, and the composition of units | |
| `FrameSystemProof`, `PlayerClockProof`, `PlayerProof`, `SchedulerProof`, `BtAckProof`, `BootProof`, `LedProof`, `UnitsProof` | nothing: theorems and proofs | |

The definitions whose name is another one's with a word added, each introduced
by a comment *Mutant of ...*, are wrong versions of a definition: a bug of the
kind the property they are paired with in `PROJECT.json` exists to catch. No
specification uses them.

How the modules rest on each other: `FrameSystem` shows that after a command
that found the prefetch settled the frames come in order (`SettledInOrder`);
`FrameBuffer` takes that as the behaviour of `read_frame`. `PlayerClock` is
shown to be a `Stopwatch`; `Player` has a stopwatch and the timer behind it, and
sees `LedController` as a bus it owns and LEDs that are lit. `LedController`
takes `ws2812b_encoder.c` as sending the buffer, which `Encoder` shows.
`Scheduler` sees the player as its transition table, with events handled at
once, and reports what CHECK reads; `AckDelay` computes what the ACK makes of
it, and `BtAck` puts it on air. `ContentUpdate` extends `Boot`: the two share the
storage, so that a download cut anywhere meets the boot that follows. It hears
what `Scheduler` dispatches to `sys_cmd_queue` while the receiver is up; the
colours `sys_cmd_task` asks the player for are left out.

Assumptions about what is outside the code: accesses to shared variables are
sequentially consistent; FreeRTOS semaphores, queues and notifications do what
their documentation says; `esp_timer_start_once` leaves an armed timer alone
and `esp_timer_delete` refuses one; a gptimer can be disabled only when enabled
and deleted only when disabled; locking a command takes much less than 100 ms;
a Bluetooth controller that is down takes no command, and one that advertises
refuses other parameters; flash can only be erased in
units and programmed from ones to zeros; a chip that lost its power comes back
dark and without a current setting; `powf` is monotonic.

## 3. Model checking

| Run | Properties | Question | Bounds |
|---|---|---|---|
| `frame_faults` | `TypeOK`, `TokenNeverLost`, `SettledInOrder`, `CallReturns` | is the buffer's permission ever lost, do calls return, is the order right? | 3 frames, one of them bad, 2 commands, any read or seek may fail |
| `clock_faults` | `NeverSilent`, `IsStopwatch` | is the clock a stopwatch whatever fails? | wall clock 0..4 |
| `player` | `TypeOK`, `NoStrandedEvents`, `ResourcesHeld`, `StateConsistent`, `AutoStop`, `Reloads` | do state, devices and queue agree, does a show end, does a player reload? | 1 caller, 3 calls of all types, queue of 2, 1 fault, a show with a bad frame |
| `sched_cancel` | `OnceOnTime`, `LightEnds` | a PLAY, its CANCEL, and a teardown at any moment | 4 packets, window of 2 units, jitter of 1 |
| `sched_show` | `FeedbackPending`, `LockedFires` | PLAY, CHECK and UPLOAD closing each other's windows | 3 packets, no jitter |
| `update` | `SuccessIsWhole`, `RestartsWhenDone`, `FramesOrDefaults`, `UpdatedShowPlays`, `ComesBack` | what does an update leave behind, what does boot make of it, does the receiver come back? | 2 UPLOAD or RESET, 2 update tasks, files of 1 chunk, 1 fault or loss of power, 1 Wi-Fi retry, command queue of 2 |
| `leds` | `HealthyShown`, `OkMeansShown`, `DarkWhenReleased`, `NothingOrphaned` | what do devices that fail take from the others, what does a release leave? | 3 strips and 2 chips, one strip without pixels or not, 3 colours, 3 faults |
| `units` | `HearsAgain`, `AckOnAir`, `AnswerIsTimely`, `FadeIsFaithful`, `WithinMaxUnlessError`, `DataThenReset`, `LogInOrder`, `TableKept`, `NumberIsMine`, `AcksApart`, `LateByChecks`, `StuckOnlyWithoutReader`, `WholeInOrder`, `PairIsDue`, `ReportsHaveCause` | the units that share no state, each by itself | below |

`units` checks ten modules in one run; its initial state chooses the one that
moves, so no product of them is explored. Their bounds: for `Playback`, every timeline
of at most 3 frames with timestamps 0..3, ordered or not, good or bad, and a playback
time up to 4; two overlapping ACKs with
the delays of the code in units of 5 ms, at every distance; 32 for 2^32, 2 us to
the ms, delays below, at and beyond half the range, and a clock that runs past the
end of it; levels and blends at the
ends, near them, and where rounding changes, with gamma 2 in place of 1.75 to 2.65; data
symbols that fill the RMT memory of 5 short of, to and beyond its end;
a ring of 4 with lines of up to 3; a partition of 4 in units of 2, sizes that wrap
at 6; numbers at both ends of 1..31 and of a byte; three packets of five commands
that fall due together; for `SingleBuffer` three frames, two resets and one fault of the
card.

Why the bounds are enough. Two commands are what a race needs: the second meets
what the first left. Three frames distinguish the frame sought, the one before
and the one after. In `Playback` three frames hold every relation a pair can
have to its neighbours. A queue of 2 is full after two of three calls, or one and
the player's own LOAD. One caller suffices for `player`: two callers can only
interleave their two steps, and `NoStrandedEvents` and `ResourcesHeld` are proved
for any number. Three packets of two commands lock one of them twice, with the
other's window in between; the fourth of `sched_cancel` repeats one after that.
Two updates are what sharing a file takes; two commands at most wait in the
queue of `update` (the code's holds ten: with room for one, UPLOAD_SUCCESS is
dropped and `ComesBack` fails). In `leds` a strip is first, last or between;
three faults let one hit `init`, one `show` and one `deinit`. The proofs of
section 5 remove the bounds for what they cover.

Fairness. `FrameSystem`: the reader and the player inside a call take their
steps, as both tasks are scheduled and neither holds the other; the player need
not call. `Player`: the task, the interrupt and the clock run, a caller inside
`sendEvent` finishes; callers need not call. `Scheduler`: both tasks run and
time passes. `ContentUpdate`: boot and both kinds of task run, joining Wi-Fi ends
one way or the other, the server sends or closes the connection: `recv` has no
timeout, and with a server that does neither the player stays off air. The other
modules state no liveness: that the radio is heard again, for instance, is
`HearsAgain`, a bound on the time it is not.

`AutoStop` and `Reloads` excuse a player that exited, a driver that failed and a
full queue: with a full queue the STOP at the end of a show, or the LOAD a player
owes itself, is dropped and not asked for again. `AutoStop` also excuses a seek
past the end, which swallows the end.

## 4. What the code does not do

These runs expect a violation; each shows a behaviour that contradicts a
document or what the code says of itself.

| Run | Property | Contradicts |
|---|---|---|
| `frame_hang` | `StoppedReturns` | `PT_Reader/README.md:111`: ESP_FAIL when the reader has stopped |
| `player_retry_fails` | `RetrySucceeds` | `Player/docs/02-state-machine.md:29`, the retry of `player_fsm.cpp:133` |
| `reader_hang` | `ReadIsAnswered` | `example/Pressure_test/components/PT_Reader/readframe.h:45`: ESP_ERR_NO_MEM when the task cannot be created; its `README.md:101,114`: a read returns an error when the reader has stopped |
| `error_raw` | `WithinMaxBrightness` | `ld_core/README.md:143`: the pipeline runs before every hardware send |

The models have other behaviours that a document does not lead one to expect.
No run is kept for them; the hazards of `PROJECT.json` name their lines.

- `schedule_reader_command` gives `sem_free` whether or not the reader already
  holds the buffer, so a command that meets a fetch in flight leaves two
  permissions for one buffer (`readframe.c:63`). A frame from before a seek is
  then delivered after it, which `readframe.h:21-22` excludes; a frame may be
  filled while it is copied, and a sound card may give ESP_FAIL
  (`readframe.c:86`).
- The LOAD an UNLOADED player owes itself is lost when callers filled the queue
  during its delay (`player_fsm.cpp:74`).
- A caller inside `sendEvent` can use the queue the exiting player has deleted
  (`player.cpp:236`).
- The slot's context is written before its old timer is stopped
  (`bt_scheduler.cpp:197-204`), not after as
  `Messenger/docs/03-runtime-pipeline.md:69-70` says: when the slot's earlier command
  expires in between, the new one is dispatched in its place, early.
- A CANCEL dispatched while its target is being locked leaves the feedback flag
  set (`bt_scheduler.cpp:224`); a CHECK then may report two commands mixed, and a
  command more than 35 minutes away as due, or one that was due more than 35 minutes
  ago as still to come (`bt_scheduler.cpp:116`).
- The synchronisation task can arm a timer after `stop_timers`; the timer
  cannot be deleted then and fires after deinit (`bt_scheduler.cpp:354`).
- Of two overlapping ACKs the later replaces the data of the earlier, and is
  taken off the air by it, perhaps before it was sent once (`bt_ack.cpp:45`).
- `DONE` is sent and the restart follows whether or not the files were received
  (`tcp_client.cpp:262-272`); `FileDownloader/README.md:13,66` speaks of success. A
  download that ends after `control.dat` leaves the two files of different
  shows, which the player plays, and a failed `fflush` counts as success
  (`sd_writer.cpp:56`).
- An update that cannot read the player's number asks for the show of player 1
  (`tcp_client.cpp:235`).
- With two updates at once one closes the file the other writes, and the second
  may wait for a Wi-Fi event that never comes; the first one's restart ends it.
- `write_frame` stops at the first strip that was not initialised, and the player
  shows the frame all the same: the strips after it, and the chips, keep the frame
  before (`LedController.cpp:143`).
- One chip that cannot be removed keeps the I2C bus (`LedController.cpp:259`); the
  next `init` forgets the handles and fails.
- The logger has no room check: a burst longer than the ring loses whole laps of
  it (`sd_logger.c:65`).
- In `example/Pressure_test` a CHECK holds the timer task, and everything due
  meanwhile is late (`bt_receiver.cpp:407`). A reset that does not find the reader
  waiting lets a frame from before it be delivered after it, or one half written
  (`readframe.c:200`). `reader_hang` finds the first read after an `init` that could not
  create the reader and said ESP_OK all the same (`readframe.c:168-170`). The same
  property is broken by the second read after an error, and by the first one after an
  error and a `frame_reset`, which marks the dead reader as running (`readframe.c:207`).
- The failed deinit of a clock that runs can leave it counting with its timer stopped or
  disabled, until it is reset (`player_clock.cpp:93-105`); a disabled timer is never
  deleted.

## 5. Proofs

Every invariant of a passing run is proved for all values of the constants,
`FeedbackPending` and `LateByChecks` under a hypothesis on the commands that is named
below.

### The player and its frame buffer: `PlayerProof`

For every show, set of callers and commands, queue length, number of faults and
bound on time:

- `PairIsAlwaysDue`, `ReportsAlwaysHaveCause`: what `handle_frames` does is the
  result of a loop whose number of turns depends on the show. The prover has no
  induction rule it can instantiate, so induction is done on sets: a non-empty
  set of numbers has a least one (`WFMin` of the library's well-founded
  induction), hence a set that has 0 and with every number the next has them all
  (`SetInduction`); from it follow that the recursive function exists (`TurnsOf`)
  and that a set of results which contains the start of the loop and is closed
  under a turn that loops contains its result (`FramesInduction`). What is left are
  facts about one turn. The inductive invariant `PInv` says where the pair can
  stand at a time (`Pair`): the frame due and its follower, the end, the only frame
  of a show of one, or nothing in an empty one; and what each report says of it.
- `NoEventStranded`: the invariant follows the bit instead of the sleeper: an
  event in the queue has a notification pending, a sender about to give one, or
  a player that has not yet found the queue empty (`Heard`).
- `ResourcesAlwaysHeld`: the property is about the points where the task waits or
  handles something; the invariant (`Resources`) covers the others, the delay
  before a retry and the exit, and says what the player owns there: a release
  that fails half-way keeps `resources_acquired`, and the state is UNLOADED by then.
- `TypeAlwaysOK`: `Typed`, which says besides what each control point may hold.
- `StateAlwaysConsistent`: the property is about a player that waits. `Consistent`
  says it at every point: resources are held exactly outside UNLOADED, and the
  metronome runs when the clock does.

### The LED controller: `LedProof`

For every number of strips, chips and channels, every split into two batches,
every choice of strips without pixels, and any faults:

- `HealthyAlwaysShown`, `OkAlwaysMeansShown`, `AlwaysDarkWhenReleased`,
  `NothingEverOrphaned`: an operation is the sequence of driver calls it still has to
  make. The proof goes from the sequence to the set of the calls left (`Left`)
  and to an order on them (`Before`): a call that is made leaves the set, and what
  comes later in the order is still in it. The invariant then says of each
  device what its pending calls tell: whether its handle exists (`Life`), whether
  the controller knows of what a driver holds (`Owned`), what is lit that no handle
  leads to (`Dark`), that a device just made is black (`Started`), and how far a
  frame has come on its way from the buffer to the LEDs (`Frame`). What a failed
  transmission leaves lit is the only exception that `DarkWhenReleased` makes.

### Boot and updates: `BootProof`

For any number of updates, chunks, faults and Wi-Fi retries:

- `FramesOrDefaultsAlways`: boot's step tells how much of the frame system there
  is (`Stages`), and what an update stores is always a chunk of some show
  (`Typed`), whatever file it is cut in.
- `RestartsWhenDoneAlways`: `Order` ties each message in `sys_cmd_queue` to how far
  the updates are; when a restart is asked for, none runs and none can begin
  alone (`Over`).
- `SuccessIsWholeAlways`: `Progress` says what an update that runs alone has
  received and written at each of its steps: the file is a prefix of its chunks, in
  order, with the rest still to come. An update not alone needs nothing said of it.
- `UpdatedShowPlaysAlways`: what boot has loaded agrees with files that nothing has
  spoilt since (`Loaded`).

### The scheduler: `SchedulerProof`

For any commands, any window, queues and number of packets, and a teardown at any
step:

- `OnceOnTimeAlways`: `OnceOnTime` is about commands whose slots are their own and
  needs the whole path of one. `Window`: the samples collected are of one command,
  so their mean is at most 100 ms late (`MeanIsRight`, about integer division).
  `Locking`: what is locked has its time still to come, and is armed for it.
  `Timers`: an armed slot holds its own command and is not early. `Dispatching`: the
  slot whose callback runs is not armed again. `Fired`: a command that was
  dispatched is past its time, hence never locked again; this is why the condition
  *more than 100 ms remain* matters.
- `LightAlwaysEnds`: only the feedback of a PLAY makes the test colour red, and
  whatever leaves TEST also puts it out; the timer that ends it is armed, or the task
  that shows it is about to arm it, or the one that cancels is about to stop it.
- `FeedbackOnlyWhilePending`: assumes that no CANCEL is on air (`NoCancel`). With
  one the property is false: it can be dispatched while its target is being
  locked (section 4). `Pending`: a command just locked is not due while its
  feedback is given, so the callback cannot come in between.

### The frame system: `FrameSystemProof`

For every number of frames, set of bad frames, faults and number of commands:

- `TypeCorrect`: needs only that a call in progress has reads left.
- `NoLostWakeup`: `TokenNeverLost` is inductive with the types; every action
  that takes a semaphore makes its task the holder, and every action that ends
  a hold gives one.
- `InOrderAfterSettledCommand`: `SettledInOrder` is far from inductive. The
  invariant says that a settled command leaves one permission (`OneToken`) and
  then, for each place it can be, what is known: `Resting` (the command not yet
  executed asks for the expected frame, or the file stands at it, or a flag
  explains why not), `Fetched` (what the read returned), `Published` (what a
  signalled buffer says).

### The clock and the ACKs: `PlayerClockProof`, `BtAckProof`

For every bound, seek target and fault; for any number of ACK tasks and any delays:

- `TypeCorrect`: time never becomes negative because `last_start_us` is in the
  past.
- `ClockNeverSilent`: through `Counting` (the clock runs only if the metronome
  does, unless `muted`: a deinit of the running clock failed) and `Driven` (a running
  metronome has a running timer).
- `ClockIsStopwatch`: the refinement; every step maps to a step of `Stopwatch` or
  leaves what it shows alone.
- `AlwaysHearsAgain`: `Resuming` says that a receiver which does not scan has a
  task at some position after its stop, and that the silence is no longer than
  that position accounts for; `Ending` that an advertisement that is on has a
  task to stop it. Neither holds of a particular task: overlapping tasks take
  over from each other.
- `AlwaysOnAir`: an ACK that meets no other is on air for as long as its task's position
  tells (`Lone`). Of those that met, the one that is due first keeps the broadcast on
  until then, whoever's data it carries (`Leads`), so that all of them together get
  at least the time of one (`Covered`), and one of n an n-th of it (`LargestOne`,
  `SumBelow`). The sum over the answers is again a recursive function, whose facts are
  shown by induction on sets. An earlier bound, almost half for one of them however
  many there are, is false as soon as three overlap: the proof of it failed where the third
  replaces the data, and TLC confirmed it with short delays and three tasks.

### The units: `UnitsProof`

- `NumberIsAlwaysMine`: what was last reported as stored is in flash.
- `AlwaysDataThenReset`, for any amount of data and of symbol memory: in its session
  with the bytes encoder a transmission has sent the first `bytesIndex` symbols,
  and after it only the reset symbol is missing (`Session`); `DataGoesOn` is the fact
  about sequences that one call goes on where the last stopped.
- `NeverStuckWithReader`: a buffer that is neither free nor ready is in the
  player's hands unless the reader has it (`Held`), and a reader that ended has
  woken the player (`Wakes`). Two waits in vain are left, and the theorem names them: for
  a reader that `frame_system_init` could not create, and for one that has ended after
  the player was told or reset. `reader_hang` shows the first, with the property that neither ever
  happens.
- `AlwaysWholeInOrder`, an action property: as long as every reset found the reader
  waiting and the card is sound, the one permission is in one place (`OnePlace`),
  and for each place the file and the buffer are where the player is (`Ordered`,
  `Unfilled`, `Filled`); without a reader nothing is ever copied (`Readerless`).
- `AlwaysWithinMax`, for any gamma table, levels and times: interpolation, both ways
  of the hue conversion and the test colours stay within a byte, so that the gamma
  table is read inside its bounds; then brightness divides by 255 what is at
  most 255 times the maximum.
- `FadeAlwaysFaithful`, for all colours and blend factors. A hue is placed by the order
  of the channels (`ToSectors`): its sector names the highest, the middle and the lowest
  channel, and how far it is into the sector is the share of the middle one. The way
  back (`Sectors`) gives the highest and the lowest as they were, and the middle one off
  by what four roundings amount to (`RoundTripMiddle`), which is where 3 of 255 comes from.
  Two colours without a primary have hues on the opposite third of the circle and are
  fully saturated (`OppositeOf`), and the shorter way between them stays on that third
  (`OppositeStays`).
- `AnswerIsAlwaysTimely`, for every width of the words: a CHECK that no lock met read
  one command's record (`Checking`, `Answered`); the rest is arithmetic modulo
  `Word`. The cast of `bt_scheduler.cpp:116` is right exactly while the time left and
  the time since are within half the range, which is why the property asks for
  both; with either bound one larger the run finds it violated.
- `LogAlwaysInOrder`, for any lines, ring and short writes: a cell of the ring holds
  the newest character that went there (`RingIsNewest`); a flush has written what
  it has passed (`Flushing`); the file ends where the flush is, or whole laps before
  the first unread character (`FileEnds`), for the ring has no room check.
- `AcksAlwaysApart`, for any delays: while a CHECK holds the timer task, no ACK has
  been at work for as long as that (`Apart`), and the radio is where the one ACK at
  work has put it (`RadioFollows`).
- `AlwaysLateByChecks`: assumes that no two commands on air have one id (`DistinctIds`),
  which the 16 slots require of the sender. Without it the property is false: the
  receiver tells commands apart by their ids alone, and averages two that share one
  into a time that is neither's. `WindowHolds`: a window knows its
  command's time as well as its packets do; `SlotsAhead`: an armed slot is overdue
  by no more than the CHECKs took; `TimerHolds`: so is the slot being dispatched. Time
  passes only to the next thing due, of which there is a least one.
- `TableAlwaysKept`, for every partition and erase size: `Filling` says what an open
  writer's range holds below and above its offset, where a failed write may already
  have put the bytes that it will repeat, and that no finished table lies in it;
  `Sessions` that a reader's table was finished before the writer that is open.
  `AlignUpCovers` shows that rounding up does not wrap for a size within the partition.

The constants' assumptions, named in each module, are all else that the proofs assume.

Only model-checked: liveness (`CallReturns`, `AutoStop`, `Reloads`, `LockedFires`,
`ComesBack`), which with `ENABLED` is out of the prover's reach.

## 6. What is left

Worth doing next:

1. `Scheduler` and `Player` composed, with the player's own queue between them;
   each is at the size that can be checked alone.

Not modelled:

- `ld_config.h`, `ld_board.c`: constants, which the modules take as CONSTANTS.
- Byte layouts of packets and HCI commands, of `control.dat` and `frame.dat`
  beyond what decides whether a file is accepted; checksums, as *good* or *bad*.
- GPIO, the wave form of RMT symbols, I2C registers beyond current and duty.
- Functions without callers: `set_period_us`, `is_running`,
  `frame_system_deinit`, `is_eof_reached`, `write_channel` by itself,
  `brightness_test`, the `print` and `dump` helpers.
- Opening and closing the log (compiled out), line editing of the console, log
  messages.
- The other example projects, and the copies in `Pressure_test` of what the
  firmware has in a newer form.
