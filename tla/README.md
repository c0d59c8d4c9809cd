# Verification of the WingFlight firmware

TLA+ models of the parts of `src/src/main` whose correctness depends on the order of events: tasks of
a cooperative scheduler, interrupts, a radio link that comes and goes, a flash chip that is slow, a
client that asks again, and power that can be lost. Paths below are relative to `src/src/main` unless
they begin with `src/`.

- [Components](#1-components)
- [Modules and how they correspond to the code](#2-modules)
- [Runs, bounds and fairness](#3-runs)
- [What is proved](#4-proofs)
- [Where the code and its documentation disagree](#5-disagreements)
- [What is not modelled](#6-not-modelled)

## 1. Components

The firmware is one C program on one core. `scheduler/scheduler.c` calls the gyro, filter and PID work
at a fixed rate and, between two gyro cycles, one other task at a time: tasks never pre-empt each other,
interrupts pre-empt all of them. State is shared through file-level variables and accessor functions.

| component | state | operations | interacts with | what makes it correct |
|---|---|---|---|---|
| delayed-call dispatch, `fc/dispatch.c` | linked list of entries, `inQue`, deadlines on the wrapping microsecond clock | `dispatchAdd()`, `dispatchProcess()` | handlers it calls may queue entries, their own included | an entry is linked once; the order survives the wrap; nothing early, nothing forgotten |
| stage-2 failsafe, `flight/failsafe.c` | phase, active, link state, time stamps | `failsafeUpdateState()` every 10 ms; handlers for valid and invalid frames, suspend, resume, reset | reads the switches, throttle and arming; writes arming, the arming-disable flags, flight modes and the nav target | stage 2 starts in time, cuts the motor in time, locks it out until the link is good, then lets go |
| RX task and arming, `fc/tasks.c`, `rx/rx.c`, `fc/core.c`, `fc/rc_controls.c` | stage of the task, channel validity, arming-disable flags, the in-flight latch, the re-arm grace | frame check every gyro cycle; CHECK, MODES, UPDATE in three invocations | tells the failsafe about frames; competes with it for the nav controller and the motor | the motor is armed and disarmed by the pilot alone; only an interrupted flight is re-armed unchecked |
| mode activation, `fc/rc_modes.c` | box bits, forced modes and their expiry | `updateActivatedModes()`, `setModeOverride()`, `clearModeOverride()` | read by all of the above; a bench client forces modes over MSP | the modes are the ones the table asks for; forced ones lapse |
| configuration store, `config/*.c`, `pg/pg.c` | parameter groups in RAM with a hash each, records in flash, dirty flag | load, save, delayed and queued save, reset | a save stalls the processor; a read resets the failsafe under it; the boot repairs | a record survives a power loss or is recognised as bad; a save saves; the board boots |
| wiring trial of a receiver, `rx/rx.c`; backup receiver, `drivers/rx_input_backup.c` | candidate, watchdog, saved wiring; baud hunt | start, poll, stop; tick and hunt in every frame check | swap the receiver's port under the RX task | a find was heard; a trial that is not saved leaves nothing behind; the receiver is found |
| telemetry, `telemetry/msp_shared.c`, `smartport.c`, `crsf.c` | request being put together, reply being sent, frame buffer | a poll of the receiver, a frame in its interrupt, the telemetry task | carries MSP commands and their replies in chunks | no request or reply is put together from two; an answer comes |
| flash file system, `io/flashfs.c`, `drivers/flash*.c` | ring of log bytes, head and tail of the circular volume, erase state; the chip | write, flush, blocking flush, erase in the background, mount at boot | the transfer interrupt frees the ring; the main task drives erases | the log has no holes, is found again at boot, and is never written over |
| blackbox logger, `blackbox/blackbox.c` | state machine, shutdown and grace timers | `blackboxUpdate()`, `blackboxFlush()` every gyro cycle | switches, arming; MSP reads and erases the volume | a log ends complete; the logger is not stuck |
| GPS navigation, `flight/gps_nav.c` | nav target, guidance | start, stop, update | started by the RX task and by the failsafe | it runs while a nav mode is on, and for its owner |
| MSP server, `msp/msp.c` | ports, parser | commands | writes the state of all others | its commands, where a model above has them |
| scheduler, `scheduler/scheduler.c` | task queue, ages, dynamic priorities | `scheduler()` | runs everything | no task starves |
| mixer, PID, governor, sensors, filters | floating point | every gyro cycle | | numerical, out of reach |
| CLI, beeper, LEDs, dashboard, receiver protocols | text and frames | | | formatting and parsing |

Hard behaviours: the failsafe tick lands between any two stages of an RX round; `failsafeUpdateState()`
goes on deciding with values it sampled before its loop; a flash write ages every time stamp at once; the
transfer interrupt moves the volume's tail under the main loop; the volume's two ends are kept nowhere but
in the erased pages; the signal flag of a receiver outlives the port it came through; a save is skipped on
the word of a hash; chunks of two requests can be in sequence. `PROJECT.json` lists each hazard with its
line and the properties aimed at it.

## 2. Modules

Each property and each action has a comment naming what it stands for. A definition with a suffix, like
`landed_noBlock`, is a *mutant*: a plausible bug, put in the place of the definition without the suffix to
see that a property notices it. Variables marked `history` are read by no action's guard.

| module | code | composes |
|---|---|---|
| `Dispatch` | `fc/dispatch.c` | |
| `Failsafe` | `flight/failsafe.c` | |
| `FlightSafety` | `fc/core.c`, `fc/tasks.c`, `rx/rx.c`, `config/config.c`, `msp/msp.c` | `Failsafe` |
| `RcModes` | `fc/rc_modes.c`, `fc/core.c`, `fc/rc_controls.c` | |
| `RxTrial` | `rx/rx.c`, `drivers/rx_input_backup.c` | |
| `ConfigStore` | `config/*.c`, `pg/pg.c`, `fc/init.c` | |
| `MspTelemetry` | `telemetry/msp_shared.c`, `smartport.c`, `crsf.c` | |
| `Flashfs` | `io/flashfs.c`, `drivers/flash_m25p16.c` | |
| `Blackbox` | `blackbox/blackbox.c`, `msp/msp.c` | `Flashfs` |
| `LogVolume` | none: what the volume promises | implemented by `Blackbox` |
| `MC...` | | instances: the sets the `.cfg` files name |
| `..._proofs` | | the theorems, section 4 |

### `Dispatch`
The list is a sequence; `inQue` the set of flagged entries. `dispatchAdd` finds its place as the code's
walk does (`LinksAt`: past every entry due strictly earlier). The drain loop is split at each turn
(`processStart`, `processNext`, `handlerDone`, `processEnd`), with `dispatchAdd` possible whenever a handler is
running. `cmp32` compares in a word of `Word` values, and every value of the clock is an initial one, so
the wrap is crossed from everywhere. `Tick` lets time pass as long as no due entry has waited longer than
`MaxLate`, which stands for TASK_DISPATCH being run at 1 kHz.

### `Failsafe` and `FlightSafety`
`Failsafe` has the handlers of `flight/failsafe.c`: the link monitor (`ValidDataReceived`, `ValidDataFailed`,
`SuspendResume`, `ResetState`), the head of `failsafeUpdateState()` (`failsafeTick`) and one action per branch of
its switch. The function is a do/while loop, and a turn of it is a step; `loop` keeps every other action of
`FlightSafety` out until the function returns. One unit of time is one call (10 ms); a time stamp is kept as
a distance from now and stops counting when it is past every value it is compared with.

`FlightSafety` adds what shares that state: `rxFrameCheck`, the three stages of the RX task (`processRx`,
`processRxModes`, `updateArmingStatus`), MSP disarming, and the two ways the configuration is written
(`writeEEPROM` stalls; `writeReadEeprom` also calls `failsafeReset()` through `activateConfig()`). The arming
wiggle, the satellite count, the sticks' hands-on test and which backup frame is fresh are free choices, and so are
the modes of the switches and the re-arm grace, which `RcModes` computes.

### `RcModes`
`RxTask` is `processRxModes()` in its order: the arm switch is looked at with the modes of the previous run
(`processRcStickPositions`, `tryArm`), the in-flight latch and the eligibility for a grace follow, and only then
are the modes computed from the channels that came in. `updateArmingStatus` is also a step of its own (the last
invocation of the RX task), and `disarm` is one for everyone else who disarms. The table of conditions is the
constant; `Pass` is one pass of `updateMasksForMac()` over it, a recursive function whose every turn is `IsActive`, and
`ModesMatch` compares what comes out with a direct reading of what the conditions mean. It says so of modes that are
`Plain`: a link to a mode that is linked itself sees what the second pass has found by then. `validateAndFixConfig()`
removes such links at boot (`config/config.c:382`), all but some: a removal moves the entries after it up, and its loop goes on past the one moved into the gap. The attitude check is left out of `Blocked`; it is skipped in
the grace exactly where the throttle check is. Only `armSwitchDisabled` of the sticky flags is kept.

### `RxTrial`
One port at a time, the main receiver's or a backup's: `setup` says which, how it is configured and which wirings
carry the signal. `Start`, `Poll` and `Stop` are the MSP commands; `rxFrameCheck` lets time pass, takes a frame or
not, ticks the trial and runs the baud hunt beneath it. A combo is the set of the wiring bits that are on; the order in
which the code tries the eight is its selection by distance from the configured one (`Before`, `NextCombo`).
`leftover` is a frame the provider had completed before the port was opened again, and `signal` with `sinceFrame`
the flag that outlives the port: the two ways a combo could be credited with another's frame.
The receiver switches on and off, with another speed if it has two.

### `ConfigStore`
A save is a sequence of words, header, one record per parameter group, and a footer whose checksum is modelled as
what it was computed over; `hash` is likewise the value it was computed from. Between two words only a failing
word and a power loss come, since a save stalls the processor. A failing word sets `err`, the remaining words of the
attempt are skipped (`config_streamer.c:360`), and the save is tried again up to three times. A page is erased by the
first word written to it. `Boot` is the part of `fc/init.c` that loads, resets, saves and resets the processor;
`Update` flashes other firmware, with other versions of some groups. `Adjust` and `Disarm` with
`dispatchConfigWrite` are the delayed save, `MspSave` with `writeReadEeprom` the client's.

### `MspTelemetry`
`handleMspFrame` is one operator on a record of the statics of `msp_shared.c`, and so is `Send`; the two transports
use them as the code does: `poll`, `pollWithChunk` and `repeat` for S.Port, the interrupt's `bufferCrsfMspFrame` and the task's
`handleCrsfMspFrameBuffer` for CRSF. The client and the link are external: chunks of a request carry consecutive
sequence numbers that continue from one request to the next, a *patient* client waits for its answer or asks
the same again, another one abandons requests. A patient client asks again in two ways: `retry`, when nothing is
under way any more, and `repeat`, over S.Port, when the board has yet to answer: a request of one chunk comes
again, with a poll that is skipped or with one that is not. On a calm link it repeats only while polls are skipped: a client whose
every repeat of a save comes just after the silence begins the silence again each time and is never answered. A repeat that crosses
its answer on the way is left out: a reply names the command and not the request, so a client cannot tell the second answer
from one to the next request of the same command. A chunk is known by its request and part, a unit of a
reply by the request it answers, so that parts put together wrongly show. The task takes one frame of the buffer
per step, and the interrupt may add frames between two of them; `handled` is the code's `pos`. The last frame, the emptying of the
buffer and the begin of the reply are one step: a frame that arrives between these counts as lost.

### `Flashfs` and `Blackbox`
`Flashfs` keeps the ring as the number of bytes in it, modulo its size as the C indices are, and the chip as
the set of pages that do not look erased, since that is all `flashfsIsPageErased()` can tell. A page program is
a step that starts a transfer, the callback that ends it (`flashfsWriteCallback`) and the chip's own end
(`ProgramDone`). Erases begin in `flashfsEraseAsync` and end in `EraseDone`, or are suspended. The blocking
flush is four steps during which only the chip moves. `flashfsInit` finds head and tail again from what a
reset left in the chip, where a page being programmed and a sector being erased may each be done or not.

`Blackbox` is `blackboxUpdate()` with the same order inside: the enabler check, the erase switch, then the state.
`CheckEnabler` and `EraseSwitch` therefore compute the state that the switch statement sees. The header states
that only differ in the lines they send are one, `SEND_HEADER`. What is written is a number of bytes.
`settings` is the chip and the configuration, chosen at the start.

### `LogVolume`
What someone who reads the chip back may rely on, with no ring, head, tail, erase state or logger: the pages that hold
data are one run around the volume; it grows by a page at its end and loses whole sectors at its beginning; a volume
being cleared loses pages in any order until it is empty. `Blackbox` implements it under the mapping
`used <- programmed, clearing <- EraseRuns`, checked as `PROPERTY ImplementsVolume`. A hole in a log, a page written over
one that holds data or out of order, a rolling erase of any but the oldest sector, and a complete erase that reports
its end over a page still written are each a step `LogVolume` does not have.

## 3. Runs

| run | instance | shows | states |
|---|---|---|---|
| `dispatch` | 3 entries, a 12-value clock, delays to 3 | consistent and ordered list, nothing early, every call made | 311 thousand |
| `fs_modes` | GPS rescue with RTH and LOITER switches; AUTO-LAND and DROP with the failsafe switch in 3 modes | the lockout, the nav controller's owner, the motor cut within the budget, stage 2 in time | 4.6 million |
| `fs_writes` | one write or reload, stall of up to 4 ticks, a recovery period of 3, an RX task up to 2 ticks late | re-arming needs the switch, the lockout needs a steady link, the block ends with its phase | 3.8 million |
| `fs_live` | landing and rescue, a backup receiver | the motor is cut for good, the lockout ends, the backup ends the failsafe | 0.9 million |
| `rc_modes` | two tables of conditions, 3 channels, a grace of 3, an armed time that wraps at 6 | the modes asked for, forced modes lapse, the grace only after an interrupted flight, prearm cycled | 145 thousand |
| `rx_trial` | main receiver with two bits wrong, no wiring that works, a stale cached baud; backup port with two speeds; no port | a find was heard, the wiring comes back, every trial ends, a steady receiver is found, the hunt finds the speed | 281 thousand |
| `config_store` | two groups of three values and two versions on a store of two pages | a valid store is the last save, a save saves, the boot ends | 121 thousand |
| `msp_tlm` | four requests, both transports, a patient and an impatient client, 3 sequence numbers, chunks lost both ways, requests repeated in the silence of 2 polls after a save | requests and answers are whole, answers come back | 204 thousand |
| `bb_log` | 4 sectors of 3 pages of 3 bytes, a ring of 5; four settings | implements `LogVolume`, no overwrite, found at boot, nothing erased early, what is in flight is in the ring | 199 thousand |
| `bb_live` | 3 sectors of 3 pages of 2 bytes, a ring of 3, reads by MSP | the ring drains, an erase begins, a blocking flush returns | 29 thousand |
| `rx_trial_stop`, `config_boot` | | a disagreement each, section 5: counterexamples | |

**Bounds.**
*Failsafe.* Periods are 1 to 3 ticks instead of 100 and more: the code only compares them with
elapsed time, and `fs_writes` takes them long enough for the throttle, glide and recovery timers to overlap.
`MaxRxLag = 1`: the RX task finishes a round within one tick or is one tick late; the real bound is about
30 ms against stage-1 and recovery periods of 200 ms at least (`flight/failsafe.c:80`). It is 2 in `fs_writes`, where with a lag of
one no write could cut a lockout short of a round. `MaxRxLag < RxDataRecoveryPeriod` is an assumption of the module. `DisarmDebounce = 1` stands for 3. `MaxSaves` bounds the
configuration writes: one write in each place is what the properties can tell apart from none.
*Modes.* `HalfRange = 3` lets the armed time pass 2^31 µs and wrap with a grace in progress; the two tables have
an OR condition after an AND one, two AND conditions, a link before and a link after the mode it follows, and
the switches of an arming. `DisarmTicks = 1` stands for 3.
*Trial.* The timings keep the order of the real ones: signal hold < debounce < settle < watchdog, and a baud hunt
of both speeds within the settle time (`HuntWindow + MaxStep <= Settle`, an assumption of the module; the real ones are 150 ms
and at least 1 s); a frame check comes every one or two quanta.
*Store.* The second page begins with the second group, so that a store can be half of one save and half of
another; every word can fail in each of the three attempts.
*Telemetry.* `SeqCount = 3` makes the numbers wrap within two requests; a link loses at most one chunk in a row while it is
bad, fewer than it takes for the numbers to come round (`MaxLost <= SeqCount - 2`; 15 in a row with the real mask of
four bits). A request too big for the buffer is of two chunks. With `Skips = 2` a repeat comes before, between and
after the polls that are skipped; a board that heard it in the silence would begin the silence again.
*Log.* Nine pages and more give a volume that wraps, a log that crosses the end, a rolling erase while it does, and a head
in every sector. `PageSize` does not divide the ring in `bb_log` (3 and 5), so that pages are completed by
parts of the ring and the ring wraps within a page. Writes of up to `MaxWrite` bytes fill the ring.
The grace period and the shutdown timeout are counted in updates.
In every instance the ring and a page together are smaller than a sector (`FlashfsAssumption`), as on every
target (4 KiB and more against 512 bytes of ring and a page of 256 bytes).

**Environment constants of `Blackbox`.** `PromptDma`: no shutdown times out with a transfer in flight; a transfer takes
tens of microseconds and the timeout is 200 ms. `CrashInErase`: whether the power may be lost in the middle of
a complete erase; at every other moment it always may. `MspReads`: whether the volume is read over MSP while
the logger runs. `erases`, in a setting: whether the pilot erases the volume. Each is off in a run only where
section 5 says what happens when it is on.

**Exceptions named in properties.** `RestoredAfterTrial` is about trials begun from rest (`undisturbed`), `BootEnds` excepts
a store of stale defaults, `SaveIsStored` a configuration equal to the one loaded, `BlockEndsWithFailsafe` a configuration read
back, `RequestIsWhole` and `AnswersComeBack` a request that was too big, `LockoutNeedsSteadyLink` and `RearmNeedsSwitchCycle` a
configuration written since the failsafe disarmed (`stalled`), `ModesMatch` a link to a linked mode. Section 5 has the
behaviour behind each; for the request too big: its START is answered with an error and leaves the parts
of the request before it, and its second chunk ends that answer.

**Fairness.** `Dispatch`: weak fairness of the loop's steps and of time. `FlightSafety`: weak fairness of the
frame check, of the RX task and of the failsafe's tick and turns: the scheduler calls the first in its own
loop and ages every waiting task until it runs. `RxTrial`: weak fairness of the frame check alone. `ConfigStore`: weak
fairness of the processor (power-up, boot, the next word, the end of an attempt) and of the two dispatched saves; `BootEnds` is
about a board that stays on and a flash that fails only so often. `MspTelemetry`: weak fairness of being served (a poll clear to
answer, or the telemetry task), of the client's chunks and of `retry`, not of `repeat`; `AnswersComeBack` is about a link that becomes calm.
None anywhere for the pilot, for MSP commands, for configuration writes or for failures.
`Blackbox`: strong fairness of the flush, of the main task and of the update that begins an erase, because
a blocking flush holds the processor for a while again and again and the scheduler still gives each its turn in between;
weak fairness of the chip and of a blocking flush in progress. Updates that depend on a switch are not fair.

**Liveness is conditional where the code makes it so.** `LinkLossCutsMotor` assumes that every link stays down;
`LockoutEnds` that the link is good from some moment on; `BackupEndsFailsafe` excludes a running GPS rescue, which
waits for the pilot's hands; `LinkIsFound` is about a receiver that keeps sending, outside of a trial, disarmed.

## 4. Proofs

All by TLAPS, for every value of the constants that satisfies the named assumption of its module (`DispatchAssumption`,
`FailsafeAssumption`, `FlightSafetyAssumption`, `FlashfsAssumption`, `BlackboxAssumption`, `RxTrialAssumption`, `ConfigAssumption`,
`RcModesAssumption`, `MspTelemetryAssumption`), which TLC evaluates in each run.

| module | theorem | establishes |
|---|---|---|
| `Dispatch_proofs` | `IInvHolds`, `TypeCorrect` | the inductive invariant below, the types |
| | `LinkedOnceHolds` | the flags are the entries linked, none twice |
| | `OrderTheorem` | the list is ordered by deadline across every wrap of the clock |
| | `NeverEarlyTheorem` | no handler runs before its delay is over |
| `FlightSafety_proofs` | `FailsafeInvHolds`, `TypeCorrect` | the inductive invariant below, the types |
| | `LockoutTheorem` | a failsafe that waits for the link keeps the motor disarmed and the block set |
| | `BlockTheorem` | without a reload, the block and `active` end with their phase |
| | `RescueTheorem`, `NavTheorem` | a running rescue keeps RTH mode and the nav target; the controller runs for a mode that is on |
| | `TimedInvHolds` | the inductive invariant of the timers below |
| | `StageTwoTheorem` | an armed motor without valid data for longer than stage 1 is in the hands of stage 2 |
| | `MotorCutTheorem` | `OffDelay + 2` ticks in a row without a link end with the motor disarmed |
| | `SteadyLinkTheorem` | without a write, a lockout ends only after a whole recovery period of good link |
| | `RearmTheorem` | without a write, nothing arms after a failsafe disarm before the switch was off |
| `RxTrial_proofs` | `IInvHolds`, `TypeCorrect` | the inductive invariant below, the types |
| | `SuccessTheorem` | a find was heard on the wiring it is a find of |
| | `RestoredTheorem` | a trial without a find puts the configuration back |
| | `SteadyReceiverTheorem` | a trial fails with the receiver on from beginning to end only if no wiring carries the signal |
| `ConfigStore_proofs` | `IInvHolds`, `TypeCorrect` | the inductive invariant below, the types |
| | `ValidTheorem` | a valid store is the last completed save |
| | `QuietTheorem` | the store is not touched in flight |
| | `SaveInvHolds`, `SaveTheorem` | a save that returns has stored the configuration in memory, or it is the one loaded |
| `RcModes_proofs` | `IInvHolds` | the inductive invariant below |
| | `GroundRearmTheorem`, `PrearmTheorem`, `ForcedModesTheorem` | the three action properties of the run |
| | `TypeTheorem` | the types, which need the passes over the table to end with modes there are |
| | `ModesTheorem` | for every table, of any length and in any order, the modes are the ones its conditions ask for |
| `MspTelemetry_proofs` | `IInvHolds`, `TypeTheorem` | the inductive invariant below, the types |
| | `RequestTheorem` | the board acts on whole requests only |
| | `AnswerTheorem` | a client takes whole answers only, and a patient one only its own |
| `Flashfs_proofs` | 32 lemmas | the geometry of the ring, the circle and its sectors; what the boot's two scans find |
| `Blackbox_proofs` | `InFlightTheorem` | under `PromptDma` and `~MspReads`: a transfer in flight is of bytes still in the ring |
| | `TypeTheorem` | the types, whatever the environment: no address leaves the volume |
| | `BoardTheorem` | under `Board`: the inductive invariant below |
| | `NoOverwriteTheorem` | under `Board`: no transfer to a page that holds data, or into a sector being erased |
| | `BootTheorem` | under `Board`: a boot finds head and tail of a volume at rest |
| | `RollingEraseTheorem` | under `Board`: a rolling erase runs only where another sector would not fit |
| | `VolumeTheorem` | under `Board`: the flash implements `LogVolume` |

*The dispatcher.* `IInv` is the types, `LinkedOnce`, `InWindow` (every deadline is within `MaxDelay` ahead of and `MaxLate` behind
the clock) and `OrderedByDeadline`. `InWindow` is what makes the signed difference of two stamps behave as a number:
`CmpCases`, `CmpFlip` and `CmpAdd` are the lemmas on `cmp32` that hold for differences below half the word, and
`EnqueueOrders` uses them to show that the walk inserts between an entry due no later and one due later.

*The failsafe.* The properties hold between two calls of `failsafeUpdateState()`; in the middle of the loop
they do not (`LANDED` is active with no block set yet; `RX_LOSS_RECOVERED` has cleared nothing yet). `FailsafeInv`
says what does hold at every turn: `ActiveInStageTwo` and `LockedOut` by phase, `RescueFlies` and `NavNeedsMode`
for the controller, `NothingLeftOver` for what must be gone, and `RestsBetweenCalls`, which names the four
phases in which the loop can end. Inside the loop only the failsafe moves, and `LoopKeepsInv` goes through
its branches. Outside it `phase` is fixed, and `OutsideLoop` reduces every other action to what it does to
arming, the block, the mode flags and the nav target: `ModesKeepInv` then needs only that `processRxModes()` defers
to an active `GPS_RESCUE`, `SticksKeepBlock` that `tryArm()` looks at the flags, and `UpdatedFlagsKeepBlock` that
`updateArmingStatus()` never touches the failsafe's own. `TypeCorrect` is split in flags, modes and timers, each
with its own step per action.

*The timers.* The properties that say how long something takes rest on sums that no step lowers. `TimedInv` has four parts.
`SamplesFresh`: inside the loop what was sampled before it is still of this tick. `MotorInv`: stage 2 begins with the
first tick without a link (`StageTwoAtOnce`), and then the ticks without a link and what is left of the glide add
up to the budget (`GlideBudget`). `SteadyLink`: in a lockout the ticks with a link and the rest of the recovery period
add up to at least the period, so that it can only run out after that many in a row. `SwitchLatched`: while the switch has been
on since the disarm, `ARM_SWITCH` is set, or no round of the RX task has ended yet and what is left of the lockout is more than the task can
be late (`MaxRxLag < RxDataRecoveryPeriod`). A configuration write breaks the last two sums, since it ages the timers and
not the tasks. The attempt to prove `RearmNeedsSwitchCycle` without that exception failed at this step, and TLC found the run of it (section 5).

*The trial.* `SuccessIsHeard` is not inductive: the debounce counts a signal that may be older than the combo. `OldSignalAges`
closes it: while nothing was heard since the port was opened, the signal that is still up is that of the port
before and is already as old as the debounce has counted, so that it runs out (`Hold < Debounce`) before the debounce does.
`SavedIsSetup` says that a running trial has saved the configuration of the boot. That a next combo exists
whenever one is untried (`NextComboExists`) is a minimum over a rank in the naturals.
`SteadyReceiverIsFound` has an invariant of its own, `SearchInv`: the wirings tried before do not carry the signal
(`TriedInVain`), and on one that does the hunt is at the receiver's speed or in its first window since the combo began
(`HuntKeepsUp`), so that a combo is not given up before it was heard. `AllTried` is that no combo is left out: the trial
ends when none is untried.

*The store.* `FooterIsStored` is the key: the word at `Last` is written only by an attempt whose every earlier word
succeeded, so its checksum is over the configuration that `stored` remembers; whatever is written or erased later,
the store can only be valid if its records are the ones the footer was computed from. Which pages are erased when is irrelevant
to it, and so the theorem holds for every `PageStart`. `Grounded` says that no save is under way in flight.
`SaveInv` adds `WrittenIsStored`, that an attempt past its checksum without an error left the configuration in `stored`, and
`SystemKept`, that a configuration loaded as the user's is never marked as defaults again outside the boot: a delayed save can then
only be skipped with the configuration that was loaded.

*Re-arming and modes.* Each of the three properties is about a window of time the code keeps as a counter, and the invariant relates
the counter to the history it stands for: `GraceSinceFlight` (grace left and time since the disarm of a flight add up to
`GraceSeconds`), `OverrideBounded` (time left and time since forced are at most the longest timeout), `PrearmHeld` (the sticky flag
stands for the switch until it has been seen off), with `EligibleInFlight`. The wrap of the armed time needs no fact: it can only take the grace away.
`ModesMatch` is about a recursive function. `RunExists` shows, for a table of any length, that there is a function with the turns of `Pass`, and `PassRuns`
that `Pass` is it; the bits a mode has in the masks after each entry `Shows` what the entries up to there ask for, and
`PassShows` carries that to the end. Both are inductions over the table, in the form `Induction` gives them: a set with 0 in it that has
the successor of each of its numbers holds every number.

*MSP over telemetry.* Requests. `InOrder` is a chain from the statics of `msp_shared.c` through the frames in the buffer to the
client: of two neighbours with consecutive numbers the second is a START or the part after the first (`Follower`), and the last that arrived
is `lostUp + 1` behind the client's next number (`GoesOn`). A chunk is accepted for its number alone; with
`MaxLost <= SeqCount - 2` that number is the successor only if nothing was lost in between, and the
chain gives the part. Answers. `Heard` is the same link from the board's `replySeq` to what the client has, and with it
`InStep` holds: what the client has and what is left to send are one reply, cut in two. For a patient client `Turns`, `Answering` and `OnlyTheRest`
say whose turn it is: once its request is served, nothing of another one is in the buffer or being put together, and so the reply it hears is its own;
`Sends` has the two chunks a client may send, the next one or a whole request again.

*The ring.* `InFlightIsBuffered` needs `RingInv`: the ring is within its bounds, `dataWritten` is true exactly when
nothing is in flight (`OneTransfer`), the ring is empty while the volume is erased (`EmptyWhileErasing`, because
`ERASED` closes it without a flush), and no one waits in `flashfsFlushSync()`; a cache flush can only lead back into the header
or the running log (`HeaderNext`). `PromptDma` and `~MspReads` are real preconditions: a shutdown
that times out with a transfer in flight and a read by MSP of a volume being logged to are the two ways the
accounting breaks (section 5).

*The volume.* None of the four properties is inductive: each depends on what the chip holds being what `headAddress` and
`tailAddress` say. `BoardInv` adds `VolumeInv` to the types, the ring and the logger. `LogIsRun`: the programmed pages are the run of
`Used` pages from the head, less a last page that is in transfer, plus the sector an initial erase is at (`HeadAhead`: it moves
the head first), minus the one a rolling erase has done (`HeadBehind`: it moves the head last). `SpaceLeft`: the page before the head is free,
so that a full volume and an empty one differ. `WritesAtTail`: a transfer goes to the tail and ends within its page.
`SuspendInv` and `EraseInv`: which sector is being erased, or suspended, in each state of the file system, and that a
rolling erase begins only when it must. `CompleteErase`: which sectors are done.
TLC has checked the invariant on the instance of `bb_log`.
A power loss in transfer or in an erase leaves a run again, in each of the ways it can end (`WhatIsProgrammed`, `WhatIsLeft`). The boot finds the
beginning of a run (`FoundHead`) and its end (`FoundTail`): the binary search is a function over pairs of bounds, and the proof is an induction on their
distance, in the form of a set of numbers (`NatInductionOnSets`).
With the invariant, each step is a step of `LogVolume` or leaves the pages alone (`Shows`, `StepsOfVolume`): a page program that
ends adds the next page, an erase that ends takes the first sector.
`Board` names what the volume relies on. `PromptDma`, `~MspReads` and `~CrashInErase`, no initial erase beyond the volume less one sector, and no erase asked for
where a suspended one may be in the way: without each there is a behaviour that breaks the invariant (section 5). `Sectors > 2` holds of every chip
in the table of `drivers/flash_m25p16.c` (32 and more). The instance of `bb_log` satisfies all of it.

*Only model-checked.* All liveness, since fairness is out of the prover's reach: `RingDrains`, `EraseBegins`, `SyncReturns`, `LinkLossCutsMotor` and the
others of the runs `fs_live`, `dispatch`, `rx_trial`, `config_store` and `msp_tlm`. Every safety property a run checks has a theorem.

## 5. Disagreements

Two are runs with a counterexample; `PROJECT.json` quotes both sides.

- `rx_trial_stop`: stopping a trial of the main receiver whose start was rejected writes wiring that was never saved, also in flight.
- `config_boot`: a store that holds bare defaults of other firmware, one group of which has another version, is never
  rewritten, and the board resets in its boot for ever.

The models show the following ones as well, when the property or the environment named here is added to an instance; no run is kept for them.

*Failsafe and arming*
- *A stuck block.* A configuration read back during the lockout resets the phase and not the block (`config/config.c:175`): arming stays
  blocked until a reboot. `BlockEndsWithFailsafe` without its `reloaded` fails.
- *An unbounded rescue.* With the link back and the sticks untouched a GPS rescue is not bounded by `failsafe_off_delay`
  (`flight/failsafe.c:396`).
- *A backup receiver and the arm switch.* With a backup receiver in control the arm switch is not obeyed (`fc/rc_controls.c:151`).
- *Early re-arming.* `[][~armed /\ armed' /\ wasEverArmed => rxLinkState = "UP"]_vars` fails: the first valid frame clears
  the stage-1 block (`flight/failsafe.c:180`), though `failsafe_recovery_delay` is "how long a recovered RX link must
  stay good before re-arming is allowed" (`src/Changes.md:1896`).
- *A write ends the lockout.* `LockoutNeedsSteadyLink` without `~stalled` fails: `failsafeOnRxResume()` (`:171`) declares
  the link up on a sample from before the stall. `RearmNeedsSwitchCycle` without `stalled` fails from `MaxRxLag = 2` on: the
  stall ends the lockout before a round of the RX task has latched the arm switch, and the motor is armed with
  the switch still on from before the link was lost.
- *Arming into a rescue.* `[][~armed /\ armed' => flightMode \cap {"RTH", "LOITER"} = {}]_vars` fails: `fc/core.c:389`
  tests the switches, not the modes; MSP disarms in the middle of a rescue and lets arm again.
- *The arm switch in a rescue.* It is ignored while `failsafeIsActive()` (`fc/rc_controls.c:151`); the comments at
  `flight/failsafe.c:388` and `:406` speak of a manual disarm.
- *No grace after a long flight.* The armed time is a signed 32-bit difference (`fc/core.c:219`): between 2^31 and 2^32 µs of flight it is
  negative and no grace is granted, though one is promised "after the aircraft has been armed for the minimum time" (`src/Changes.md:1082`).

*Receiver trial*
- *Starting over a find.* A trial begun while the state is SUCCESS, not saved, saves the candidate as the wiring to restore:
  the configured one is gone (`rx/rx.c:382`). `RestoredAfterTrial` without `undisturbed` fails.

*Configuration*
- *A change and a change back are lost.* `hash` is only set by a load. A delayed save stores a change and leaves the hash; after
  the change is undone no group differs from its hash, and the next delayed save writes nothing (`config/config_eeprom.c:407`,
  `fc/core.c:560`: "let the disarming process complete and then execute the actual save").
- *A queued save is dropped.* An MSP save through a receiver on SPI is answered, queued, and dropped if the model is armed by the time
  it is run (`msp/msp.c:412`).

*Telemetry*
- *A reply to the wrong end.* A CRSF reply goes to the origin of the latest frame (`rx/crsf.c:412`, `telemetry/crsf.c:271`), though "MSP frame must be
  returned to the origin address of the request" (`telemetry/msp_shared.c:72`).

*Log*
- *A read while logging* (`MspReads`): `flashfsFlushSync()` programs again what a transfer in flight has already taken, and the ring's tail
  passes its head (`io/flashfs.c:498`).
- *A read with an erase suspended*: the blocking flush never returns when a rolling erase is suspended and the ring is half full (`:306`).
- *A crash in a complete erase* (`CrashInErase`) leaves a log in two pieces; the boot finds one (`:742`), and the next log is written into the other.
- *A suspend that comes too late.* An erase that ends before the chip has taken the suspend leaves
  `ROLLING_ERASE_SUSPENDING` for ever (`:547`).
- *Erase over a suspended erase.* `flashfsIsReady()` is true while an erase is suspended (`:203`); the chip takes
  none of the sector erases that follow, and `ERASED` is reported over the old log.
- *Shutdown timeout with a transfer in flight* (`PromptDma = FALSE`): the ring is emptied under it (`blackbox/blackbox.c:2277`).
- *Initial erase larger than the volume less one sector* moves the head past the tail (`io/flashfs.c:798`).
- *An erase switch held while disarmed* erases over and over: `blackboxCheckEnabler()` moves `ERASED` to
  `SHUTTING_DOWN` (`blackbox/blackbox.c:1274`).

## 6. Not modelled

- Numerical code: mixing, control loops, filters, attitude, GPS guidance. TLC has no reals, and the properties of
  that code are numerical.
- Text and frames: CLI, sensor telemetry, receiver protocols, what a log frame holds.
- Hardware access, driver set-up, output (beeper, LEDs, dashboard).
- The scheduler's queue, ages and guard times: whether a task starves is a matter of measured durations, and a model that chooses them freely
  starves any task. Its fairness is an assumption of the liveness runs.
- In the modelled parts: stick arming and stick commands, an MSP receiver; several backup ports at once; stores on an external flash, an SD card
  or in RAM; the validation of configuration values; NAND chips and their page cache, `flashfsEraseRange()`, the serial and SD card
  devices of the logger. A sector erase cut off by a power loss either happened or did not; a page program likewise.
- `FlightSafety` and `RcModes` are not composed: the first takes the modes of the switches, and after the first arming the re-arm grace, as free
  choices, so that what it shows holds for whatever the second computes.
