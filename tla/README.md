# TLA+ models of the mousetrap firmware

This directory holds TLA+ specifications of the firmware under `src/`, plus the
TLC configurations that check them. `PROJECT.json` lists the components, the
runs, the mutants, the mapping from every definition to source lines, the
findings and the hazards.

## The system

The repository has two ESP32 sketches.

- **Scout** (`src/scout_arduino/`) is a camera node.
  - `motion_detect.h` holds the motion detection engine. A capture loop calls
    `MotionDetector::detect()` once per frame.
  - Grayscale frames are compared block by block with a stored baseline.
  - JPEG frames go through a size heuristic, `detectFromJpegSize()`. It keeps a
    ring of the last five encoded sizes in function-local statics.
  - A cooldown (`lastDetectionTime`, `cooldownMs`) suppresses calls after an
    accepted detection.
  - `setConfig()` and `reset()` are called between frames.
  - `camera_pins.h` holds pin constants.
- **Mousetrap** (`src/mousetrap_arduino/`) is a trap controller. Its debug
  instrumentation is called from several FreeRTOS tasks:
  - `debug_framebuffer.h` counts camera framebuffers taken and returned, under
    a mutex.
  - `debug_tasks.h` registers tasks and periodically measures their stack
    high-water marks.
  - `debug_i2c.h` counts sensor transactions and judges sensor health.
  - `debug_crashkit.h` and `debug_context.h` keep a crash context (with a
    ring of breadcrumbs) and a ring of context snapshots in RTC memory. The
    code assumes it survives resets but not power loss, and reads both back
    after a reset. Both are `RTC_DATA_ATTR`, which ESP-IDF reloads from
    flash on every reset except a wake from deep sleep. After a panic or
    watchdog reset they may therefore come back zeroed. The models follow
    the code's assumption, which the repository cannot settle.
  - `servo_optional.h` wraps a servo behind a volatile `disableServo` flag.
  - `debug_dashboard.h` serves a debug page and a JSON API
    (`/api/debug-stats`) with the heap, connectivity and the sketch's crash
    stamp `g_crashStamp`. The page's script polls the API every 5 s and can
    export the last answer as a report.
  - `tof_autodetect.h` and `StringLiteralPlus.h` are small helpers.

The components interact only through their callers. The debug modules are
independent of one another. The dashboard reads none of their state, only
the ESP32's heap and connectivity and the sketch's crash stamp. What they
do share is the device: a reset or a power loss strikes every store at once.

## Modules

| module | models | state | actions |
|---|---|---|---|
| `BlockDiff` | the block comparison of `detect()`, lines 110-142, as pure operators | — | `CompareBlocks` (a RECURSIVE loop over the row-major scan) and reference definitions `ChangedSet`, `SpecChangedSet`, `BoundingBox` |
| `MCBlockDiff` | the bounded inputs for `BlockDiff` | one input record | each step changes one pixel, the baseline, the block size, the threshold or the dimensions |
| `MotionDetector` | the `MotionDetector` class | `config`, `prevFrame`, `prevWidth`, `prevHeight`, `lastDetectionTime`; the JPEG statics `prevJpegSize`, `jpegSizeHistory`, `historyIdx`; `millis()` as `now`; the last `result` | one action per branch of `detect()`: `DetectInvalid`, `DetectCooldown`, `DetectJpeg`, `DetectUnsupported`, `DetectFirstFrame` (with `AllocatePrevFrame`), `DetectCompare`, `DetectPanic`; plus `SetConfig`, `Reset`, `Tick` |
| `MCMotionDetector` | the frames and configurations | — | — |
| `FramebufferDebug` | `debug_framebuffer.h` with the camera driver around it | `g_fb_stats`, `millis()`, each task's position in its get / record / use / release / return cycle | `FbGet` (driver), `Allocated`, `Released`, `FbReturn` (driver), `Reset`, `Tick`; `IsStale` and `LeakDetected` are the verdicts of `CheckStale` and `PrintStats` |
| `ContextRing` | `debug_context.h` | `g_context_buf` (magic as `valid`, slots, `snapshot_index`, `snapshot_count`), whether `g_context_mutex` exists in this boot | `ContextInit`, `TakeSnapshot`, `Clear`, `Reboot`, `PowerLoss`; the readers `Printed`, `Summary`, `Latest`, `MemoryDrop` |
| `CrashKit` | `debug_crashkit.h` | `g_crash_ctx` (magic as `valid`, breadcrumb ring, component statuses, `crash_count`), whether `g_crash_mutex` exists | `CrashKitInit`, `AddBreadcrumb`, `SetComponent`, `Clear`, `Reboot`, `PowerLoss`; the reader `PrintedTrail` |
| `RtcDebug` / `MCRtcDebug` | both RTC stores on one device | the variables of both, `boots` | each store's own steps, and `Reset` and `PowerCycle`, which strike both stores in one step |
| `CooldownGate` | what the cooldown promises, in real time | `elapsed` since the last acceptance (or `Never`), the configured `cooldown`, an acceptance `parity` | `Accept` (only when the gate is open), `Advance`, `Reconfigure`, `Forget`; weak fairness of `Advance` while the gate is closed |
| `PersistentLog` | what an RTC store promises its reader | the `log` shown, oldest first, and whether the store is `open` in this boot | `Open`, `Add` (dropping the oldest entry of a full log), `Clear`, `Crash` (a reset keeps the log), `Lose` (a power loss empties it) |
| `SafeServo` / `MCSafeServo` | `servo_optional.h` | `disableServo`, `_attached`, whether `SERVO_PIN` is driven or Hi-Z, whether the trap task is inside `write()`, the ghost `seen` | `Attach`, `Detach`, `WriteCheck` (the `disableServo` and `_attached` tests), `WritePulse` (the inner write), `SetDisable` (another task); the reader `Attached` |
| `I2CHealth` | `debug_i2c.h` | per sensor: total and successful transactions, failure streak, `bus_healthy`, `last_success_ms`, whether the stored rate is below 50%; whether `g_i2c_mutex` exists; each client's position; `millis()`; the ghost `outcomes` | `I2CInit`, `TransactionStart`, `TransactionEnd`, `CheckHealth`, `Reset` (one sensor or all), `Tick` |
| `TrapHardware` / `MCTrapHardware` | the servo wrapper and the I2C tracker on one device | the variables of both, `boots` | each driver's own steps, and `DeviceReset`, which loses the RAM of both |
| `Dashboard` / `MCDashboard` | `debug_dashboard.h`: `handleDebugStatsAPI` and the page's script | the device's statistics (a version) and crash stamp; whether the page is loaded, the function the name `updateDashboard` is bound to, the function the 5 s interval calls, the fetches in flight and their answers, the document shown, `latestData`, `countdown`, the outcome of the last Export | `OpenPage` (the script, top to bottom), `Refresh` (the interval), `Serve` (the handler), `Deliver` (the `.then`), `Fail` (the `.catch`), `Tick`, `ExportData`; the device's `StatsChange` |
| `TaskMonitor` | `debug_tasks.h` | `g_task_stats`, `g_task_count`, each registration call's position and result, the monitor's last verdict; the kernel's high-water mark of each task (`hwm`) | `RegisterCheck` (the bound test, outside the mutex), `RegisterWrite` (under the mutex, with the name as `strncpy` stores it), `Monitor`; the kernel's `StackUse`, which lowers a task's high-water mark; the lookups by name `FindSlot` (`GetStats`) and `IsAlive` |

### How the models correspond to the code

- **Frames are identifiers.** The previous-frame buffer is represented by the
  identifier of the frame last copied into it, since every `memcpy` copies a
  whole frame of the stored dimensions. The MC module gives each frame its
  dimensions and pixel buffer, or its JPEG length.
- **Widths that can overflow keep their width.**
  - `pixelsInBlock` is computed `% 2^16`.
  - `avgDiff` is computed `% 2^8`.
  - `millis()` is a counter modulo `ClockMod`, so the cooldown test
    `(now - lastDetectionTime) % ClockMod < cooldownMs` has the unsigned-wrap
    behaviour of line 80.
- **Floats become exact integer comparisons.** `sizePercent` and the JPEG
  `sizeDiff` are replaced by exact comparisons (`area*100 < min*total`,
  `|len-avg|*100 > p*avg`). `confidence` feeds no decision and is left out.
- **Division by zero reboots the device.** A division by zero (blockSize 0, or
  a blockSize whose square wraps to 0) raises an exception on the ESP32 and
  reboots it. `DetectPanic` models this as a return to the boot state.
- **Debug calls are atomic.** Every debug function that runs under its mutex is
  one atomic step. Work done before the mutex is taken is a separate step.
  - The driver calls `esp_camera_fb_get` and `esp_camera_fb_return` are steps of
    their own. `fb_get` may return NULL.
  - The kernel's high-water mark of each task is a variable that only falls
    (`StackUse`), at any time. `debugTasksMonitor()` reads it for each slot's
    handle, in units of `HwmUnit` bytes.
- **RTC memory.** A reset keeps the RTC buffers and loses the RAM mutex, so a
  store is unusable until its `Init` runs again in the new boot. A power loss
  also invalidates the magic number, so the next `Init` zeroes the store. A
  snapshot is its `free_heap_bytes`, and a breadcrumb is its function name.
- **Ghost variables record history.** `lastStep`, `sinceAccept`,
  `acceptParity`, `jpegSinceReset`, `panics`, `ret`, `overrun`,
  the servo's `seen` and `late`, and the I2C `outcomes` are history
  the properties need. The code does not keep them.
- **Refinement of the cooldown.** `MotionDetector` instantiates `CooldownGate`
  with `elapsed <- sinceAccept`, `cooldown <- config.cooldownMs` and
  `parity <- acceptParity`; `CooldownRefinement` is that instance's `Spec`,
  checked as a temporal property. The parity bit makes two acceptances in the
  same millisecond two abstract steps; without it the second one would look
  like a stutter.
- **Refinement of the RTC stores.** `ContextRing` and `CrashKit` each
  instantiate `PersistentLog` with their printout as `log` (`Printed`,
  `PrintedTrail`) and their mutex as `open`. `SnapshotLogRefinement` and
  `TrailLogRefinement` check that every step of a store is a step of the log
  or leaves the printout unchanged. The summary, `GetLatest` and
  `DetectMemoryDrop` are then checked against the printout, so no ghost
  history is needed.
- **The servo wrapper.** One trap task calls `trapServo`; `disableServo` is
  changed by another task between any two steps, including between the test
  in `write()` and the inner write. `_ch`, `_pin`, angles and pulse widths are
  left out. `SERVO_PWR_EN` is not defined anywhere, so `powerOn()` and
  `powerOff()` do nothing.
- **The I2C tracker.** Each function runs under `g_i2c_mutex` as one step. Each
  sensor has one client task whose transaction may be in flight when `Reset`
  or `debugI2CInit` runs. The stored float rate is kept only as whether it is
  below 50% (`2*ok < total`). The error counters, failure totals, timings,
  address and name are only printed. A device reset loses all of this state,
  constructs `trapServo` again, and reloads `disableServo` from Preferences.

- **The dashboard.** The statistics (heap, uptime, Wi-Fi, ...) are one
  version number that grows as they change, and the JSON document is that
  version with `crash.stamped`. Every fetch is a record with its id, the
  function that sent it, and the document once served. Serving and settling
  happen in any order. A fetch may fail at any time, which covers a lost
  connection, a 401 and a device reboot. The two functions bound to
  `updateDashboard` are named `"original"` (line 375) and `"wrapped"`
  (line 549). Formatting, layout and the report's text are left out.

## Runs

| run | expect | checks | shows |
|---|---|---|---|
| `block_scan` | pass | `ScanMatchesReference` | The loop with running min/max counts exactly the changed full blocks and returns their tight bounding box, for every 3x3 and 4x2 frame with pixel values {0,1,3}, baselines {0,1,3}, block sizes 1 and 2, and thresholds 0-2 (472k states). |
| `gray` | pass | `TypeOK`, `CooldownRefinement`, `SuppressionEnds` | Grayscale detection implements `CooldownGate`: accepted detections are at least the current cooldown apart in real time, across clock wraps, setConfig, reset and allocation failure (18k states). Every cooldown ends while the clock runs. |
| `jpeg` | pass | `TypeOK`, `CooldownRefinement` | The JPEG heuristic implements the same `CooldownGate` (about 0.9M states), and its ring index stays in bounds. This holds across reboots caused by the blockSize-256 panic. |
| `jpeg_reset` | violation | `JpegWarmupAfterReset` | `reset()` leaves the static JPEG history intact. |
| `framebuffer` | pass | `TypeOK`, `OutstandingMatchesHeld` | `current_outstanding` equals the buffers recorded and not yet released. This holds under any interleaving of two tasks, with NULL frames and statistics resets. |
| `tasks` | pass | `TypeOK`, `RegisteredAreTracked`, `CriticalTaskReported` | Sequential registrations beyond capacity are refused, and every accepted task is tracked in bounds. The kernel's high-water mark comes in bytes, as ESP-IDF returns it. Under the periodic monitor, a registered task that has really used 95% of its stack is still eventually flagged and reported, although the x4 conversion misjudges lighter tasks. At exactly 95% this rests on the inclusive 80% test at line 155 (8k states). |
| `rtc` | pass | `TypeOK`, `SummaryIsNewestPrinted`, `LatestIsLastTaken`, `MemoryDropSound`, `SnapshotLogRefinement`, `TrailLogRefinement` | Both RTC stores go through any interleaving of their calls with resets, power losses and `Clear`. Both implement `PersistentLog`: each printout lists the last `MAX` entries oldest first, a reset keeps it, and a power loss or `Clear` empties it. The summary shows the newest entries of that printout, newest first. `GetLatest` returns its last snapshot, and `DetectMemoryDrop` compares its last two (97k states). |
| `hw` | pass | `TypeOK`, `SafeOnceSeenDisabled`, `FailureRunFlagged`, `OnePulseAfterDisable` | The servo wrapper and the I2C tracker run across device resets. Once any servo call has noticed `disableServo`, the pin stays Hi-Z until the flag is cleared. After another task sets the flag, at most one pulse (from the `write()` already past its test) reaches the servo. Five failures in a row mark a sensor unhealthy, whatever resets, successes and health checks came before. No statistics are written outside `g_i2c_sensors` (0.9M states). |
| `servo_attach` | violation | `AttachedMeansDriven` | `attach()` while disabled leaves `_attached` set, so `attached()` reports a servo whose pin is Hi-Z. |
| `tasks_race` | violation | `RegisteredAreTracked` | Concurrent registrations overrun `g_task_stats`. |
| `dash` | pass | `TypeOK`, `DisplayConverges` | Polls overlap, and their answers are served and delivered in any order, so an older document can replace a newer one on screen. Any fetch may fail. Still, once the statistics stop changing, the open page ends up showing them for good, unless some fetch fails infinitely often (29k states). |
| `dash_export` | violation | `ExportReportsShown` | The page shows the first answer while `latestData`, the only thing Export for Claude reports, stays null. |

Every property of a passing run has a mutant in `PROJECT.json`: a plausible
fault of the code, defined next to the definition it replaces, which TLC finds
violating that property.

## Bounds, and why they are enough

- **Grayscale frames.** Frames are 4x4 with blockSize 2, so the block grid is
  2x2 and one block is 25% of the frame.
  - `Blank`, `Corner`, `Pair` and `Diag` give 0, 1 and 2 changed blocks, in a
    row and diagonally, so the bounding box can be a block, a row or the whole
    frame.
  - `Narrow` (4x2) changes the dimensions.
  - The three configurations put one block exactly on the lower size bound
    (25%) and two blocks on the upper one (50%). The `gray` run therefore
    reaches both filter boundaries, and a one-block change that is too small.
  - `ClockMod = 8` with cooldowns of 2 and 3 ms lets the clock wrap several
    times within one behaviour.
- **JPEG frames.** Lengths 100, 125 and 300 fill the five-slot ring and give
  averages where a frame deviates less than 10%, between 10% and 50%, and more
  than 50%.
- **Verdict frames.** The frames of the `gray` run change whole blocks
  uniformly, so the block mean is an integer there and the truncation of
  line 132 does not show (see "Known disagreements without a run").
- **Panic case.** A 256x256 grayscale frame with blockSize 256 is the smallest
  case where the uint16 square wraps to 0 and a full block exists. The `jpeg`
  run contains it, so its reboots are part of every JPEG behaviour.
- **Block scan.** 3x3 frames leave a remainder row and column for 2x2 blocks.
  4x2 frames do not.
- **Framebuffer tracker.** Two tasks and two driver buffers. The leak threshold
  is scaled from 3 to 1 so the warning branch fires. Totals are bounded at 3,
  and the clock at 3 ms with a 1 ms stale timeout.
- **Task monitor.**
  - Three registrations against two slots (scaled from 10) reach the full-array
    branch.
  - Free stack of 0, 2, 8, 12 and 40 bytes out of 40 gives usage of 100%,
    exactly 95% (the critical boundary), exactly 80% (the warning boundary),
    70% and 0%. The high-water mark of each task starts at any of these and
    falls through the rest. With the x4 conversion, 8 bytes reads as 20%
    used, and 12 and 40 bytes wrap.
  - The three tasks have distinct names short enough for `char name[16]`,
    so `strncpy` stores them whole.
  - `HwmUnit = 1`: ESP-IDF's `uxTaskGetStackHighWaterMark()` returns bytes.
    The comment at line 130 assumes words (`HwmUnit = 4`).
    `CriticalTaskReported` holds under both units.
- **Dashboard.** Three fetches in flight let the answers of three polls be
  served and delivered in every order, and an answer be delivered after two
  newer ones. Two changes of the statistics let a document go stale while in
  flight and again after delivery. All four crash stamps are initial states.
  The countdown keeps its real range, 1-5.

- **RTC stores.**
  - The snapshot ring has three slots (scaled from 10) and the breadcrumb ring
    two (scaled from 20). Both wrap several times within a behaviour, so the
    full-ring boundary of the printouts is crossed.
  - Free-heap values 1, 2 and 4 with a threshold of 2 give drops below, at and
    above the threshold, and rises.
  - The summary shows two entries (scaled from 3), fewer than the ring holds.
  - Up to three resets or power losses give every combination of surviving
    and lost history.
- **Trap hardware.** `SERVO_PIN` and one out-of-range pin as `attach()`
  arguments. Two sensor slots, one with a client, so `Reset` of one sensor,
  of all, and the skip of an unused sensor in `CheckHealth` all occur. The
  code's own thresholds are kept (5 failures, more than 10 transactions);
  11 transactions per sensor reach the low-rate branch. The hang threshold is
  2 time units and the clock runs to 4, so the hang test is crossed. One
  device reset.

## Fairness

The motion models assume weak fairness of `Tick` only: the clock of a powered
device keeps advancing. Nothing obliges the capture loop to deliver frames, so
no detector action is fair. `SuppressionEnds` therefore says that a cooldown
ends by the passage of time alone. `CooldownGate` asks only for time to
advance while the gate is closed, which the fair `Tick` provides.

`TaskMonitor` assumes weak fairness of `Monitor`: the header prescribes that
`debugTasksMonitor()` is called periodically (line 116). Registrations and the
kernel's stack use are not fair. `CriticalTaskReported` relies on this alone.

`Dashboard` assumes weak fairness of three things. The 5 s interval fires
while the page is open (`setInterval`, line 476). The async web server
answers every request it receives. The browser settles every fetch, by a
delivery or a failure. A failure is never assumed away:
`DisplayConverges` holds "unless a fetch fails infinitely often". Opening the page and exporting are
user actions and are not fair.

The other debug and driver models check only safety. Their callers (sensor
reads, servo commands, health checks) are not in the repository, so no
fairness of them is justified.

## Findings

The findings with a run are in the motion detector, the task monitor, the
servo wrapper and the dashboard. The details and lines are in `PROJECT.json`.

**Motion detector: JPEG history and `reset()` (spec divergence)**

`reset()` does not clear the JPEG history, because it lives in function
statics shared by all instances.

**Dashboard: Export never has data (code bug)**

Line 476 runs `setInterval(updateDashboard, 5000)` and line 479 makes the
initial call. Both take the function declared at line 375. Only at line 549
is the name rebound to a wrapper that also stores `latestData`, and nothing
calls that wrapper afterwards. The page therefore refreshes its figures every
5 s, but Export for Claude always answers "No data available yet".

**Task monitor: registration race (code bug)**

The array bound is tested outside the mutex, so concurrent registrations
overrun the array.

**Servo wrapper (code bug)**

`attach()` called while `disableServo` is set tri-states the pin but keeps
`_attached`. Once the servo is enabled again, `attached()` returns true for a
servo whose pin is an input. A caller that re-attaches on demand
(`if (!trapServo.attached()) trapServo.attach(SERVO_PIN)`) reaches this state
by itself, since `attached()` is false while disabled. Every later write is
lost until `detach()`.

### Known disagreements without a run

The properties are stated in the modules. Adding the line `INVARIANT <name>`
(`PROPERTY` for the action properties `CooldownOnlyAfterAccept` and
`HealthMatchesUsage`, and for `HeavyTaskReported`) to the named cfg makes TLC report the violation at
once:

- `BlockVerdictMatchesSpec` (`MCBlockDiff.cfg`): the block test uses the
  truncated `uint8_t` mean (line 132), while the spec speaks of the mean.
- `LeakVerdictSound` (`MCFramebufferDebug.cfg`): a NULL framebuffer is counted
  as an allocation that is never released, so `PrintStats` reports a leak
  with no buffer out (line 70).
- `NoPanic` (`MCMotionJpeg.cfg`): `pixelsInBlock` wraps to 0 at blockSize
  256, and `detect()` divides by zero (line 132). No caller in the repository
  sets a blockSize other than 16, so the run gave way to a newer one.
- `CooldownOnlyAfterAccept` (`MCMotionDetector.cfg`): the cooldown sentinel 0
  blinds the detector for `cooldownMs` after boot and after `reset()`, with no
  detection behind it (line 80).
- `HealthMatchesUsage` and `HeavyTaskReported` (`MCTaskMonitor.cfg` as it
  stands, with `HwmUnit = 1`): line 132
  multiplies `uxTaskGetStackHighWaterMark()` by 4, following the comment that
  it returns words. The ESP-IDF kernel counts stacks in bytes and returns
  bytes. `used_bytes` then wraps for every task with more than a quarter of
  its stack free, and that task is flagged CRITICAL (an idle task included).
  A task with less than a quarter free reads as lightly used: a task at
  exactly 80% (8 bytes of 40 free) reads as 20% and is never flagged. This
  rests on the platform's documentation rather than on the repository, so
  it has no violation run. Both properties hold with `HwmUnit = 4`.
- `RegisteredFound` (`MCTaskMonitor.cfg`, with `TaskName <- MCLongTaskName`
  and `Stored <- MCLongStored`): `debugTasksRegister()` stores the first 15
  characters of the name (lines 83-84), while `GetStats` and `IsAlive`
  `strcmp` that copy with the full name. A task registered under a name of
  16 characters or more is never found, and `IsAlive` reports it dead.
  Nothing in the repository registers a task, so no name is known to be
  that long.
- `SuccessesWithinTotal` (`MCTrapHardware.cfg`): a `TransactionEnd` whose
  `TransactionStart` came before `debugI2CReset()` or `debugI2CInit()` counts a
  success with no transaction, so the success rate can pass 100%.

## Not modelled

The JPEG `< 3%` noise filter (`motion_detect.h`, line 239) sits inside the
`> 10%` branch of line 227 and can never fire. The spec reports such frames as
filtered noise. This divergence is recorded as a hazard and has no run of its
own, because the nesting shows it directly.

These parts are left out for good:

- **`camera_pins.h`.** It holds constants only.
- **`tof_autodetect.h`.** It is I/O only.
- **`StringLiteralPlus.h`.** It has no state.

Within the modelled components, these parts are left out:

- the PSRAM byte counts (they are heap queries);
- the print-only fields of the task statistics;
- the task monitor's print functions (`PrintStats`, `PrintSummary`,
  `GetStateName`), and task deletion: no code of the
  repository deletes a registered task, and a deleted task's handle would be
  read after its TCB is freed (listed as a hazard);
- the `!mutex` early returns of the framebuffer and task monitors (those
  models start after each `Init`, as the headers prescribe; in the RTC stores
  the functions are disabled until `Init` runs in each boot, and the I2C
  tracker models the early returns themselves);
- `debugI2CSetSensorAddress()` and `debugI2CPrintStats()`, which only set and
  print the address and name;
- the servo's `read()` and `readMicroseconds()`, which change nothing;
- in the dashboard: `handleDebugDashboard`, which sends the page after the
  same authentication test; the writer of `g_crashStamp`, which is in the
  sketch rather than `src/`, so a torn read of the stamp (line 707) is listed
  as a hazard only; reloading the page; and the PSRAM, reset-reason and
  device-name fields, which are formatting;
- a reset in the middle of `debugContextTakeSnapshot()` or
  `debugCrashKitAddBreadcrumb()`, between the index and count stores (listed
  as a hazard);
- the wrap of the `uint8_t` `crash_count` after 255 reboots that keep RTC
  memory (the `rtc` run bounds boots at 3);
- the RTC stores' time stamps, task ids, error texts, reset reason, heap
  fields and lifetime totals, which are only printed.

## Plan

Built so far:

- the block comparison and its reference;
- the detector with both paths, reset, setConfig and reboots, and its
  refinement of `CooldownGate`;
- the framebuffer tracker, and the task monitor with the kernel's
  high-water marks and its periodic scheduling;
- the RTC stores (`CrashKit`, `ContextRing`), their composition `RtcDebug`
  and their refinement of `PersistentLog`;
- the servo wrapper and the I2C tracker, with their composition
  `TrapHardware`;
- the dashboard's API handler and page script, with its polling, out-of-order
  answers, failures and export.

Next:

1. **Splitting the context ring snapshot into its stores.** This would reach a
   reset between the index and count updates, which `SnapshotLogRefinement`
   is expected to reject. It needs a run slot of its own.
2. **Liveness of the I2C verdicts**, once the callers' scheduling (the sensor
   loop and a periodic `CheckHealth`) is known.
3. **Task deletion**, if the firmware ever deletes a registered task: the
   monitor would then read a freed handle.
