# Formal models of homelab-esp32-devices

TLA+ models of the firmware in `src/devices` and of the components it shares
(`src/components`), checked with TLC on small instances and, where it says so
below, proved with TLAPS for every value of the constants. Paths below are
relative to `src/`.

## 1. The system

Three battery or mains powered ESP32 devices, each a single program on FreeRTOS,
and a few host scripts.

| component | state | operations | talks to |
|---|---|---|---|
| **Vibration monitor** `devices/laundry-detector/main/vibration_monitor.c` | a ring of 120 one-second buckets and its write position, the bucket in progress, a quiet timer, a report timer, IDLE/ACTIVE | init, feed_sample, tick, get_active_buckets, is_running, report_ready, should_sleep, notify_wake, reset | called by monitor_task only |
| **Monitoring task** `main.cpp` monitor_task | `running`, `last_running`, the OperationalState attribute | a loop every 10 ms: sample, tick, compare and report, resend, quiet check, sleep | vibration monitor, accelerometer, Matter (under its stack lock), LED |
| **Laundry boot, commissioning, sleep** `main.cpp` app_main, enter_deep_sleep, callbacks; `boot_action.c`; `lis3dh.c` | wake cause, `s_commissioned`, boot action, LED, the motion interrupt's registers (which survive sleep) | app_main's branches, deep sleep, both wake-ups, the CHIP task's event and identification callbacks | fabric table, controller, deep sleep hardware |
| **Sensor drivers** `lis3dh.c`, `max17048.c`, `sht40.c`; update_battery, update_temp_humidity in `main.cpp` | an I2C handle each, one bus; the battery, temperature and humidity attributes | set-up, register reads and writes, the SHT40's two transfers, CRC, conversion, cut-offs, attribute updates | monitoring task, Matter |
| **WiFi manager** `components/wifi_manager` | two event-group bits, the retry count | wifi_manager_init (blocks), the event handler, wifi_manager_connected | WiFi driver through the event queue; garage opener |
| **Home Assistant client** `components/ha_client` | a caller's response buffer | ha_get, ha_post, http_event_handler | garage opener, HTTP client |
| **Garage opener** `devices/garage-opener/main/main.c` | the button latch and debounce time (interrupt), button LED, pixel, three points in time | button_isr_handler, start-up, the main loop, toggle_garage, poll_garage_status | WiFi manager, Home Assistant client |
| **Freezer sensor** `devices/freezer-temp-sensor/main/main.cpp`, `ds18b20_reader.c` | NVS handle and TLV buffer while provisioning, sensor handle and the 1-Wire buses created, the Matter attribute, the debug LED | app_main, provision_thread_from_nvs, temp_report_task, init_sensor, read, CHIP callbacks | Matter, OpenThread, RMT driver |
| **OpenThread manager** `components/openthread_manager` | `s_attached` and, in the SDK, the stack | ot_manager_init (blocks up to a time-out), is_attached, deinit | no device of the repository yet |
| **NeoPixel and LEDs** `components/neopixel`, `status_led.c` | an RMT-driven strip | set, off | every device |
| **Host scripts** `scripts/*.py` | none that lasts | flash, commission, debug | esptool, Matter server |

What is hard here is not the size of any part but what runs beside it:

* The laundry detector decides to sleep by one record of vibration (the quiet
  timer) and reports by another (the ring); the Matter stack may refuse a report;
  deep sleep loses RAM but keeps the sensor's registers and the fabric table.
* CHIP callbacks run on their own task, hold the stack lock (1.8 s for an
  identification) and write the LED and `s_commissioned` without one.
* The garage opener's interrupt may fire between any two statements of a loop that
  blocks in HTTP requests for up to 10 s; each lost answer leaves the door's state
  unknown.
* An SHT40 measurement is started by one I2C transfer and fetched by another; either may
  fail, a frame may arrive disturbed, and each of three attributes is updated on its own.
* WiFi events are handled after the link has changed again.
* Start-up and the sensor set-up have many steps, each failing with its own
  clean-up, and the RMT channels a failed set-up keeps are scarce.

`PROJECT.json`, `hazards`, lists each of these at its line, with the properties
that cover it or why none does.

## 2. Modules

| module | models | refines / composed with |
|---|---|---|
| `VibrationMonitor` | vibration_monitor.c, every function an action or a state function | implements `SlidingWindow` |
| `SlidingWindow` | what the window promises: for each of the last D completed seconds, whether it saw vibration | |
| `MCVibrationMonitor` | constants; `TickLoop`, the code's `while` loop, which repeats `VibrationMonitor`'s `Turn` | |
| `LaundryMonitorTask`, `MCLaundryMonitorTask` | monitor_task statement by statement, from the accelerometer's words to the attribute, with failing reads, refused updates and a machine that starts and stops | instantiates `VibrationMonitor`; its steps are steps of `LaundryDetector` (`StepsOfDetector`) |
| `LaundrySensors`, `MCLaundrySensors` | init_sensors and the three drivers, update_battery, update_temp_humidity, crc8 and the conversions | bus, sensors and Matter stack external |
| `LaundryDetector` | app_main, determine_boot_action, enter_deep_sleep, the interrupt set-up, CHIP callbacks, wake-ups, resets | leaves what monitor_task reports open |
| `WifiManager` | wifi_manager_init, wifi_event_handler, the event queue, the driver | implements `WifiService` |
| `WifiService` | a connection that comes and goes and a flag that once it was there | |
| `GarageOpener` | button_isr_handler, app_main and its loop | instantiates `WifiService`; Home Assistant and door are external |
| `HaClient` | http_event_handler and what ha_get and ha_post do with the buffer | |
| `FreezerSensor`, `MCFreezerSensor` | app_main, provision_thread_from_nvs, temp_report_task, ds18b20_reader.c, CHIP callbacks | |
| `OtManager` | ot_manager_init, ot_manager_deinit | stack and network external |
| `<module>_proofs` | the invariants, lemmas and theorems of section 4 | extends its module; `LaundryDetector_proofs` also instantiates `LaundrySensors`, the sensors the detector brings up, as `Sensors` and has its proofs |

Conventions. One action is one statement, or one run of statements that no other
actor can observe part of; `pc` says where a task is. A handler's calls are part of
its action. Definitions whose comment calls them *a mutant* are variants of the one
that follows, with a plausible mistake; no specification uses them, they show
that a property can fail.

Representation choices worth knowing:

* `vibration_monitor_tick` loops once per completed second. `Tick` gives its result
  in closed form (`BucketsAfter`, `IdxAfter`, `ActiveAfter`), which is what the
  proofs reason about; run `window` compares it with the loop itself in every
  reachable state (`TickMatchesLoop`), and `TickRunsLoop` shows base, step and exit of
  the loop for every ring.
* GarageOpener keeps the code's three points in time as their ages, and lets an age
  stop growing where no comparison distinguishes it further: the clock is unbounded
  and the model finite.
* LaundryDetector counts and assigns in two steps (`CountFabrics`,
  `AssignCommissioned`) as main.cpp:605-606 does, because the CHIP task can
  run between them.
* LaundryDetector's monitoring mode reports, shows and finds quiet when it likes;
  LaundryMonitorTask says when. That every step of the latter is one the former allows
  is checked (`StepsOfDetector`), so what is shown of LaundryDetector for *any* monitor holds
  of this one. Its `wasRunning` is `s_was_running`, what was sent last; `opState` is what
  the stack took.
* LaundryDetector excludes one order: CommissioningComplete between the count of fabrics and
  the assignment of `s_commissioned`. The fabric would have to be counted as absent and
  finish its exchanges with a controller within two statements.
* Removing a fabric leaves `s_commissioned` set (main.cpp:228-231), so a device can leave the
  wait and sleep unpaired; after its timer wake-up it waits again. The model has this.
* `LaundrySensors` writes a byte as the set of its bits that are 1; crc8 is its loop over
  such sets, once per byte value (`CrcTable`). The sensor's own CRC is computed from the
  polynomial one message bit at a time. The code converts in single precision and truncates; the
  model uses integers, which agree for every word not within a rounding error of a whole
  hundredth.
* A Matter cluster that cannot be created is not fatal (main.cpp:547-578); the updates of its
  attribute then find nothing. Any subset of the three may be `missing`. The model knows it from
  `Init` on, since nothing looks at an attribute before the first report.
* The humidity is cut off at 0 and 100 %, the charge at 100 %. Nothing cuts the temperature off:
  sht40.c accepts any word with a good CRC, and main.cpp:304 writes what the formula makes of it, -45
  to 130 C, although main.cpp:561-562 declares -40 to 125 C. `TypeOK` of `LaundrySensors` has the wider
  range. The difference is outside what an SHT40 measures; the attribute's maximum is
  metadata, so it is no finding.
* FreezerSensor keeps the DS18B20's temperature register, which a conversion writes and a loss
  of power sets to 85 C. The reader cannot tell the two apart, so a sensor that loses its power during the
  800 ms of a conversion is reported at 85 C (`NeverMadeUp` says so).
* A disturbed frame is one with 1, 2 or 3 flipped bits, anywhere in the 48. A CRC of 8 bits
  cannot see all of those with more.
* OtManager's `Call` may come with the stack still running: the manager does not
  ask, esp_openthread_start refuses, and the call fails with `s_attached` cleared and the stack as it was
  (`ranBefore` remembers that it ran).
* The garage button bounces on press (within the debounce window) and on release. A
  release that bounces after the window gives a rising edge that the handler cannot tell from
  a press and that toggles the door again: `edges` counts such edges next to the presses.
* The ring has a slot that is always clear, the one at the write position, so the
  window covers 119 *completed* seconds and not the 120 that README and comments
  speak of. `SlidingWindow` is instantiated with `Depth <- VM_WINDOW_SECONDS - 1`.
  Kconfig says a sample counts *above* the threshold; the code counts `>=`, and
  so does the model.

## 3. Runs

| run | states | question |
|---|---|---|
| `window` | 5 465 | does the ring implement the sliding window, whatever the order and size of ticks, and is it empty when the quiet timer says sleep? |
| `monitor_task` | 110 172 | is what is reported what the monitor says; can the device sleep while reported Running; is a shaking machine reported and a quiet one put to sleep, however the sensor is mounted, with a failed read or lost updates; does the task stay within what LaundryDetector allows? |
| `laundry_life` | 196 114 | whatever happens to the interrupt set-up, the flash, the pairing, the LED, a report and the stack lock: does the device sleep having reported Stopped, always wake, and, once a motion interrupt was set up, monitor a machine that goes on shaking? |
| `laundry_timer_wake` | violation | is a timer wake-up taken for one? |
| `wifi` | 135 | are retries bounded, is giving up final, does init return, is the service implemented? |
| `wifi_connected` | violation | does wifi_manager_connected say whether there is an address now? |
| `sensors` | 296 424 | do temperature and humidity belong to one measurement, whatever failed or flipped on the bus; do battery and humidity keep their declared ranges; do the attributes that could be created end up at what the sensors measure? |
| `garage` | 266 900 | is there at most one toggle per press (or late bounce), is every press in the loop taken, do pixel and button LED end up right? |
| `freezer` | 475 368 | does provisioning release what it took wherever it stops, does the attribute follow the sensor, are new addresses advertised? |
| `freezer_retry` | violation | does a failed set-up of the sensor leave room for the retry? |
| `openthread` | 1 410 | whoever is told joining failed, is the stack stopped unless it ran before; does the wait end, on time, whatever the network does? |
| `ha_client` | 425 | is the buffer always a terminated prefix of the body? |

Bounds and why they suffice:

* `VM_WINDOW_SECONDS = 4` instead of 120: the ring can be empty, partly filled,
  full and lapped (a 5 s tick laps it). The theorems hold for every size.
  `MaxElapsed` bounds quiet timer and report timer beyond window plus time-out.
  `monitor_task` has a window of 5, two turns a second instead of a hundred, one failed read
  and two refused updates, and a quiet time-out
  equal to the window, the tightest case the fall-backs of main.cpp:45-47 allow
  (Kconfig's 300 s is far longer than the window). The accelerometer's words are those of a
  device lying flat, on edge and upside down, at rest, 1 mg below the threshold, at it and above,
  with noise in the four bits the code shifts out.
* `LaundryDetector`: one reset, one identification and one start-up window with
  every accelerometer read failing, at any moment. Each is
  forgotten by the next boot, so a second one meets no state the first did not.
  Pairing, removal, sleep, machine, erased flash and refused reports are unbounded.
  `EspWakeupTimer` is 4, as in ESP-IDF. No property of `laundry_life` rests on what main.cpp makes of that
  number: with `EspWakeupTimer = 2` in LaundryDetector.cfg, the number boot_action.h expects, all of them hold
  as well (135 778 states).
* `LaundrySensors`: four measurements (the smallest words there are, the largest, a
  negative temperature with a fraction to truncate, and a room) and three charges, one over 100 %; any
  set of attributes missing; two transfers
  failing or disturbed and one refused update, enough for a report in which one part is old,
  one new and one missing.
* `WifiManager`: `MaxRetries = 8`; outages are unbounded up to it and the queue is
  bounded by the link changes it records. CHECK_DEADLOCK is off: a device that gave
  up, or one whose network stays as it is, does nothing more.
* `GarageOpener`: two edges that start a debounce window (one serviced, one arriving
  meanwhile; presses or late bounces), any number within a window, a poll
  interval of 2 and a turn of at most 3 units, so that a turn can outlast the
  interval as a 10 s request outlasts the 3 s of the code.
* `FreezerSensor`: one fault of an allocation, NVS read or update at any step;
  sensor failures and losses of its power are unbounded. Two RMT channels for the sensor: one failed set-up
  can be survived; `freezer_retry` has the one channel the NeoPixel leaves on the
  ESP32-C6 and finds it cannot.
* `HaClient`: a buffer of 6 bytes and bodies to 10: chunks that fit, fill, overrun
  or follow a full buffer. The theorems hold for every size.
* `OtManager`: words of 4 bits and an interval of 2, with time-outs 0, below,
  at and off the interval, the largest that is safe (13) and one that is not (14: the
  32-bit sum wraps and the wait never ends; `InitReturns` excludes it by name). In
  the code that is a time-out within 500 ms of 2^32. Three calls: a failed or a good one, one that
  joins again with or without the stack running, and one more.

Findings (`PROJECT.json`, `findings`): the wake-up cause is compared with 2 where
ESP-IDF's timer is 4; the WiFi flag is never cleared; a failed DS18B20 set-up uses up the only RMT channel. A further
disagreement has no run: openthread_manager.h says is_attached tells whether the
device is *currently* attached, but the flag does not follow the network. It is stated as
`AttachedMeansRole` in OtManager.tla, which TLC finds violated with OtManager.cfg when it is
added to the invariants there; it is not one of the runs because no device uses the component yet. No
property that is checked asks for the stale flag: code that followed the header
would pass `openthread` as well. Two of the three
violations are also proved for every value of the constants (`TimerReportIsDead`,
`ExhaustedStaysBlind`), so they are not effects of the small instance.

### Fairness

Weak fairness of a task's own steps: FreeRTOS runs every ready task, delays end, and
HTTP requests end by their 10 s time-out, so a task is never stuck in a step that
is not a wait for someone else. The CHIP task ends the callbacks it began and
handles events it was sent (`Blink`, `ThreadStateChange`), and the event task
delivers posted WiFi events. The timer wake-up is enabled on every path into deep
sleep (main.cpp:142). So is the motion wake-up (main.cpp:145-147), on INT1's level and not its
edge: it comes within milliseconds of shaking, the timer's after CONFIG_SLEEP_TIMER_MIN minutes. Each
of the two ends the other's chance, hence `SF_vars(WakeByMotion)`: with an interrupt set up, a machine that
shakes during every sleep wakes the device from some of them. `ShakingIsMonitored` needs it. With weak
fairness only it would hold just because main.cpp takes a timer wake-up for a fresh boot (finding
`laundry_timer_wake`) and looks at the accelerometer then; repairing that must not break it.
For the same reason its hypothesis asks for an interrupt that was set up at least once: a device that did
as boot_action.h says and had none would report, sleep and never look. GarageOpener's clock moves on (`SF_vars(Tick)`: strong,
because a turn's steps may disable it in between). Nothing is assumed of the
washing machine, the controller, the button, the network, DHCP, Home Assistant or a
sensor's connection; where a property needs one of them to
behave, the property says so as a hypothesis (`<>[]loud`, `<>[](answers /\ ...)`,
`[]<>(link # "associated")`).

## 4. Theorems

Each `<module>_proofs` has one inductive invariant, `Inv` unless said otherwise, its base case
and its step (one proof step per action), and the theorems that follow from it. They assume
what the modules assume of their constants (`...Assumption`, mostly that a bound is a natural
number) and what is named here. The bounds on faults, presses and lost updates
are constants too, so the theorems hold for any number of them.

`VibrationMonitor_proofs`, for every window size of at least two slots, every
threshold, time-out, sample and tick size:

* `TypeCorrect`, `QuietTimerMatchesRing`, `SleepsOnlyWhenWindowEmpty` (the second is a
  strengthening no run states on its own): from the
  inductive invariant `Inv == TypeOK /\ WritePositionClear /\ QuietBoundedByAge`.
  `SleepOnlyWhenWindowEmpty` is not inductive: that no bucket is set when the quiet
  timer expires needs to be known of each bucket before, and `QuietBoundedByAge`
  says it, slot by slot, through how many more seconds the slot has to live.
  `WritePositionClear` (theorem `WritePositionIsClear`) is needed because committing
  the bucket in progress moves on to a slot that was cleared a turn earlier.
* `RefinesSlidingWindow`: `Spec => Window!Spec`, step by step: feeding is
  `Vibrate` or a stutter, a tick is `Elapse`, init and reset are `Clear`. The
  refinement maps age `a` to the slot `SlotOfAge(a)` behind the write position; a
  lemma relates the slot of an age before and after k committed seconds.
* `TickRunsLoop`: `LoopAfter(elapsed, k)`, made of `BucketsAfter`, `IdxAfter` and
  `ActiveAfter`, is what the loop of vibration_monitor_tick starts from at `k = 0`; one
  `Turn` of the loop body leads from `k` to `k + 1`; the loop goes on just while `k` is below the
  number of turns `Tick` takes; and `Tick` leaves what it is there. The lemmas do the modular
  arithmetic of the ring for ticks of any length, laps included.
* `RunningIsCounted`: is_running holds exactly when `BucketThreshold` of the last
  `VM_WINDOW_SECONDS - 1` completed seconds saw vibration. It follows from the refinement mapping by a
  bijection between ages and slots. A threshold of the whole window is therefore never
  met: the help of `BUCKET_THRESHOLD` (`Kconfig.projbuild`) counts "out of 120" where it is 119.

`LaundryMonitorTask_proofs`, for every window of at least two slots, sample interval up to a
second, accelerometer data, threshold and time-out. Its invariant has three parts that build on
each other:

* `MonitorInv` is the monitor's invariant, of the monitor in its task. The prover cannot cite a
  theorem of an instantiated module, so it is proved again, more easily: a turn of the
  loop completes at most one second.
* `TaskInv`: `last_running` is what the window says except between a tick and the
  comparison, and the attribute is `last_running` except between a change and its
  announcement and after the last report, as long as no update was refused.
  `ReportsAreCurrent` (`ReportedStateIsCurrent`) follows. Hypothesis: at least one bucket is
  needed for Running. With `CONFIG_BUCKET_THRESHOLD` 0, which Kconfig does not exclude, an empty
  window is Running from the first turn on, and the first comparison announces it.
* `SleepInv` adds that the loop is left with an empty window. With it
  `SleepsReportedStopped` (`NeverAsleepRunning`) follows: the window ran empty in an earlier
  turn, so Stopped was sent before the last report repeats it, and it takes two
  refused updates to sleep while reported Running. Further hypothesis:
  a quiet time-out of at least the window (Kconfig: 300 s, fall-back of main.cpp:45-47: 120 s,
  window: 120 s; Kconfig sets no range for this one either).
* `TaskIsPartOfDetector` (`StepsOfDetector`): each action of the task is shown to be the
  action of LaundryDetector that leaves it open, or to change nothing LaundryDetector knows. It
  needs the types only, no hypothesis.

`LaundryDetector_proofs`, whatever number ESP-IDF gives the timer's wake cause:

* `TypeCorrect`; `SleepsReportingStopped` (`AsleepReportsStopped`); and
  `UncommissionedStaysAwake`, that no life monitors, reports or sleeps that did not see
  `s_commissioned` set. The invariant relates three things the code keeps apart:
  the thread's branch to the boot action (`BranchFollowsAction`), the branch to
  `s_commissioned`, which no callback clears (`WaitedForCommission`), and the CHIP
  task's callbacks to the part of a life in which it runs (`ChipFollowsLife`,
  `PairingHasFabric`).
* `DecidesByWakeup`: the action of a life is `BootAction` of its wake cause, through everything the CHIP
  task does meanwhile. From it, `TimerReportIsDead` and `TimerReportsWithItsCode`
  (`TimerWakeReports`): with any number for the timer's cause but the 2 of boot_action.h no life
  ever reports for it, and with that number every commissioned one does. The two together say that
  the constant is the whole cause of the finding.
* `SensorTypeCorrect` and `ReadingsAreOfOneMeasurement` (`TypeOK`, `ReadingsBelongTogether`), about
  `LaundrySensors`, for every number of faults and refusals. `SensorInv` follows one measurement through the
  report: the reading is that of the measurement while it is being reported (`ReadingIsMeasurement`), its
  temperature is in place when its humidity is next (`TemperatureIsReported`), and
  everywhere else the two attributes belong together (`AttributesBelongTogether`). Lemmas show, for
  every 16-bit word and every byte of charge, that the cut-offs keep humidity and battery in the ranges
  app_main declares and that the temperature stays within -45 to 130 C, which is more than it declares.
  `DataAreWords`, part of the module's assumption, says no more than that words have 16 bits and a charge
  8. One hypothesis is about data and could fail, `CrcProtects`: a frame that
  arrives, as sent or disturbed, is rejected or reads as what was measured. The CRC is
  computed by recursive functions over tables of bits, which the prover cannot evaluate. For the measurements and
  disturbances of run `sensors` TLC decides it by the first half of `ReadingsBelongTogether`, since the run
  receives every frame. The theorems carry it to any number of faults.

`WifiManager_proofs`, for every number of retries:

* `TypeCorrect`, `RetriesAreBounded` (`AttemptsBounded`), `GivingUpLasts` (`GivingUpIsFinal`).
  The core of the invariant is `QueueMatchesLink`, which lists the queues there can be
  in each state of the station: at most an address and its loss wait to be handled, because only
  a handler makes the driver connect again. `AttemptsAreCounted` says how many
  connects go with a retry count, which the queue decides; `AddressIsTold` that an
  address not queued any more set its bit.
* `RefinesWifiService`: `Spec => Service!Spec`. The driver's events map to `ComeUp`
  and `GoDown`, the handlers to `Tell` and `GiveUp`, the rest stutters. The mapping
  looks into the queue (an address counts as had while it still waits), hence the invariant.

`GarageOpener_proofs`, for every poll interval, LED time, longest turn and number of presses:

* `TypeCorrect`, `TogglesArePresses` (`NoUnaskedToggle`) with `PressIsLatched`: the loop
  is at its press branch only with the latch still set, since the interrupt sets and
  never clears it.
* `PressDelaysPoll` (`NoPollRightAfterPress`, an action property) with `PollsAreNoted`: the
  last poll is never older than the last one after a press, through every change of the ages.
* `NoLedIsForgotten`: `LitLedIsTimed`, that a lit button LED has a press waiting in the latch or its time
  running, although interrupt and loop write it without a lock. It is the safety half of
  `ButtonLedGoesOut`; the other half is that the loop goes on, which is fairness.

`FreezerSensor_proofs`, for every set of temperatures, number of RMT channels and of faults:

* `TypeCorrect`, which bounds the buses by the channels;
  `ProvisioningIsClean` (`ProvisioningReleases`) with `ReleaseIsAhead`, where on the
  way the handle and the buffer may be held;
  `AttributeIsMeasured` (`NeverMadeUp`) with `ReadingIsTheSensors`: what is on its
  way to the attribute is what the sensor's register held, a measurement or the 85 C it powers up with; `SensorIsReused`: once there is a handle no step drops it or
  takes a channel (ds18b20_reader.h says so; no run states it) with `InitOnlyOnce`.
* `ExhaustedStaysBlind`: once failed set-ups hold every RMT channel, no later read finds a sensor
  and the attribute keeps the value it was created with, for ever. It is what run
  `freezer_retry` finds with one channel, for any number of them and whatever the sensor does.

`OtManager_proofs`, for every word size, poll interval and set of time-outs:

* `TypeCorrect`, where `WaitEndsInTime` gives that the time waited never passes the time-out,
  also where the sum wraps, and `FailureLeavesNothing` (`JoinedOrUndone`): between calls the stack
  is stopped or joining, after a failed call it runs only if it ran before (`ranBefore`), and
  `s_attached` does not outlive it; with `StackFollowsCall`, how far the stack is at each place of a call.

`HaClient_proofs`, for every buffer size, chunking and body: `NeverOverruns`
(`TypeOK` is inductive) and `BufferHoldsPrefix`.

Only model-checked:

* every liveness property, `LostUpdateIsRepaired` and `InitComesBack` among them: fairness and
  ENABLED are beyond the prover;
* `TickMatchesLoop`: `TickLoop` is a RECURSIVE operator. `TickRunsLoop` proves all of it but the last
  inference, from base and step of the loop to its end, which is an induction;
* `CrcProtects`, the hypothesis of the theorems about LaundrySensors: that crc8 equals the sensor's own
  CRC and misses no disturbance of up to three bits would need induction over the message;
* that the bounds of the ages in GarageOpener (an age that stops growing stands for every
  larger one) represent the code's unbounded clock: an argument about the
  model's guards, made in comments there.

## 5. Not modelled

* The fake temperature sensor: a sine for development builds.
* `max17048_read_voltage`, which nothing calls, and the reset functions of the drivers,
  which only tests call. The charge read at start-up (main.cpp:670-678) only picks a
  colour; it is a choice in `BranchLeds`.
* `neopixel.c`: LEDs are written atomically in the models. That set_pixel and refresh are
  two unlocked calls is listed as a hazard; what concurrent transfers do is up to the
  external RMT driver.
* ha_client's composition of URL and header strings in fixed buffers, straight-line
  formatting with nothing concurrent to it.
* LIS3DH threshold configurations above 255 mg, which wrap in the uint8_t parameter (hazard).
* The host scripts: sequences of calls to external tools and servers by one process that keeps
  nothing. The WebSocket framing of commission.py and the clean-up of flash.py are
  listed as hazards.
* The laundry detector's Thread provisioning step by step: the same code as the
  freezer's, modelled there.
* Build files, secrets, tests and mocks, the serial test firmware.

## 6. Plan

The models are complete as far as the components above go. Every invariant and every action
property that a run checks is stated by a theorem, the exceptions being those listed under "Only
model-checked". What could be added:

1. More promises of a header that hold along a whole run, of the kind of `SensorIsReused`, for
   the other drivers.
2. The safety half of `ShakingIsMonitored` and its like: that a life of LaundryDetector that decided to sleep only
   goes towards it, as `NoLedIsForgotten` is for the button LED.
3. The two-step write of neopixel.c as a module of its own, once the RMT driver's promises about
   concurrent transfers are known.
