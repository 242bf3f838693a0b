-------------------------- MODULE LaundryDetector --------------------------
(***************************************************************************)
(* The life of the laundry detector, devices/laundry-detector/main/        *)
(* main.cpp with boot_action.c and the interrupt set-up of lis3dh.c: boot, *)
(* decide what to do, do it, deep sleep, wake.  One application thread     *)
(* (app_main, then monitor_task once app_main has created it and returned) *)
(* runs beside the CHIP task, which calls the event and identification     *)
(* callbacks; both write s_commissioned and the LED without a lock, and    *)
(* attribute updates take the CHIP stack lock.  What monitor_task reports, *)
(* and when it finds the machine quiet, is LaundryMonitorTask's subject    *)
(* and left open here.                                                     *)
(***************************************************************************)
EXTENDS Naturals

CONSTANTS
    EspWakeupTimer,  \* esp_sleep_get_wakeup_cause() after a timer wake
    MaxResets,       \* bound: resets and power cycles
    MaxIdentifies,   \* bound: Identify commands received
    MaxDeafWindows   \* bound: start-up windows with every read failing

(* boot_action.h: the wake causes determine_boot_action tells apart. *)
WAKEUP_FRESH_BOOT == 0
WAKEUP_TIMER == 2
WAKEUP_GPIO == 7

ASSUME LaundryDetectorAssumption ==
    /\ EspWakeupTimer \in Nat \ {WAKEUP_FRESH_BOOT, WAKEUP_GPIO}
    /\ MaxResets \in Nat
    /\ MaxIdentifies \in Nat
    /\ MaxDeafWindows \in Nat

VARIABLES
    pc,            \* where the application thread is; "asleep" in deep sleep
    wakeup,        \* the wake cause of this boot
    fabricCount,   \* s_fabric_count: the fabrics counted at boot
    commissioned,  \* s_commissioned
    action,        \* the boot action decided on, "NONE" before
    opState,       \* the OperationalState attribute: running or not
    wasRunning,    \* s_was_running: what was reported last
    refused,       \* the Matter stack refused a report of this boot
    led,           \* what the NeoPixel shows
    interrupt,     \* LIS3DH motion interrupt: off, set, or enabled at 0 mg
    chipUp,        \* the CHIP task runs
    blinks,        \* LED changes left in the identification callback
    identifies,    \* Identify commands received
    fabrics,       \* fabrics in the fabric table, none or one
    pairing,       \* the fabric is new and CommissioningComplete not yet seen
    loud,          \* the machine shakes the sensor over the threshold
    resets,        \* resets so far
    deafWindows    \* start-up windows in which no read succeeded

bootVars == <<wakeup, fabricCount, action>>
chipVars == <<chipUp, blinks, identifies>>
matterVars == <<opState, wasRunning, refused>>
fabricVars == <<fabrics, pairing>>
envVars == <<loud, resets, deafWindows>>
others == <<chipVars, fabricVars, envVars>>
vars == <<pc, bootVars, commissioned, matterVars, led, interrupt, others>>

Goto(from, to) == pc = from /\ pc' = to

(* A mutant: the stack stays locked as long as a pairing lasts. *)
StackLockFreeAfterPairing == blinks = 0 /\ ~ pairing

(* The CHIP stack lock is free: the CHIP task is in no callback. *)
StackLockFree == blinks = 0

Init ==
    /\ pc = "boot"
    /\ wakeup = WAKEUP_FRESH_BOOT
    /\ fabricCount = 0
    /\ commissioned = FALSE
    /\ action = "NONE"
    /\ opState = FALSE /\ wasRunning = FALSE /\ refused = FALSE
    /\ led = "OFF"
    /\ interrupt = "off"
    /\ chipUp = FALSE /\ blinks = 0 /\ identifies = 0
    /\ fabrics \in {0, 1} /\ pairing = FALSE
    /\ loud \in BOOLEAN
    /\ resets = 0 /\ deafWindows = 0

-----------------------------------------------------------------------------
(* The application thread: app_main *)

(* The LED is set from the wake cause before anything slow happens. *)
ShowWakeup ==
    /\ Goto("boot", "nvs")
    /\ led' = IF wakeup = WAKEUP_GPIO THEN "ACTIVE" ELSE "STARTUP"
    /\ UNCHANGED <<bootVars, commissioned, matterVars, interrupt, others>>

(* nvs_flash_init; a flash that is full or of another version is erased,   *)
(* and the fabrics with it.  (That NVS fails for good aborts: a Reset.)    *)
InitNvs ==
    /\ Goto("nvs", "sensors")
    /\ fabrics' \in {0, fabrics}
    /\ UNCHANGED <<bootVars, commissioned, matterVars, led, interrupt,
                   chipVars, pairing, envVars>>

(* init_sensors: LIS3DH, MAX17048 and SHT40 answer.  The interrupt         *)
(* registers of the LIS3DH are left as they are.                           *)
InitSensors ==
    /\ Goto("sensors", "start")
    /\ UNCHANGED <<bootVars, commissioned, matterVars, led, interrupt, others>>

(* The node, its endpoint, and esp_matter::start. *)
Start ==
    /\ Goto("start", "provision")
    /\ chipUp' = TRUE
    /\ UNCHANGED <<bootVars, commissioned, matterVars, led, interrupt, blinks,
                   identifies, fabricVars, envVars>>

(* One of them fails: red LED, and app_main returns with nothing armed. *)
StartFails ==
    /\ pc \in {"sensors", "start"} /\ pc' = "failed"
    /\ led' = "BATTERY_LOW"
    /\ UNCHANGED <<bootVars, commissioned, matterVars, interrupt, others>>

(* provision_thread_from_nvs, which takes its time on its way and writes   *)
(* nothing this module keeps: FreezerSensor has the same code in steps.    *)
ProvisionThread ==
    /\ Goto("provision", "count")
    /\ UNCHANGED <<bootVars, commissioned, matterVars, led, interrupt, others>>

(* FabricCount() and the assignment to s_commissioned are two statements   *)
(* of a thread that the CHIP task preempts.                                *)
CountFabrics ==
    /\ Goto("count", "assign")
    /\ fabricCount' = fabrics
    /\ UNCHANGED <<wakeup, action, commissioned, matterVars, led, interrupt,
                   others>>

AssignCommissioned ==
    /\ Goto("assign", "decide")
    /\ commissioned' = (fabricCount > 0)
    /\ UNCHANGED <<bootVars, matterVars, led, interrupt, others>>

(* A mutant of BootAction: motion is taken for the timer, the timer for    *)
(* motion.                                                                 *)
BootActionSwapped(cause, isCommissioned) ==
    CASE ~ isCommissioned                         -> "WAIT_FOR_COMMISSION"
      [] isCommissioned /\ cause = WAKEUP_TIMER -> "ACTIVE_MONITOR"
      [] isCommissioned /\ cause = WAKEUP_GPIO  -> "TIMER_REPORT"
      [] OTHER                                    -> "STARTUP_SLEEP"

(* determine_boot_action *)
BootAction(cause, isCommissioned) ==
    CASE ~ isCommissioned                         -> "WAIT_FOR_COMMISSION"
      [] isCommissioned /\ cause = WAKEUP_TIMER -> "TIMER_REPORT"
      [] isCommissioned /\ cause = WAKEUP_GPIO  -> "ACTIVE_MONITOR"
      [] OTHER                                    -> "STARTUP_SLEEP"

(* The LED each branch sets as it is entered; a fresh boot shows a low     *)
(* battery.                                                                *)
BranchLeds(chosen) ==
    CASE chosen = "WAIT_FOR_COMMISSION" -> {"UNCOMMISSIONED"}
      [] chosen = "TIMER_REPORT"        -> {"STARTUP"}
      [] chosen = "ACTIVE_MONITOR"      -> {"ACTIVE"}
      [] chosen = "STARTUP_SLEEP"       -> {"STARTUP", "BATTERY_LOW"}

Decide ==
    /\ pc = "decide"
    /\ action' = BootAction(wakeup, commissioned)
    /\ led' \in BranchLeds(action')
    /\ pc' = CASE action' = "WAIT_FOR_COMMISSION" -> "wait"
               [] action' = "TIMER_REPORT"        -> "report"
               [] action' = "ACTIVE_MONITOR"      -> "monitor"
               [] action' = "STARTUP_SLEEP"       -> "startup"
    /\ UNCHANGED <<wakeup, fabricCount, commissioned, matterVars, interrupt,
                   others>>

(* while (!s_commissioned), looked at every 10 s *)
LeaveWait ==
    /\ Goto("wait", "report")
    /\ commissioned
    /\ UNCHANGED <<bootVars, commissioned, matterVars, led, interrupt, others>>

(* A sample of the start-up window is over the threshold. *)
StartupVibration ==
    /\ Goto("startup", "reportAwake")
    /\ loud
    /\ led' = "ACTIVE"
    /\ UNCHANGED <<bootVars, commissioned, matterVars, interrupt, others>>

(* None is, for STARTUP_DISPLAY_MS. *)
StartupQuiet ==
    /\ Goto("startup", "report")
    /\ ~ loud
    /\ UNCHANGED <<bootVars, commissioned, matterVars, led, interrupt, others>>

(* None could be: every read of the window failed and was skipped. *)
StartupDeaf ==
    /\ Goto("startup", "report")
    /\ deafWindows < MaxDeafWindows
    /\ deafWindows' = deafWindows + 1
    /\ UNCHANGED <<bootVars, commissioned, matterVars, led, interrupt,
                   chipVars, fabricVars, loud, resets>>

(* update_operational_state: under the stack lock the attribute takes the  *)
(* value, or the stack refuses it and the error is logged.                 *)
UpdateOperationalState(value) ==
    /\ StackLockFree
    /\ wasRunning' = value
    /\ \/ opState' = value /\ UNCHANGED refused
       \/ refused' = TRUE /\ UNCHANGED opState

(* The report made before monitor_task is created. *)
ReportAwake ==
    /\ Goto("reportAwake", "monitor")
    /\ UpdateOperationalState(FALSE)
    /\ UNCHANGED <<bootVars, commissioned, led, interrupt, others>>

(* The report made before every deep sleep: app_main's after the wait, for *)
(* TIMER_REPORT and after a quiet start-up window, and monitor_task's.     *)
ReportStopped ==
    /\ Goto("report", "configure")
    /\ UpdateOperationalState(FALSE)
    /\ UNCHANGED <<bootVars, commissioned, led, interrupt, others>>

-----------------------------------------------------------------------------
(* The application thread: monitor_task *)

MonitorShows ==
    /\ Goto("monitor", "monitor")
    /\ led' \in {"ACTIVE", "ACTIVE_VIBRATING"}
    /\ UNCHANGED <<bootVars, commissioned, matterVars, interrupt, others>>

MonitorReports ==
    /\ Goto("monitor", "monitor")
    /\ \E running \in BOOLEAN : UpdateOperationalState(running)
    /\ UNCHANGED <<bootVars, commissioned, led, interrupt, others>>

(* A mutant: straight to enter_deep_sleep. *)
MonitorQuietUnreported ==
    /\ Goto("monitor", "configure")
    /\ UNCHANGED <<bootVars, commissioned, matterVars, led, interrupt, others>>

MonitorQuiet ==
    /\ Goto("monitor", "report")
    /\ UNCHANGED <<bootVars, commissioned, matterVars, led, interrupt, others>>

-----------------------------------------------------------------------------
(* The application thread: enter_deep_sleep *)

(* lis3dh_configure_motion_interrupt returns at the first register write   *)
(* that fails, and enter_deep_sleep ignores what it returns.  A failure up *)
(* to INT1_CFG leaves the interrupt as it was, since the sensor keeps its  *)
(* registers through deep sleep; one at INT1_THS enables it at the         *)
(* threshold the sensor still has, 0 mg when it was never set.             *)
ConfigureInterrupt ==
    /\ Goto("configure", "darken")
    /\ \/ interrupt' = "set"
       \/ UNCHANGED interrupt
       \/ interrupt' = IF interrupt = "set" THEN "set" ELSE "anything"
    /\ UNCHANGED <<bootVars, commissioned, matterVars, led, others>>

Darken ==
    /\ Goto("darken", "settle")
    /\ led' = "OFF"
    /\ UNCHANGED <<bootVars, commissioned, matterVars, interrupt, others>>

(* Power to the memory and the CHIP task goes; a fabric still pairing was  *)
(* not committed to flash.                                                 *)
PowerDown ==
    /\ chipUp' = FALSE
    /\ blinks' = 0
    /\ pairing' = FALSE
    /\ fabrics' = IF pairing THEN 0 ELSE fabrics

(* After 100 ms to settle, esp_deep_sleep_start. *)
EnterDeepSleep ==
    /\ Goto("settle", "asleep")
    /\ PowerDown
    /\ UNCHANGED <<bootVars, commissioned, matterVars, led, interrupt,
                   identifies, envVars>>

-----------------------------------------------------------------------------
(* Waking: RAM starts from its initial values *)

Restart(cause) ==
    /\ pc' = "boot"
    /\ wakeup' = cause
    /\ fabricCount' = 0
    /\ commissioned' = FALSE
    /\ action' = "NONE"
    /\ opState' = FALSE /\ wasRunning' = FALSE /\ refused' = FALSE

(* A mutant: the timer is only a fallback for a motion interrupt that      *)
(* could not be set.                                                       *)
WakeByFallbackTimer ==
    /\ pc = "asleep" /\ interrupt # "set"
    /\ Restart(EspWakeupTimer)
    /\ UNCHANGED <<led, interrupt, others>>

WakeByTimer ==
    /\ pc = "asleep"
    /\ Restart(EspWakeupTimer)
    /\ UNCHANGED <<led, interrupt, others>>

(* INT1 is high: the machine shakes, or the threshold is 0 mg. *)
WakeByMotion ==
    /\ pc = "asleep"
    /\ \/ interrupt = "set" /\ loud
       \/ interrupt = "anything"
    /\ Restart(WAKEUP_GPIO)
    /\ UNCHANGED <<led, interrupt, others>>

(* A reset, or a power cycle that also clears the sensor's registers. *)
Reset ==
    /\ resets < MaxResets
    /\ resets' = resets + 1
    /\ Restart(WAKEUP_FRESH_BOOT)
    /\ PowerDown
    /\ interrupt' \in {interrupt, "off"}
    /\ UNCHANGED <<led, identifies, loud, deafWindows>>

-----------------------------------------------------------------------------
(* The CHIP task *)

(* Commissioning adds the fabric first ... *)
AddFabric ==
    /\ chipUp /\ StackLockFree
    /\ fabrics = 0
    /\ fabrics' = 1
    /\ pairing' = TRUE
    /\ UNCHANGED <<pc, bootVars, commissioned, matterVars, led, interrupt,
                   chipVars, envVars>>

(* ... and ends in kCommissioningComplete.  In between lie exchanges with  *)
(* the controller, for which the CHIP task waits and app_main runs: they   *)
(* do not fit between its counting of fabrics and the assignment.          *)
CommissioningComplete ==
    /\ chipUp /\ StackLockFree
    /\ pairing /\ pc # "assign"
    /\ pairing' = FALSE
    /\ commissioned' = TRUE
    /\ led' = "CONNECTED"
    /\ UNCHANGED <<pc, bootVars, matterVars, interrupt, chipVars, fabrics,
                   envVars>>

(* kFabricRemoved: the controller removes the device, or the fail-safe     *)
(* timer of a pairing runs out.  s_commissioned keeps its value.           *)
FabricRemoved ==
    /\ chipUp /\ StackLockFree
    /\ fabrics = 1
    /\ fabrics' = 0
    /\ pairing' = FALSE
    /\ led' = "STARTUP"
    /\ UNCHANGED <<pc, bootVars, commissioned, matterVars, interrupt,
                   chipVars, envVars>>

(* A mutant of BlinkSteps: the loop runs once too often. *)
OneBlinkMore == 8

(* Three times on and off *)
BlinkSteps == 6

(* app_identification_cb blinks three times, delays included, on the CHIP  *)
(* task, and leaves the LED off.                                           *)
Identify ==
    /\ chipUp /\ StackLockFree
    /\ identifies < MaxIdentifies
    /\ identifies' = identifies + 1
    /\ blinks' = BlinkSteps
    /\ UNCHANGED <<pc, bootVars, commissioned, matterVars, led, interrupt,
                   chipUp, fabricVars, envVars>>

Blink ==
    /\ blinks > 0
    /\ blinks' = blinks - 1
    /\ led' = IF blinks % 2 = 0 THEN "STARTUP" ELSE "OFF"
    /\ UNCHANGED <<pc, bootVars, commissioned, matterVars, interrupt, chipUp,
                   identifies, fabricVars, envVars>>

-----------------------------------------------------------------------------
(* The machine starts or stops shaking. *)
Machine ==
    /\ loud' = ~ loud
    /\ UNCHANGED <<pc, bootVars, commissioned, matterVars, led, interrupt,
                   chipVars, fabricVars, resets, deafWindows>>

(* What the application thread does of itself, as long as it is awake. *)
AppStep ==
    \/ ShowWakeup \/ InitNvs \/ InitSensors \/ Start \/ StartFails
    \/ ProvisionThread \/ CountFabrics \/ AssignCommissioned \/ Decide
    \/ LeaveWait
    \/ StartupVibration \/ StartupQuiet \/ StartupDeaf
    \/ ReportAwake \/ ReportStopped
    \/ ConfigureInterrupt \/ Darken \/ EnterDeepSleep

MonitorStep == MonitorShows \/ MonitorReports \/ MonitorQuiet

ChipStep ==
    \/ AddFabric \/ CommissioningComplete \/ FabricRemoved
    \/ Identify \/ Blink

Next ==
    \/ AppStep \/ MonitorStep \/ ChipStep
    \/ WakeByTimer \/ WakeByMotion \/ Reset
    \/ Machine

(* The scheduler runs the application thread, the CHIP task ends a blink   *)
(* it began, and the timer wake-up is always enabled before sleeping.  So  *)
(* is the motion wake-up, whose level is looked at all through the sleep:  *)
(* it comes milliseconds after INT1 rises, the timer CONFIG_SLEEP_TIMER_-  *)
(* MIN minutes later.  Each wake-up ends the other's chance, hence SF: a   *)
(* machine that shakes during every sleep wakes the device from some.      *)
(* Nothing is assumed of the interrupt's set-up, of the controller, of the *)
(* machine or of when monitor_task finds quiet.                            *)
Fairness ==
    /\ WF_vars(AppStep)
    /\ WF_vars(Blink)
    /\ WF_vars(WakeByTimer)
    /\ SF_vars(WakeByMotion)

Spec == Init /\ [][Next]_vars /\ Fairness

-----------------------------------------------------------------------------
(* Properties *)

TypeOK ==
    /\ pc \in {"boot", "nvs", "sensors", "start", "failed", "provision",
               "count", "assign", "decide", "wait", "startup", "reportAwake",
               "report", "monitor", "configure", "darken", "settle",
               "asleep"}
    /\ wakeup \in {WAKEUP_FRESH_BOOT, EspWakeupTimer, WAKEUP_GPIO}
    /\ fabricCount \in {0, 1} /\ commissioned \in BOOLEAN
    /\ action \in {"NONE", "WAIT_FOR_COMMISSION", "TIMER_REPORT",
                   "ACTIVE_MONITOR", "STARTUP_SLEEP"}
    /\ opState \in BOOLEAN /\ wasRunning \in BOOLEAN /\ refused \in BOOLEAN
    /\ led \in {"OFF", "STARTUP", "CONNECTED", "BATTERY_LOW", "ACTIVE",
                "ACTIVE_VIBRATING", "UNCOMMISSIONED"}
    /\ interrupt \in {"off", "set", "anything"}
    /\ chipUp \in BOOLEAN /\ blinks \in 0 .. 6
    /\ identifies \in 0 .. MaxIdentifies
    /\ fabrics \in {0, 1} /\ pairing \in BOOLEAN
    /\ loud \in BOOLEAN /\ resets \in 0 .. MaxResets
    /\ deafWindows \in 0 .. MaxDeafWindows

(* Whatever path leads there, and whatever the monitor reported last, the  *)
(* last report before deep sleep is Stopped, and unless the stack refused  *)
(* a report the attribute says so.                                         *)
AsleepReportsStopped ==
    pc \in {"configure", "darken", "settle", "asleep"} =>
        ~ wasRunning /\ (opState => refused)

(* Deep sleep is never the end, whatever the set-up of the motion          *)
(* interrupt came to: the device boots again and decides what to do, or    *)
(* shows that it cannot start.                                             *)
AlwaysWakes == pc = "asleep" ~> pc \in {"failed", "wait", "startup", "report",
                                        "monitor"}

(* The stack lock is only borrowed: a report that has to wait for the CHIP *)
(* task's blinking is made, and the device goes on to sleep.               *)
ReportLeadsToSleep == pc = "report" ~> pc = "asleep" \/ pc = "boot"

(* A device that is paired for good, at whatever point of its life that    *)
(* happens, whose motion interrupt was set up at least once and whose      *)
(* machine goes on shaking is monitored again and again: the wait for      *)
(* pairing ends, a set-up that fails later does not undo an earlier one,   *)
(* a blinking LED only delays the sleep, and motion starts the monitor.    *)
(* This does not need a timer wake to be taken for a fresh boot, as it is  *)
(* now (TimerWakeReports below): one that only reports and sleeps again,   *)
(* which boot_action.h intends, is followed by a motion wake-up.  Without  *)
(* a working interrupt a device that did as boot_action.h says would not   *)
(* be woken by shaking, so the property does not promise it.               *)
ShakingIsMonitored ==
    /\ <>[](fabrics = 1 /\ ~ pairing)
    /\ <>[](interrupt # "off")
    /\ <>[] loud
    => []<>(pc \in {"monitor", "failed"})

-----------------------------------------------------------------------------
(* What a comment in the code says *)

(* boot_action.h, BOOT_ACTION_TIMER_REPORT: "Timer wake, commissioned -    *)
(* report and sleep".                                                      *)
TimerWakeReports ==
    wakeup = EspWakeupTimer /\ action \notin {"NONE", "WAIT_FOR_COMMISSION"}
        => action = "TIMER_REPORT"
=============================================================================
