------------------------- MODULE LaundryMonitorTask -------------------------
(***************************************************************************)
(* monitor_task of devices/laundry-detector/main/main.cpp: the loop that   *)
(* samples the accelerometer, drives the vibration monitor, reports to     *)
(* Matter and leads to deep sleep.  It composes VibrationMonitor, of which *)
(* it is the only user once it runs, with the OperationalState cluster (an *)
(* update may be refused and is then only logged) and with the washing     *)
(* machine, which starts and stops as it likes.  What it does is what      *)
(* LaundryDetector leaves open of it.                                      *)
(***************************************************************************)
EXTENDS Integers, FiniteSets

CONSTANTS
    VM_WINDOW_SECONDS, ThresholdMg, BucketThreshold, QuietTimeout,
    ReportInterval, MaxElapsed,  \* as in VibrationMonitor
    Still, Shaking,     \* what the LIS3DH measures: <<x, y, z>>, 16-bit words
    SampleInterval,     \* SAMPLE_INTERVAL_MS
    MaxLostUpdates,     \* bound: OperationalState updates the stack refuses
    MaxFailedReads      \* bound: accelerometer reads that fail

ASSUME MonitorTaskAssumption ==
    /\ VM_WINDOW_SECONDS \in Nat /\ VM_WINDOW_SECONDS >= 2
    /\ ThresholdMg \in Nat /\ BucketThreshold \in Nat
    /\ QuietTimeout \in Nat /\ ReportInterval \in Nat /\ MaxElapsed \in Nat
    /\ SampleInterval \in 1 .. 1000
    /\ MaxLostUpdates \in Nat
    /\ MaxFailedReads \in Nat

ASSUME MeasurementsAssumption ==
    Still \union Shaking \subseteq [1 .. 3 -> 0 .. 65535]

VARIABLES
    state, buckets, bucketIdx, currentBucketActive, msInCurrentBucket,
    quietElapsed, reportElapsed, reportReady,  \* the vibration monitor
    pc,           \* where monitor_task is in its loop
    running,      \* the local running of this turn
    lastRunning,  \* the local last_running
    opState,      \* the OperationalState attribute: running or not
    wasRunning,   \* s_was_running: what was sent last
    led,          \* the status LED
    loud,         \* the machine shakes the sensor over the threshold
    lostUpdates,  \* updates refused so far
    failedReads   \* reads failed so far

(* A mutant: the words are taken for unsigned. *)
AxisUnsigned(raw) == raw \div 16

(* lis3dh_read_accel: 12 bits, left-justified in a signed word, in mg *)
Axis(raw) == (IF raw < 32768 THEN raw ELSE raw - 65536) \div 16

(* The magnitude over 1 g, with the fraction cut off *)
Vibration(a) ==
    LET square == Axis(a[1]) ^ 2 + Axis(a[2]) ^ 2 + Axis(a[3]) ^ 2
        mag == CHOOSE n \in 0 .. 7100 :
                   n ^ 2 <= square /\ square < (n + 1) ^ 2
    IN  IF mag > 1000 THEN mag - 1000 ELSE 0

(* What a machine that shakes, and one that does not, gives. *)
Vibrations ==
    [shakes \in BOOLEAN |->
        {Vibration(a) : a \in IF shakes THEN Shaking ELSE Still}]

VM == INSTANCE VibrationMonitor WITH
        TickSizes <- {SampleInterval},
        Magnitudes <- Vibrations[TRUE] \union Vibrations[FALSE]

vmVars == <<state, buckets, bucketIdx, currentBucketActive, msInCurrentBucket,
            quietElapsed, reportElapsed, reportReady>>
taskVars == <<running, lastRunning>>
matterVars == <<opState, wasRunning, lostUpdates>>
envVars == <<loud, failedReads>>
vars == <<vmVars, pc, taskVars, matterVars, led, envVars>>

Goto(from, to) == pc = from /\ pc' = to

(* The task is created after vibration_monitor_notify_wake, with the       *)
(* attribute at Stopped: its value at boot and after the last sleep.       *)
Init ==
    /\ state = "ACTIVE"
    /\ buckets = [i \in VM!Slots |-> FALSE]
    /\ bucketIdx = 0
    /\ currentBucketActive = FALSE
    /\ msInCurrentBucket = 0
    /\ quietElapsed = 0
    /\ reportElapsed = 0
    /\ reportReady = FALSE
    /\ pc = "sample"
    /\ running = FALSE
    /\ lastRunning = FALSE
    /\ opState = FALSE
    /\ wasRunning = FALSE
    /\ led = "ACTIVE"
    /\ loud \in BOOLEAN
    /\ lostUpdates = 0
    /\ failedReads = 0

(* lis3dh_read_accel succeeds: the sample goes to the monitor and the LED  *)
(* shows it.                                                               *)
Sample ==
    /\ Goto("sample", "tick")
    /\ \E vibration \in Vibrations[loud] :
          /\ VM!FeedSample(vibration)
          /\ led' = IF vibration > ThresholdMg THEN "ACTIVE_VIBRATING"
                                               ELSE "ACTIVE"
    /\ UNCHANGED <<taskVars, matterVars, envVars>>

(* lis3dh_read_accel fails: the turn goes on without a sample. *)
SampleFails ==
    /\ Goto("sample", "tick")
    /\ failedReads < MaxFailedReads
    /\ failedReads' = failedReads + 1
    /\ UNCHANGED <<vmVars, taskVars, matterVars, led, loud>>

TickOnce ==
    /\ Goto("tick", "compare")
    /\ VM!Tick(SampleInterval)
    /\ UNCHANGED <<taskVars, matterVars, led, envVars>>

(* A mutant: the change is only noted. *)
CompareSilently ==
    /\ Goto("compare", "report")
    /\ running' = VM!IsRunning
    /\ lastRunning' = running'
    /\ UNCHANGED <<vmVars, matterVars, led, envVars>>

(* running != last_running: the change is announced at once. *)
Compare ==
    /\ pc = "compare"
    /\ running' = VM!IsRunning
    /\ lastRunning' = running'
    /\ pc' = IF running' # lastRunning THEN "announce" ELSE "report"
    /\ UNCHANGED <<vmVars, matterVars, led, envVars>>

(* update_operational_state: the attribute takes the value, or the stack   *)
(* refuses it and the error is logged.                                     *)
UpdateOperationalState(value) ==
    /\ wasRunning' = value
    /\ \/ opState' = value /\ UNCHANGED lostUpdates
       \/ /\ lostUpdates < MaxLostUpdates
          /\ lostUpdates' = lostUpdates + 1
          /\ UNCHANGED opState

Announce ==
    /\ Goto("announce", "report")
    /\ UpdateOperationalState(running)
    /\ UNCHANGED <<vmVars, taskVars, led, envVars>>

(* The periodic report, when vibration_monitor_report_ready says so. *)
Report ==
    /\ Goto("report", "resend")
    /\ VM!TakeReport
    /\ UNCHANGED <<taskVars, matterVars, led, envVars>>

NoReport ==
    /\ Goto("report", "quiet")
    /\ ~ reportReady
    /\ UNCHANGED <<vmVars, taskVars, matterVars, led, envVars>>

(* A mutant: only a change is sent. *)
ResendNothing ==
    /\ Goto("resend", "quiet")
    /\ UNCHANGED <<vmVars, taskVars, matterVars, led, envVars>>

Resend ==
    /\ Goto("resend", "quiet")
    /\ UpdateOperationalState(running)
    /\ UNCHANGED <<vmVars, taskVars, led, envVars>>

(* A mutant: to sleep without a last report. *)
CheckQuietUnreported ==
    /\ pc = "quiet"
    /\ pc' = IF VM!ShouldSleep THEN "asleep" ELSE "sample"
    /\ UNCHANGED <<vmVars, taskVars, matterVars, led, envVars>>

(* should_sleep: leave the loop, or delay and start the next turn. *)
CheckQuiet ==
    /\ pc = "quiet"
    /\ pc' = IF VM!ShouldSleep THEN "stop" ELSE "sample"
    /\ UNCHANGED <<vmVars, taskVars, matterVars, led, envVars>>

(* The last report, after which enter_deep_sleep does not return. *)
Stop ==
    /\ Goto("stop", "asleep")
    /\ UpdateOperationalState(FALSE)
    /\ UNCHANGED <<vmVars, taskVars, led, envVars>>

Step ==
    \/ Sample \/ SampleFails \/ TickOnce \/ Compare \/ Announce
    \/ Report \/ NoReport \/ Resend \/ CheckQuiet \/ Stop

(* The machine starts or stops shaking. *)
Machine ==
    /\ loud' = ~ loud
    /\ UNCHANGED <<vmVars, pc, taskVars, matterVars, led, failedReads>>

Next == Step \/ Machine

(* monitor_task is a FreeRTOS task of priority 5 that only ever waits for  *)
(* its own 10 ms delay and the CHIP stack lock: it keeps running.          *)
Spec == Init /\ [][Next]_vars /\ WF_vars(Step)

-----------------------------------------------------------------------------
(* Properties *)

(* At the top of the loop the attribute says what the window says, unless  *)
(* an update was refused: no change of is_running goes unannounced.        *)
ReportedStateIsCurrent ==
    pc = "sample" /\ lostUpdates = 0 => opState = VM!IsRunning

(* The device never sleeps with a machine reported Running, not even when  *)
(* one update of the way there was refused: the window runs empty, and is  *)
(* announced, in an earlier turn than the one that sleeps.                 *)
NeverAsleepRunning ==
    pc = "asleep" /\ lostUpdates <= 1 => ~ opState

(* A machine that keeps shaking ends up reported Running and stays so.     *)
(* (If the device had gone to sleep before, waking up is not this task's.) *)
ShakingIsReported ==
    <>[] loud => <>[] opState \/ <>(pc = "asleep")

(* A machine that stays quiet ends up with the device asleep. *)
QuietLeadsToSleep == <>[] ~ loud => <>(pc = "asleep")

(* A refused update is made good: the periodic report sends the state      *)
(* again, so the attribute catches up with the window, or the device       *)
(* sleeps.                                                                 *)
LostUpdateIsRepaired ==
    (opState # VM!IsRunning) ~> (opState = VM!IsRunning \/ pc = "asleep")

(* Composition: every step of the task is one that LaundryDetector, which  *)
(* does not know when the window is running or quiet, allows between       *)
(* entering the monitoring mode and arming the wake-up.                    *)
LD == INSTANCE LaundryDetector WITH
        pc <- CASE pc = "stop"   -> "report"
                [] pc = "asleep" -> "configure"
                [] OTHER         -> "monitor",
        refused <- lostUpdates > 0,
        EspWakeupTimer <- 4, MaxResets <- 0, MaxIdentifies <- 0,
        MaxDeafWindows <- 0,
        wakeup <- 7, fabricCount <- 1, commissioned <- TRUE,
        action <- "ACTIVE_MONITOR", interrupt <- "set",
        chipUp <- TRUE, blinks <- 0, identifies <- 0, fabrics <- 1,
        pairing <- FALSE, resets <- 0, deafWindows <- 0
StepsOfDetector == [][LD!Next]_(LD!vars)
=============================================================================
