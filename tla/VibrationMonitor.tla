-------------------------- MODULE VibrationMonitor --------------------------
(***************************************************************************)
(* devices/laundry-detector/main/vibration_monitor.c: the rolling window   *)
(* of one-second buckets, the quiet timer that decides when the detector   *)
(* sleeps and the report timer.  One action per function that changes      *)
(* state, one operator per function that reads it.  The module is          *)
(* sequential: its caller (monitor_task, LaundryMonitorTask here) runs one *)
(* call at a time.                                                         *)
(***************************************************************************)
EXTENDS Integers, FiniteSets

CONSTANTS
    VM_WINDOW_SECONDS,  \* slots of the ring: 120
    ThresholdMg,        \* s_cfg.threshold_mg
    BucketThreshold,    \* s_cfg.bucket_threshold
    QuietTimeout,       \* s_cfg.quiet_timeout_ms
    ReportInterval,     \* s_cfg.report_interval_ms
    Magnitudes,         \* the sample magnitudes fed, in mg
    TickSizes,          \* the elapsed times ticked, in ms
    MaxElapsed          \* bound: the value the 32-bit ms counters stay below

ASSUME VibrationMonitorAssumption ==
    /\ VM_WINDOW_SECONDS \in Nat /\ VM_WINDOW_SECONDS >= 2
    /\ ThresholdMg \in Nat
    /\ BucketThreshold \in Nat
    /\ QuietTimeout \in Nat
    /\ ReportInterval \in Nat
    /\ Magnitudes \subseteq Nat
    /\ TickSizes \subseteq Nat
    /\ MaxElapsed \in Nat

VARIABLES
    state,                \* s_state; VM_STATE_SLEEPING is never assigned
    buckets,              \* s_buckets
    bucketIdx,            \* s_bucket_idx
    currentBucketActive,  \* s_current_bucket_active
    msInCurrentBucket,    \* s_ms_in_current_bucket
    quietElapsed,         \* s_quiet_elapsed_ms
    reportElapsed,        \* s_report_elapsed_ms
    reportReady           \* s_report_ready

ringVars == <<buckets, bucketIdx, currentBucketActive, msInCurrentBucket>>
vmVars == <<state, ringVars, quietElapsed, reportElapsed, reportReady>>

Slots == 0 .. VM_WINDOW_SECONDS - 1

-----------------------------------------------------------------------------
(* The functions that only read *)

(* vibration_monitor_get_active_buckets *)
ActiveBuckets == Cardinality({i \in Slots : buckets[i]})

(* vibration_monitor_is_running *)
IsRunning == ActiveBuckets >= BucketThreshold

(* vibration_monitor_should_sleep *)
ShouldSleep == state = "ACTIVE" /\ quietElapsed > QuietTimeout

-----------------------------------------------------------------------------
(* The functions that write *)

(* vibration_monitor_init *)
Init ==
    /\ state = "STARTUP"
    /\ buckets = [i \in Slots |-> FALSE]
    /\ bucketIdx = 0
    /\ currentBucketActive = FALSE
    /\ msInCurrentBucket = 0
    /\ quietElapsed = 0
    /\ reportElapsed = 0
    /\ reportReady = FALSE

(* Mutants of FeedSample: the quiet timer is not restarted, the bucket is  *)
(* not marked.                                                             *)
FeedSampleKeepsQuiet(magnitude) ==
    /\ currentBucketActive' = (currentBucketActive \/ magnitude >= ThresholdMg)
    /\ UNCHANGED <<state, buckets, bucketIdx, msInCurrentBucket, quietElapsed,
                   reportElapsed, reportReady>>

FeedSampleUnmarked(magnitude) ==
    /\ quietElapsed' = IF magnitude >= ThresholdMg THEN 0 ELSE quietElapsed
    /\ UNCHANGED <<state, ringVars, reportElapsed, reportReady>>

(* vibration_monitor_feed_sample *)
FeedSample(magnitude) ==
    /\ IF magnitude >= ThresholdMg
       THEN currentBucketActive' = TRUE /\ quietElapsed' = 0
       ELSE UNCHANGED <<currentBucketActive, quietElapsed>>
    /\ UNCHANGED <<state, buckets, bucketIdx, msInCurrentBucket,
                   reportElapsed, reportReady>>

(* One turn of tick's loop: the bucket in progress is committed at the     *)
(* write position, and the slot after it is cleared.                       *)
Turn(loop) ==
    LET next == (loop.idx + 1) % VM_WINDOW_SECONDS
    IN  [ms |-> loop.ms - 1000,
         ring |-> [loop.ring EXCEPT ![loop.idx] = loop.active,
                                    ![next] = FALSE],
         idx |-> next,
         active |-> FALSE]

(* How many commits it takes the write position to reach slot i. *)
CommitsTo(i) ==
    IF i >= bucketIdx THEN i - bucketIdx
                      ELSE i - bucketIdx + VM_WINDOW_SECONDS

(* A mutant of BucketsAfter: the slot committed first survives a whole lap *)
(* of the ring.                                                            *)
BucketsNotLapped(k) ==
    [i \in Slots |->
        IF k = 0 \/ CommitsTo(i) > k
        THEN buckets[i]
        ELSE CommitsTo(i) = 0 /\ currentBucketActive]

(* The ring after k turns of tick's loop.  The later turns commit a bucket *)
(* that saw nothing.  The slot committed first is itself cleared by the    *)
(* turn that comes round to it.                                            *)
BucketsAfter(k) ==
    [i \in Slots |->
        IF k = 0 \/ CommitsTo(i) > k
        THEN buckets[i]
        ELSE CommitsTo(i) = 0 /\ k < VM_WINDOW_SECONDS /\ currentBucketActive]

(* Mutants of the two: the ring index does not wrap, the bucket in         *)
(* progress stays marked.                                                  *)
IdxUnwrapped(k) == bucketIdx + k
StillActive(k) == currentBucketActive

(* s_bucket_idx, and s_current_bucket_active, after k turns of the loop    *)
IdxAfter(k) == (bucketIdx + k) % VM_WINDOW_SECONDS
ActiveAfter(k) == k = 0 /\ currentBucketActive

(* The report interval has passed, in ACTIVE. *)
ReportDue(elapsed) ==
    state = "ACTIVE" /\ reportElapsed + elapsed >= ReportInterval

(* vibration_monitor_tick; the guard keeps the counters in their 32 bits. *)
Tick(elapsed) ==
    LET k == (msInCurrentBucket + elapsed) \div 1000 IN
    /\ quietElapsed + elapsed <= MaxElapsed
    /\ reportElapsed + elapsed <= MaxElapsed
    /\ msInCurrentBucket' = msInCurrentBucket + elapsed - 1000 * k
    /\ buckets' = BucketsAfter(k)
    /\ bucketIdx' = IdxAfter(k)
    /\ currentBucketActive' = ActiveAfter(k)
    /\ quietElapsed' = quietElapsed + elapsed
    /\ reportElapsed' = IF ReportDue(elapsed) THEN 0
                                              ELSE reportElapsed + elapsed
    /\ reportReady' = (ReportDue(elapsed) \/ reportReady)
    /\ UNCHANGED state

(* vibration_monitor_report_ready, when it returns true *)
TakeReport ==
    /\ reportReady
    /\ reportReady' = FALSE
    /\ UNCHANGED <<state, ringVars, quietElapsed, reportElapsed>>

(* vibration_monitor_notify_wake *)
NotifyWake ==
    /\ state' = "ACTIVE"
    /\ quietElapsed' = 0
    /\ UNCHANGED <<ringVars, reportElapsed, reportReady>>

(* vibration_monitor_reset *)
Reset ==
    /\ state' = "STARTUP"
    /\ buckets' = [i \in Slots |-> FALSE]
    /\ bucketIdx' = 0
    /\ currentBucketActive' = FALSE
    /\ msInCurrentBucket' = 0
    /\ quietElapsed' = 0
    /\ reportElapsed' = 0
    /\ reportReady' = FALSE

Next ==
    \/ \E magnitude \in Magnitudes : FeedSample(magnitude)
    \/ \E elapsed \in TickSizes : Tick(elapsed)
    \/ TakeReport
    \/ NotifyWake
    \/ Reset

Spec == Init /\ [][Next]_vmVars

-----------------------------------------------------------------------------
(* Properties *)

(* Every counter stays in its range: s_bucket_idx inside the ring,         *)
(* s_ms_in_current_bucket below one second once tick has returned.         *)
TypeOK ==
    /\ state \in {"STARTUP", "ACTIVE"}
    /\ buckets \in [Slots -> BOOLEAN]
    /\ bucketIdx \in Slots
    /\ currentBucketActive \in BOOLEAN
    /\ msInCurrentBucket \in 0 .. 999
    /\ quietElapsed \in 0 .. MaxElapsed
    /\ reportElapsed \in 0 .. MaxElapsed
    /\ reportReady \in BOOLEAN

(* The slot at the write position is clear: the ring never counts a second *)
(* twice, once as the oldest bucket and once as the one in progress.       *)
WritePositionClear == ~ buckets[bucketIdx]

(* A bucket is evidence of vibration no older than its place in the ring   *)
(* says: when slot i is set, the last sample over the threshold is at most *)
(* as far back as the start of the second that slot i stands for.          *)
QuietBoundedByAge ==
    /\ currentBucketActive => quietElapsed <= msInCurrentBucket
    /\ \A i \in Slots :
          buckets[i] => quietElapsed <=
              1000 * (VM_WINDOW_SECONDS - CommitsTo(i)) + msInCurrentBucket

(* The device goes to sleep on should_sleep, which looks only at the quiet *)
(* timer; the state reported to Matter comes from the buckets.  With a     *)
(* quiet timeout of at least the window the two agree: when should_sleep   *)
(* says so no bucket is set, so a machine reported Running is never put to *)
(* sleep.                                                                  *)
SleepOnlyWhenWindowEmpty ==
    QuietTimeout + 1 >= 1000 * VM_WINDOW_SECONDS =>
        (ShouldSleep => \A i \in Slots : ~ buckets[i])

(* The ring of 1-second buckets implements a window over the last          *)
(* VM_WINDOW_SECONDS - 1 completed seconds: the slot at the write position *)
(* is always clear and stands for none of them.                            *)
SlotOfAge(a) ==
    IF bucketIdx > a THEN bucketIdx - 1 - a
                     ELSE bucketIdx - 1 - a + VM_WINDOW_SECONDS

Window == INSTANCE SlidingWindow WITH
    Depth <- VM_WINDOW_SECONDS - 1,
    ElapsedChoices <- TickSizes,
    recent <- [a \in 0 .. VM_WINDOW_SECONDS - 2 |-> buckets[SlotOfAge(a)]],
    current <- currentBucketActive,
    phase <- msInCurrentBucket

(* Every call of the monitor is a step of the sliding window, or leaves it *)
(* as it is: no second is lost, counted twice or kept too long.            *)
ImplementsSlidingWindow == Window!Spec
=============================================================================
