--------------------- MODULE LaundryMonitorTask_proofs ---------------------
(***************************************************************************)
(* Theorems about LaundryMonitorTask, for every window, threshold, timeout *)
(* and interval.  What VibrationMonitor_proofs shows of the monitor with   *)
(* any caller is shown here, more easily, of the monitor in its task: one  *)
(* turn of the loop completes at most one second.                          *)
(***************************************************************************)
EXTENDS LaundryMonitorTask, FiniteSetTheorems, TLAPS

TaskTypeOK ==
    /\ pc \in {"sample", "tick", "compare", "announce", "report", "resend",
               "quiet", "stop", "asleep"}
    /\ running \in BOOLEAN /\ lastRunning \in BOOLEAN
    /\ opState \in BOOLEAN /\ wasRunning \in BOOLEAN
    /\ led \in {"ACTIVE", "ACTIVE_VIBRATING"}
    /\ loud \in BOOLEAN
    /\ lostUpdates \in 0 .. MaxLostUpdates
    /\ failedReads \in 0 .. MaxFailedReads

(* last_running says what the window said when the turn looked at it, and  *)
(* still does when the next turn starts.                                   *)
LastRunningFollowsWindow ==
    /\ pc # "compare" => lastRunning = VM!IsRunning
    /\ pc \in {"announce", "report", "resend", "quiet", "stop", "asleep"} =>
          running = lastRunning

(* Unless an update was refused the attribute is what last_running says,   *)
(* except between a change and its announcement, and after the last        *)
(* report.                                                                 *)
AttributeFollowsTask ==
    lostUpdates = 0 =>
        /\ pc \notin {"announce", "asleep"} => opState = lastRunning
        /\ pc = "asleep" => ~ opState

(* The loop is left with an empty window. *)
StopsWithEmptyWindow == pc = "stop" => ~ VM!IsRunning

(* The monitor's part, the task's part, and what sleeping adds. *)
MonitorInv == VM!TypeOK /\ VM!WritePositionClear /\ VM!QuietBoundedByAge

TaskInv == TaskTypeOK /\ LastRunningFollowsWindow /\ AttributeFollowsTask

SleepInv == StopsWithEmptyWindow /\ NeverAsleepRunning

-----------------------------------------------------------------------------
(* The monitor in its task *)

(* The write position moves on by one, round the ring. *)
LEMMA NextSlot ==
    ASSUME NEW w \in Nat, w >= 2, NEW x \in 0 .. w - 1
    PROVE  (x + 1) % w = IF x + 1 = w THEN 0 ELSE x + 1
<1>1. CASE x + 1 = w
  BY <1>1
<1>2. CASE x + 1 # w
  BY <1>2
<1> QED
  BY <1>1, <1>2

LEMMA NoDistance ==
    ASSUME NEW n \in Nat, NEW x \in 0 .. n - 1, NEW y \in 0 .. n - 1
    PROVE  (IF x >= y THEN x - y ELSE x - y + n) = 0 <=> x = y
  OBVIOUS

(* A second more of age allows a second more of quiet.                     *)
LEMMA SecondOlder ==
    ASSUME NEW n \in Int, NEW quiet \in Int, NEW ms \in Int, NEW later \in Int,
           NEW d \in Int, later = ms + d - 1000, quiet <= 1000 * n + ms
    PROVE  quiet + d <= 1000 * (n + 1) + later
  OBVIOUS

LEMMA CommitsToRange ==
    ASSUME VM!TypeOK, NEW i \in VM!Slots
    PROVE  /\ VM!CommitsTo(i) \in 0 .. VM_WINDOW_SECONDS - 1
           /\ VM!CommitsTo(i) = 0 <=> i = bucketIdx
  BY MonitorTaskAssumption DEF VM!TypeOK, VM!CommitsTo, VM!Slots

LEMMA NewWritePosition ==
    ASSUME VM!TypeOK'
    PROVE  /\ bucketIdx' \in VM!Slots
           /\ \A i \in VM!Slots : VM!CommitsTo(i)' = 0 <=> i = bucketIdx'
<1>1. bucketIdx' \in 0 .. VM_WINDOW_SECONDS - 1 /\ VM_WINDOW_SECONDS \in Nat
  BY MonitorTaskAssumption DEF VM!TypeOK, VM!Slots
<1>2. ASSUME NEW i \in VM!Slots
      PROVE  VM!CommitsTo(i)' = 0 <=> i = bucketIdx'
  <2>1. i \in 0 .. VM_WINDOW_SECONDS - 1
    BY DEF VM!Slots
  <2> QED
    BY <1>1, <2>1, NoDistance DEF VM!CommitsTo
<1> QED
  BY <1>1, <1>2 DEF VM!Slots

LEMMA MonitorInit == Init => MonitorInv
<1> SUFFICES ASSUME Init PROVE MonitorInv
  OBVIOUS
<1>1. buckets \in [VM!Slots -> BOOLEAN] /\ \A i \in VM!Slots : ~ buckets[i]
  BY DEF Init
<1>2. /\ 0 \in VM!Slots /\ 0 \in 0 .. MaxElapsed /\ 0 \in 0 .. 999
  BY MonitorTaskAssumption DEF VM!Slots
<1>3. VM!TypeOK
  BY <1>1, <1>2 DEF Init, VM!TypeOK
<1>4. VM!WritePositionClear
  BY <1>1, <1>2 DEF Init, VM!WritePositionClear
<1>5. VM!QuietBoundedByAge
  BY <1>1 DEF Init, VM!QuietBoundedByAge
<1> QED
  BY <1>3, <1>4, <1>5 DEF MonitorInv

(* A tick that completes no second lets time pass, and one that completes  *)
(* a second commits the bucket in progress.                                *)
WithinSecond ==
    /\ msInCurrentBucket' = msInCurrentBucket + SampleInterval
    /\ msInCurrentBucket' \in 0 .. 999
    /\ UNCHANGED <<bucketIdx, buckets, currentBucketActive>>

SecondIsOver ==
    /\ msInCurrentBucket' = msInCurrentBucket + SampleInterval - 1000
    /\ msInCurrentBucket' \in 0 .. 999
    /\ bucketIdx' = (bucketIdx + 1) % VM_WINDOW_SECONDS
    /\ buckets' = [i \in VM!Slots |->
          IF VM!CommitsTo(i) > 1 THEN buckets[i]
          ELSE VM!CommitsTo(i) = 0 /\ currentBucketActive]
    /\ currentBucketActive' = FALSE

LEMMA TickIsOneCommit ==
    ASSUME VM!TypeOK, VM!Tick(SampleInterval)
    PROVE  WithinSecond \/ SecondIsOver
<1>1. /\ SampleInterval \in 1 .. 1000 /\ VM_WINDOW_SECONDS \in Nat
      /\ VM_WINDOW_SECONDS >= 2
  BY MonitorTaskAssumption
<1>2. /\ msInCurrentBucket \in 0 .. 999 /\ currentBucketActive \in BOOLEAN
      /\ bucketIdx \in 0 .. VM_WINDOW_SECONDS - 1
      /\ buckets \in [VM!Slots -> BOOLEAN]
  BY DEF VM!TypeOK, VM!Slots
<1>3. (msInCurrentBucket + SampleInterval) \div 1000 =
        IF msInCurrentBucket + SampleInterval < 1000 THEN 0 ELSE 1
  BY <1>1, <1>2
<1>4. CASE msInCurrentBucket + SampleInterval < 1000
  <2>1. (msInCurrentBucket + SampleInterval) \div 1000 = 0
    BY <1>3, <1>4
  <2>2. /\ msInCurrentBucket' = msInCurrentBucket + SampleInterval - 1000 * 0
        /\ buckets' = VM!BucketsAfter(0)
        /\ bucketIdx' = VM!IdxAfter(0)
        /\ currentBucketActive' = VM!ActiveAfter(0)
    BY <2>1 DEF VM!Tick
  <2>3. bucketIdx' = bucketIdx
    BY <1>1, <1>2, <2>2 DEF VM!IdxAfter
  <2>4. buckets' = buckets
    BY <1>2, <2>2 DEF VM!BucketsAfter
  <2>5. currentBucketActive' = currentBucketActive
    BY <1>2, <2>2 DEF VM!ActiveAfter
  <2> QED
    BY <1>1, <1>2, <1>4, <2>2, <2>3, <2>4, <2>5 DEF WithinSecond
<1>5. CASE ~ (msInCurrentBucket + SampleInterval < 1000)
  <2>1. (msInCurrentBucket + SampleInterval) \div 1000 = 1
    BY <1>3, <1>5
  <2>2. /\ msInCurrentBucket' = msInCurrentBucket + SampleInterval - 1000 * 1
        /\ buckets' = VM!BucketsAfter(1)
        /\ bucketIdx' = (bucketIdx + 1) % VM_WINDOW_SECONDS
        /\ currentBucketActive' = VM!ActiveAfter(1)
    BY <2>1 DEF VM!Tick, VM!IdxAfter
  <2>3. 1 < VM_WINDOW_SECONDS /\ 1 # 0
    BY <1>1
  <2>4. buckets' = [i \in VM!Slots |->
                       IF VM!CommitsTo(i) > 1 THEN buckets[i]
                       ELSE VM!CommitsTo(i) = 0 /\ currentBucketActive]
    BY <2>2, <2>3 DEF VM!BucketsAfter
  <2>5. currentBucketActive' = FALSE
    BY <2>2, <2>3 DEF VM!ActiveAfter
  <2> QED
    BY <1>1, <1>2, <1>5, <2>2, <2>4, <2>5 DEF SecondIsOver
<1> QED
  BY <1>4, <1>5

LEMMA TickKeepsMonitorInv ==
    ASSUME MonitorInv, VM!Tick(SampleInterval)
    PROVE  MonitorInv'
<1>1. /\ VM!TypeOK /\ VM!WritePositionClear /\ VM!QuietBoundedByAge
  BY DEF MonitorInv
<1>2. /\ SampleInterval \in 1 .. 1000 /\ VM_WINDOW_SECONDS \in Nat
      /\ VM_WINDOW_SECONDS >= 2
  BY MonitorTaskAssumption
<1>3. /\ msInCurrentBucket \in 0 .. 999 /\ quietElapsed \in Nat
      /\ bucketIdx \in 0 .. VM_WINDOW_SECONDS - 1
      /\ currentBucketActive \in BOOLEAN
      /\ buckets \in [VM!Slots -> BOOLEAN]
  BY <1>1, MonitorTaskAssumption DEF VM!TypeOK, VM!Slots
<1>4. /\ quietElapsed' = quietElapsed + SampleInterval
      /\ quietElapsed' \in 0 .. MaxElapsed
      /\ reportElapsed' \in 0 .. MaxElapsed
      /\ reportReady' \in BOOLEAN /\ state' \in {"STARTUP", "ACTIVE"}
  BY <1>1, <1>2, MonitorTaskAssumption
  DEF VM!Tick, VM!ReportDue, VM!TypeOK
<1>5. \A i \in VM!Slots : /\ VM!CommitsTo(i) \in 0 .. VM_WINDOW_SECONDS - 1
                          /\ VM!CommitsTo(i) = 0 <=> i = bucketIdx
  BY <1>1, CommitsToRange
<1>6. CASE WithinSecond
  <2>1. VM!TypeOK'
    BY <1>2, <1>3, <1>4, <1>6 DEF WithinSecond, VM!TypeOK, VM!Slots
  <2>2. VM!WritePositionClear'
    BY <1>1, <1>6 DEF WithinSecond, VM!WritePositionClear
  <2>3. \A i \in VM!Slots : VM!CommitsTo(i)' = VM!CommitsTo(i)
    BY <1>6 DEF WithinSecond, VM!CommitsTo
  <2>4. /\ quietElapsed' = quietElapsed + SampleInterval
        /\ msInCurrentBucket' = msInCurrentBucket + SampleInterval
        /\ currentBucketActive' = currentBucketActive /\ buckets' = buckets
    BY <1>4, <1>6 DEF WithinSecond
  <2>5. currentBucketActive' => quietElapsed' <= msInCurrentBucket'
    BY <1>1, <1>2, <1>3, <2>4 DEF VM!QuietBoundedByAge
  <2>6. ASSUME NEW i \in VM!Slots, buckets'[i]
        PROVE  quietElapsed' <=
                 1000 * (VM_WINDOW_SECONDS - VM!CommitsTo(i)')
                   + msInCurrentBucket'
    <3>1. quietElapsed <=
            1000 * (VM_WINDOW_SECONDS - VM!CommitsTo(i)) + msInCurrentBucket
      BY <1>1, <2>4, <2>6 DEF VM!QuietBoundedByAge
    <3>2. VM!CommitsTo(i) \in Int
      BY <1>5
    <3>3. quietElapsed + SampleInterval <=
            1000 * (VM_WINDOW_SECONDS - VM!CommitsTo(i))
              + msInCurrentBucket + SampleInterval
      BY <1>2, <1>3, <3>1, <3>2
    <3> QED
      BY <1>2, <1>3, <2>3, <2>4, <3>2, <3>3
  <2>7. VM!QuietBoundedByAge'
    BY <2>5, <2>6 DEF VM!QuietBoundedByAge, VM!Slots
  <2> QED
    BY <2>1, <2>2, <2>7 DEF MonitorInv
<1>7. CASE SecondIsOver
  <2>1. bucketIdx' = IF bucketIdx + 1 = VM_WINDOW_SECONDS THEN 0
                                                        ELSE bucketIdx + 1
    <3>1. bucketIdx' = (bucketIdx + 1) % VM_WINDOW_SECONDS
      BY <1>7 DEF SecondIsOver
    <3> QED
      BY <1>2, <1>3, <3>1, NextSlot
  <2>2. ASSUME NEW i \in VM!Slots
        PROVE  VM!CommitsTo(i)' = IF i = bucketIdx
                                  THEN VM_WINDOW_SECONDS - 1
                                  ELSE VM!CommitsTo(i) - 1
    <3>1. i \in 0 .. VM_WINDOW_SECONDS - 1
      BY DEF VM!Slots
    <3>2. CASE bucketIdx + 1 = VM_WINDOW_SECONDS
      BY <1>2, <1>3, <2>1, <3>1, <3>2 DEF VM!CommitsTo
    <3>3. CASE bucketIdx + 1 # VM_WINDOW_SECONDS
      BY <1>2, <1>3, <2>1, <3>1, <3>3 DEF VM!CommitsTo
    <3> QED
      BY <3>2, <3>3
  <2>3. VM!TypeOK'
    <3>1. bucketIdx' \in 0 .. VM_WINDOW_SECONDS - 1
      BY <1>2, <1>3, <2>1
    <3>2. currentBucketActive' \in BOOLEAN /\ msInCurrentBucket' \in 0 .. 999
      BY <1>7 DEF SecondIsOver
    <3>3. ASSUME NEW i \in VM!Slots
          PROVE  (IF VM!CommitsTo(i) > 1 THEN buckets[i]
                  ELSE VM!CommitsTo(i) = 0 /\ currentBucketActive) \in BOOLEAN
      BY <1>3
    <3>4. buckets' \in [VM!Slots -> BOOLEAN]
      BY <1>7, <3>3 DEF SecondIsOver
    <3> QED
      BY <1>4, <3>1, <3>2, <3>4 DEF VM!TypeOK, VM!Slots
  <2>4. VM!WritePositionClear'
    <3> SUFFICES ASSUME NEW i \in VM!Slots, VM!CommitsTo(i)' = 0
                 PROVE  ~ buckets'[i]
      BY <2>3, NewWritePosition DEF VM!WritePositionClear
    <3>1. VM!CommitsTo(i) = 1
      BY <1>2, <1>5, <2>2
    <3>2. buckets'[i] = IF VM!CommitsTo(i) > 1 THEN buckets[i]
                        ELSE VM!CommitsTo(i) = 0 /\ currentBucketActive
      BY <1>7 DEF SecondIsOver
    <3>3. ~ (VM!CommitsTo(i) > 1) /\ VM!CommitsTo(i) # 0
      BY <3>1
    <3> QED
      BY <3>2, <3>3
  <2>5. ASSUME NEW i \in VM!Slots, buckets'[i]
        PROVE  quietElapsed' <=
                 1000 * (VM_WINDOW_SECONDS - VM!CommitsTo(i)')
                   + msInCurrentBucket'
    <3>1. /\ quietElapsed \in Int /\ SampleInterval \in Int
          /\ msInCurrentBucket \in Int /\ msInCurrentBucket' \in Int
          /\ VM_WINDOW_SECONDS \in Int /\ VM!CommitsTo(i) \in Int
          /\ msInCurrentBucket' = msInCurrentBucket + SampleInterval - 1000
      <4>1. /\ msInCurrentBucket' \in Int
            /\ msInCurrentBucket' = msInCurrentBucket + SampleInterval - 1000
        BY <1>7 DEF SecondIsOver
      <4>2. VM!CommitsTo(i) \in Int
        BY <1>5
      <4> QED
        BY <1>2, <1>3, <4>1, <4>2
    <3>2. CASE VM!CommitsTo(i) > 1
      <4>1. /\ buckets[i] /\ i # bucketIdx
        BY <1>5, <1>7, <2>5, <3>2 DEF SecondIsOver
      <4>2. VM!CommitsTo(i)' = VM!CommitsTo(i) - 1
        BY <2>2, <4>1
      <4>3. quietElapsed <=
              1000 * (VM_WINDOW_SECONDS - VM!CommitsTo(i)) + msInCurrentBucket
        BY <1>1, <4>1 DEF VM!QuietBoundedByAge
      <4>4. /\ VM_WINDOW_SECONDS - VM!CommitsTo(i) \in Int
            /\ VM_WINDOW_SECONDS - (VM!CommitsTo(i) - 1)
                 = VM_WINDOW_SECONDS - VM!CommitsTo(i) + 1
        BY <3>1
      <4>5. quietElapsed + SampleInterval <=
              1000 * (VM_WINDOW_SECONDS - VM!CommitsTo(i) + 1)
                + msInCurrentBucket'
        BY <3>1, <4>3, <4>4, SecondOlder
      <4> QED
        BY <1>4, <4>2, <4>4, <4>5
    <3>3. CASE ~ (VM!CommitsTo(i) > 1)
      <4>1. buckets'[i] = IF VM!CommitsTo(i) > 1 THEN buckets[i]
                          ELSE VM!CommitsTo(i) = 0 /\ currentBucketActive
        BY <1>7 DEF SecondIsOver
      <4>2. VM!CommitsTo(i) = 0 /\ currentBucketActive
        BY <2>5, <3>3, <4>1
      <4>3. VM!CommitsTo(i)' = VM_WINDOW_SECONDS - 1
        BY <1>5, <2>2, <4>2
      <4>4. quietElapsed <= msInCurrentBucket
        BY <1>1, <4>2 DEF VM!QuietBoundedByAge
      <4> QED
        BY <1>4, <3>1, <4>3, <4>4
    <3> QED
      BY <3>2, <3>3
  <2>6. VM!QuietBoundedByAge'
    BY <1>7, <2>5 DEF SecondIsOver, VM!QuietBoundedByAge, VM!Slots
  <2> QED
    BY <2>3, <2>4, <2>6 DEF MonitorInv
<1> QED
  BY <1>1, <1>6, <1>7, TickIsOneCommit

(* A sample over the threshold starts the quiet time over. *)
LEMMA FeedKeepsMonitorInv ==
    ASSUME MonitorInv, NEW vibration, VM!FeedSample(vibration)
    PROVE  MonitorInv'
<1>1. /\ VM!TypeOK /\ VM!WritePositionClear /\ VM!QuietBoundedByAge
  BY DEF MonitorInv
<1>2. \A i \in VM!Slots : VM!CommitsTo(i) \in 0 .. VM_WINDOW_SECONDS - 1
  BY <1>1, CommitsToRange
<1>3. UNCHANGED <<state, buckets, bucketIdx, msInCurrentBucket,
                  reportElapsed, reportReady>>
  BY DEF VM!FeedSample
<1>4. \A i \in VM!Slots : VM!CommitsTo(i)' = VM!CommitsTo(i)
  BY <1>3 DEF VM!CommitsTo
<1>5. CASE vibration >= ThresholdMg
  <2>1. /\ currentBucketActive' = TRUE /\ currentBucketActive' \in BOOLEAN
        /\ quietElapsed' = 0
    BY <1>5 DEF VM!FeedSample
  <2>2. VM!TypeOK'
    BY <1>1, <1>3, <2>1, MonitorTaskAssumption DEF VM!TypeOK, VM!Slots
  <2>3. VM!WritePositionClear'
    BY <1>1, <1>3 DEF VM!WritePositionClear
  <2>4. msInCurrentBucket \in 0 .. 999 /\ VM_WINDOW_SECONDS \in Nat
    BY <1>1, MonitorTaskAssumption DEF VM!TypeOK
  <2>5. VM!QuietBoundedByAge'
    BY <1>2, <1>3, <1>4, <2>1, <2>4 DEF VM!QuietBoundedByAge, VM!Slots
  <2> QED
    BY <2>2, <2>3, <2>5 DEF MonitorInv
<1>6. CASE ~ (vibration >= ThresholdMg)
  <2>1. UNCHANGED <<currentBucketActive, quietElapsed>>
    BY <1>6 DEF VM!FeedSample
  <2> QED
    BY <1>1, <1>3, <1>4, <2>1
    DEF MonitorInv, VM!TypeOK, VM!WritePositionClear, VM!QuietBoundedByAge,
        VM!Slots
<1> QED
  BY <1>5, <1>6

LEMMA StutterKeepsMonitorInv ==
    ASSUME MonitorInv, UNCHANGED <<state, buckets, bucketIdx,
               currentBucketActive, msInCurrentBucket, quietElapsed,
               reportElapsed>>, reportReady' \in BOOLEAN
    PROVE  MonitorInv'
<1>1. \A i \in VM!Slots : VM!CommitsTo(i)' = VM!CommitsTo(i)
  BY DEF VM!CommitsTo
<1> QED
  BY <1>1 DEF MonitorInv, VM!TypeOK, VM!WritePositionClear,
              VM!QuietBoundedByAge, VM!Slots

LEMMA MonitorNext == MonitorInv /\ [Next]_vars => MonitorInv'
<1> SUFFICES ASSUME MonitorInv, [Next]_vars PROVE MonitorInv'
  OBVIOUS
<1>1. CASE Sample
  <2>1. PICK vibration \in Vibrations[loud] : VM!FeedSample(vibration)
    BY <1>1 DEF Sample
  <2> QED
    BY <2>1, FeedKeepsMonitorInv
<1>2. CASE TickOnce
  BY <1>2, TickKeepsMonitorInv DEF TickOnce
<1>3. CASE Report
  BY <1>3, StutterKeepsMonitorInv DEF Report, VM!TakeReport, VM!ringVars
<1>4. ASSUME UNCHANGED vmVars
      PROVE  MonitorInv'
  BY <1>4, StutterKeepsMonitorInv DEF vmVars, MonitorInv, VM!TypeOK
<1>5. CASE \/ SampleFails \/ Compare \/ Announce \/ NoReport \/ Resend
           \/ CheckQuiet \/ Stop \/ Machine \/ UNCHANGED vars
  BY <1>4, <1>5
  DEF SampleFails, Compare, Announce, NoReport, Resend, CheckQuiet, Stop,
      Machine, vars
<1> QED
  BY <1>1, <1>2, <1>3, <1>5 DEF Next, Step

-----------------------------------------------------------------------------
(* What is_running depends on *)

LEMMA RunningType == VM!IsRunning \in BOOLEAN
  BY DEF VM!IsRunning

LEMMA RunningStays ==
    ASSUME UNCHANGED buckets
    PROVE  VM!IsRunning' = VM!IsRunning
  BY DEF VM!IsRunning, VM!ActiveBuckets, VM!Slots

LEMMA EmptyWindowIsQuiet ==
    ASSUME BucketThreshold > 0, \A i \in VM!Slots : ~ buckets[i]
    PROVE  ~ VM!IsRunning
<1>1. {i \in VM!Slots : buckets[i]} = {}
  OBVIOUS
<1>2. VM!Cardinality({}) = Cardinality({})
  BY DEF VM!Cardinality, Cardinality
<1>3. VM!ActiveBuckets = 0
  BY <1>1, <1>2, FS_EmptySet DEF VM!ActiveBuckets
<1> QED
  BY <1>3, MonitorTaskAssumption DEF VM!IsRunning

(* should_sleep, with a quiet time of at least the window, means that the  *)
(* window is empty.                                                        *)
LEMMA SleepNeedsEmptyWindow ==
    ASSUME MonitorInv, QuietTimeout + 1 >= 1000 * VM_WINDOW_SECONDS,
           VM!ShouldSleep
    PROVE  \A i \in VM!Slots : ~ buckets[i]
<1> SUFFICES ASSUME NEW i \in VM!Slots, buckets[i] PROVE FALSE
  OBVIOUS
<1>1. /\ VM!TypeOK /\ VM!WritePositionClear
      /\ quietElapsed <=
           1000 * (VM_WINDOW_SECONDS - VM!CommitsTo(i)) + msInCurrentBucket
  BY DEF MonitorInv, VM!QuietBoundedByAge
<1>2. VM!CommitsTo(i) \in 1 .. VM_WINDOW_SECONDS - 1
  BY <1>1, CommitsToRange, MonitorTaskAssumption DEF VM!WritePositionClear
<1>3. /\ quietElapsed \in Nat /\ msInCurrentBucket \in 0 .. 999
      /\ VM_WINDOW_SECONDS \in Nat /\ QuietTimeout \in Nat
      /\ quietElapsed > QuietTimeout
  BY <1>1, MonitorTaskAssumption DEF VM!TypeOK, VM!ShouldSleep
<1> QED
  BY <1>1, <1>2, <1>3

-----------------------------------------------------------------------------
(* The task *)

(* A report either arrives or is counted as lost. *)
LEMMA UpdateIsMadeOrLost ==
    ASSUME TaskTypeOK, NEW value \in BOOLEAN, UpdateOperationalState(value)
    PROVE  /\ wasRunning' \in BOOLEAN /\ opState' \in BOOLEAN
           /\ lostUpdates' \in 0 .. MaxLostUpdates
           /\ \/ opState' = value /\ lostUpdates' = lostUpdates
              \/ opState' = opState /\ lostUpdates' = lostUpdates + 1
  BY MonitorTaskAssumption DEF UpdateOperationalState, TaskTypeOK

LEMMA TypeInit == Init => TaskTypeOK
<1> SUFFICES ASSUME Init PROVE TaskTypeOK
  OBVIOUS
<1>1. lostUpdates \in 0 .. MaxLostUpdates /\ failedReads \in 0 .. MaxFailedReads
  BY MonitorTaskAssumption DEF Init
<1> QED
  BY <1>1 DEF Init, TaskTypeOK

LEMMA TypeNext == TaskTypeOK /\ [Next]_vars => TaskTypeOK'
<1> SUFFICES ASSUME TaskTypeOK, [Next]_vars PROVE TaskTypeOK'
  OBVIOUS
<1>1. CASE Sample
  <2>1. /\ pc' = "tick" /\ led' \in {"ACTIVE", "ACTIVE_VIBRATING"}
        /\ UNCHANGED <<taskVars, matterVars, envVars>>
    BY <1>1 DEF Sample, Goto
  <2> QED
    BY <2>1 DEF TaskTypeOK, taskVars, matterVars, envVars
<1>2. CASE SampleFails
  <2>1. failedReads' \in 0 .. MaxFailedReads
    BY <1>2, MonitorTaskAssumption DEF SampleFails, TaskTypeOK
  <2> QED
    BY <1>2, <2>1 DEF SampleFails, Goto, TaskTypeOK, taskVars, matterVars
<1>3. CASE Compare
  <2>1. /\ running' \in BOOLEAN /\ lastRunning' \in BOOLEAN
        /\ pc' \in {"announce", "report"}
        /\ UNCHANGED <<matterVars, led, envVars>>
    BY <1>3, RunningType DEF Compare
  <2> QED
    BY <2>1 DEF TaskTypeOK, matterVars, envVars
<1>4. CASE Announce \/ Resend \/ Stop
  <2>1. PICK value \in BOOLEAN : UpdateOperationalState(value)
    BY <1>4 DEF Announce, Resend, Stop, TaskTypeOK
  <2>2. /\ wasRunning' \in BOOLEAN /\ opState' \in BOOLEAN
        /\ lostUpdates' \in 0 .. MaxLostUpdates
    BY <2>1, UpdateIsMadeOrLost
  <2>3. /\ pc' \in {"report", "quiet", "asleep"}
        /\ UNCHANGED <<taskVars, led, envVars>>
    BY <1>4 DEF Announce, Resend, Stop, Goto
  <2> QED
    BY <2>2, <2>3 DEF TaskTypeOK, taskVars, envVars
<1>5. CASE TickOnce \/ Report \/ NoReport \/ CheckQuiet
  <2>1. /\ pc' \in {"compare", "resend", "quiet", "stop", "sample"}
        /\ UNCHANGED <<taskVars, matterVars, led, envVars>>
    BY <1>5 DEF TickOnce, Report, NoReport, CheckQuiet, Goto
  <2> QED
    BY <2>1 DEF TaskTypeOK, taskVars, matterVars, envVars
<1>6. CASE Machine \/ UNCHANGED vars
  <2>1. /\ loud' \in BOOLEAN
        /\ UNCHANGED <<pc, taskVars, matterVars, led, failedReads>>
    BY <1>6 DEF Machine, vars, envVars, TaskTypeOK
  <2> QED
    BY <2>1 DEF TaskTypeOK, taskVars, matterVars
<1> QED
  BY <1>1, <1>2, <1>3, <1>4, <1>5, <1>6 DEF Next, Step

LEMMA TaskInit ==
    ASSUME BucketThreshold > 0
    PROVE  Init => TaskInv
<1> SUFFICES ASSUME Init PROVE TaskInv
  OBVIOUS
<1>1. ~ VM!IsRunning /\ VM!IsRunning \in BOOLEAN
  BY EmptyWindowIsQuiet, RunningType DEF Init
<1>2. TaskTypeOK
  BY TypeInit
<1> QED
  BY <1>1, <1>2
  DEF Init, TaskInv, LastRunningFollowsWindow, AttributeFollowsTask

LEMMA TaskNext == TaskInv /\ [Next]_vars => TaskInv'
<1> SUFFICES ASSUME TaskInv, [Next]_vars PROVE TaskInv'
  OBVIOUS
<1> USE DEF TaskInv, LastRunningFollowsWindow, AttributeFollowsTask
<1>1. TaskTypeOK /\ TaskTypeOK' /\ lostUpdates \in Nat
  BY TypeNext, MonitorTaskAssumption DEF TaskTypeOK
<1>2. UNCHANGED buckets => VM!IsRunning' = VM!IsRunning
  BY RunningStays
<1>3. ASSUME UNCHANGED <<buckets, taskVars, matterVars>>,
             \/ UNCHANGED pc
             \/ pc = "sample" /\ pc' = "tick"
             \/ pc = "report" /\ pc' \in {"resend", "quiet"}
             \/ pc = "quiet" /\ pc' \in {"stop", "sample"}
      PROVE  TaskInv'
  BY <1>1, <1>2, <1>3 DEF taskVars, matterVars
<1>4. CASE \/ Sample \/ SampleFails \/ Report \/ NoReport \/ CheckQuiet
           \/ Machine \/ UNCHANGED vars
  <2>1. UNCHANGED <<buckets, taskVars, matterVars>>
    BY <1>4
    DEF Sample, SampleFails, Report, NoReport, CheckQuiet, Machine, vars,
        VM!FeedSample, VM!TakeReport, VM!ringVars, vmVars
  <2>2. \/ UNCHANGED pc
        \/ pc = "sample" /\ pc' = "tick"
        \/ pc = "report" /\ pc' \in {"resend", "quiet"}
        \/ pc = "quiet" /\ pc' \in {"stop", "sample"}
    BY <1>4
    DEF Sample, SampleFails, Report, NoReport, CheckQuiet, Machine, vars, Goto
  <2> QED
    BY <1>3, <2>1, <2>2
<1>5. CASE TickOnce
  BY <1>1, <1>5 DEF TickOnce, Goto, taskVars, matterVars
<1>6. CASE Compare
  <2>1. /\ running' = VM!IsRunning /\ lastRunning' = VM!IsRunning
        /\ UNCHANGED <<vmVars, matterVars>>
        /\ pc = "compare"
        /\ \/ pc' = "announce"
           \/ pc' = "report" /\ lastRunning' = lastRunning
    BY <1>6 DEF Compare
  <2>2. VM!IsRunning' = VM!IsRunning
    BY <1>2, <2>1 DEF vmVars
  <2> QED
    BY <1>1, <2>1, <2>2 DEF matterVars
<1>7. CASE Announce \/ Resend
  <2>1. /\ UpdateOperationalState(running)
        /\ UNCHANGED <<vmVars, taskVars>>
        /\ \/ pc = "announce" /\ pc' = "report"
           \/ pc = "resend" /\ pc' = "quiet"
    BY <1>7 DEF Announce, Resend, Goto
  <2>2. LastRunningFollowsWindow'
    BY <1>2, <2>1 DEF vmVars, taskVars
  <2>3. running \in BOOLEAN
    BY <1>1 DEF TaskTypeOK
  <2>4. \/ opState' = running /\ lostUpdates' = lostUpdates
        \/ opState' = opState /\ lostUpdates' = lostUpdates + 1
    BY <1>1, <2>1, <2>3, UpdateIsMadeOrLost
  <2>5. lostUpdates' = 0 => opState' = running
    BY <1>1, <2>4
  <2>6. AttributeFollowsTask'
    BY <2>1, <2>5 DEF taskVars
  <2> QED
    BY <1>1, <2>2, <2>6
<1>8. CASE Stop
  <2>1. /\ UpdateOperationalState(FALSE)
        /\ UNCHANGED <<vmVars, taskVars>>
        /\ pc = "stop" /\ pc' = "asleep"
    BY <1>8 DEF Stop, Goto
  <2>2. \/ opState' = FALSE /\ lostUpdates' = lostUpdates
        \/ opState' = opState /\ lostUpdates' = lostUpdates + 1
    BY <1>1, <2>1, UpdateIsMadeOrLost
  <2>3. LastRunningFollowsWindow'
    BY <1>2, <2>1 DEF vmVars, taskVars
  <2>4. AttributeFollowsTask'
    BY <1>1, <2>1, <2>2
  <2> QED
    BY <1>1, <2>3, <2>4
<1> QED
  BY <1>4, <1>5, <1>6, <1>7, <1>8 DEF Next, Step

LEMMA MonitorHolds == Spec => []MonitorInv
  BY MonitorInit, MonitorNext, PTL DEF Spec

LEMMA TypeHolds == Spec => []TaskTypeOK
  BY TypeInit, TypeNext, PTL DEF Spec

LEMMA TaskHolds ==
    ASSUME BucketThreshold > 0
    PROVE  Spec => []TaskInv
  BY TaskInit, TaskNext, PTL DEF Spec

(* When at least one bucket is needed for Running, a turn of the loop ends *)
(* with the attribute at what the window says, unless an update was lost.  *)
THEOREM ReportsAreCurrent ==
    ASSUME BucketThreshold > 0
    PROVE  Spec => []ReportedStateIsCurrent
<1>1. TaskInv => ReportedStateIsCurrent
  BY DEF TaskInv, LastRunningFollowsWindow, AttributeFollowsTask,
         ReportedStateIsCurrent
<1> QED
  BY <1>1, TaskHolds, PTL

-----------------------------------------------------------------------------
(* Sleeping *)

LEMMA SleepInit == Init => SleepInv
  BY DEF Init, SleepInv, StopsWithEmptyWindow, NeverAsleepRunning

(* The loop is left, and the last report is made, with a window that ran   *)
(* empty in an earlier turn; nothing else leads to "stop" or "asleep".     *)
LEMMA SleepNext ==
    ASSUME BucketThreshold > 0,
           QuietTimeout + 1 >= 1000 * VM_WINDOW_SECONDS
    PROVE  MonitorInv /\ TaskInv /\ SleepInv /\ [Next]_vars => SleepInv'
<1> SUFFICES ASSUME MonitorInv, TaskInv, SleepInv, [Next]_vars
             PROVE  SleepInv'
  OBVIOUS
<1>1. /\ TaskTypeOK /\ LastRunningFollowsWindow /\ AttributeFollowsTask
      /\ StopsWithEmptyWindow /\ NeverAsleepRunning
      /\ lostUpdates \in Nat
  BY MonitorTaskAssumption DEF TaskInv, SleepInv, TaskTypeOK
<1>2. UNCHANGED buckets => VM!IsRunning' = VM!IsRunning
  BY RunningStays
<1>3. CASE pc' \notin {"stop", "asleep"}
  BY <1>3 DEF SleepInv, StopsWithEmptyWindow, NeverAsleepRunning
<1>4. CASE CheckQuiet
  <2>1. /\ UNCHANGED <<buckets, lostUpdates, opState>>
        /\ pc' = "stop" => VM!ShouldSleep
        /\ pc' # "asleep"
    BY <1>4 DEF CheckQuiet, vmVars, matterVars
  <2>2. pc' = "stop" => ~ VM!IsRunning
    BY <2>1, SleepNeedsEmptyWindow, EmptyWindowIsQuiet
  <2> QED
    BY <1>2, <2>1, <2>2 DEF SleepInv, StopsWithEmptyWindow, NeverAsleepRunning
<1>5. CASE Stop
  <2>1. /\ UpdateOperationalState(FALSE)
        /\ pc = "stop" /\ pc' = "asleep"
    BY <1>5 DEF Stop, Goto
  <2>2. \/ opState' = FALSE
        \/ opState' = opState /\ lostUpdates' = lostUpdates + 1
    BY <1>1, <2>1, UpdateIsMadeOrLost
  <2>3. lostUpdates = 0 => ~ opState
    BY <1>1, <2>1
    DEF StopsWithEmptyWindow, LastRunningFollowsWindow, AttributeFollowsTask
  <2>4. lostUpdates' <= 1 => ~ opState'
    BY <1>1, <2>2, <2>3
  <2> QED
    BY <2>1, <2>4 DEF SleepInv, StopsWithEmptyWindow, NeverAsleepRunning
<1>6. CASE Machine \/ UNCHANGED vars
  <2>1. UNCHANGED <<buckets, pc, opState, lostUpdates>>
    BY <1>6 DEF Machine, vars, vmVars, matterVars
  <2> QED
    BY <1>1, <1>2, <2>1 DEF SleepInv, StopsWithEmptyWindow, NeverAsleepRunning
<1>7. CASE \/ Sample \/ SampleFails \/ TickOnce \/ Compare \/ Announce
           \/ Report \/ NoReport \/ Resend
  <2>1. pc' \notin {"stop", "asleep"}
    BY <1>7
    DEF Sample, SampleFails, TickOnce, Compare, Announce, Report, NoReport,
        Resend, Goto
  <2> QED
    BY <1>3, <2>1
<1> QED
  BY <1>4, <1>5, <1>6, <1>7 DEF Next, Step

(* When a bucket is needed for Running and the quiet time is no shorter    *)
(* than the window, as both are by default, the device never sleeps while  *)
(* reported Running, one lost update notwithstanding.                      *)
THEOREM SleepsReportedStopped ==
    ASSUME BucketThreshold > 0,
           QuietTimeout + 1 >= 1000 * VM_WINDOW_SECONDS
    PROVE  Spec => []NeverAsleepRunning
<1>1. SleepInv => NeverAsleepRunning
  BY DEF SleepInv
<1> QED
  BY <1>1, SleepInit, SleepNext, MonitorHolds, TaskHolds, PTL DEF Spec

-----------------------------------------------------------------------------
(* Composition: the task is what LaundryDetector leaves open of it *)

LEMMA UpdateIsDetectorUpdate ==
    ASSUME TaskTypeOK, NEW value \in BOOLEAN, UpdateOperationalState(value)
    PROVE  LD!UpdateOperationalState(value)
<1>1. lostUpdates \in Nat
  BY MonitorTaskAssumption DEF TaskTypeOK
<1> QED
  BY <1>1 DEF UpdateOperationalState, LD!UpdateOperationalState,
              LD!StackLockFree

LEMMA TaskStepIsDetectorStep ==
    TaskTypeOK /\ [Next]_vars => [LD!Next]_(LD!vars)
<1> SUFFICES ASSUME TaskTypeOK, [Next]_vars
             PROVE  LD!Next \/ UNCHANGED LD!vars
  OBVIOUS
<1> USE DEF Goto, LD!Goto, LD!bootVars, LD!matterVars, LD!chipVars,
            LD!fabricVars, LD!envVars, LD!others
<1>1. CASE Sample
  <2>1. LD!MonitorShows
    BY <1>1 DEF Sample, LD!MonitorShows, matterVars, envVars
  <2> QED
    BY <2>1 DEF LD!Next, LD!MonitorStep
<1>2. CASE Announce \/ Resend
  <2>1. /\ UpdateOperationalState(running) /\ running \in BOOLEAN
        /\ UNCHANGED <<led, envVars>>
        /\ pc \in {"announce", "resend"} /\ pc' \in {"report", "quiet"}
    BY <1>2 DEF Announce, Resend, TaskTypeOK
  <2>2. LD!UpdateOperationalState(running)
    BY <2>1, UpdateIsDetectorUpdate
  <2>3. LD!MonitorReports
    BY <2>1, <2>2 DEF LD!MonitorReports, envVars
  <2> QED
    BY <2>3 DEF LD!Next, LD!MonitorStep
<1>3. CASE CheckQuiet /\ pc' = "stop"
  <2>1. LD!MonitorQuiet
    BY <1>3 DEF CheckQuiet, LD!MonitorQuiet, matterVars, envVars
  <2> QED
    BY <2>1 DEF LD!Next, LD!MonitorStep
<1>4. CASE Stop
  <2>1. LD!UpdateOperationalState(FALSE)
    BY <1>4, UpdateIsDetectorUpdate DEF Stop
  <2>2. LD!ReportStopped
    BY <1>4, <2>1 DEF Stop, LD!ReportStopped, envVars
  <2> QED
    BY <2>2 DEF LD!Next, LD!AppStep
<1>5. CASE Machine
  <2>1. LD!Machine
    BY <1>5 DEF Machine, LD!Machine, matterVars
  <2> QED
    BY <2>1 DEF LD!Next
<1>6. CASE \/ SampleFails \/ TickOnce \/ Compare \/ Report \/ NoReport
           \/ (CheckQuiet /\ pc' = "sample") \/ UNCHANGED vars
  <2>1. /\ UNCHANGED <<matterVars, led, loud>>
        /\ \/ UNCHANGED pc
           \/ /\ pc \notin {"stop", "asleep"}
              /\ pc' \notin {"stop", "asleep"}
    BY <1>6
    DEF SampleFails, TickOnce, Compare, Report, NoReport, CheckQuiet, vars,
        envVars
  <2> QED
    BY <2>1 DEF LD!vars, matterVars
<1> QED
  BY <1>1, <1>2, <1>3, <1>4, <1>5, <1>6 DEF Next, Step, CheckQuiet

(* Every step of the task is one LaundryDetector has, or leaves all it     *)
(* knows unchanged, whatever the window, the thresholds and the times are: *)
(* what is shown there of any monitoring task holds of this one.           *)
THEOREM TaskIsPartOfDetector == Spec => StepsOfDetector
  BY TypeHolds, TaskStepIsDetectorStep, PTL DEF Spec, StepsOfDetector

=============================================================================
