----------------------- MODULE VibrationMonitor_proofs -----------------------
(***************************************************************************)
(* Theorems about VibrationMonitor, for every window length of at least    *)
(* two slots, every threshold, timeout and tick size.                      *)
(***************************************************************************)
EXTENDS VibrationMonitor, FiniteSetTheorems, TLAPS

(* Taking % of a number below twice the modulus is one conditional         *)
(* subtraction: how s_bucket_idx wraps.                                    *)
LEMMA ModBelowTwice ==
    ASSUME NEW n \in Nat, NEW x \in Nat, n > 0, x < 2 * n
    PROVE  x % n = IF x < n THEN x ELSE x - n
  OBVIOUS

(* Two places on a ring of n are no commits apart just when they are the   *)
(* same.                                                                   *)
LEMMA NoDistance ==
    ASSUME NEW n \in Nat, NEW x \in 0 .. n - 1, NEW y \in 0 .. n - 1
    PROVE  (IF x >= y THEN x - y ELSE x - y + n) = 0 <=> x = y
  OBVIOUS

LEMMA ModRange ==
    ASSUME NEW n \in Nat, NEW x \in Nat, n > 0
    PROVE  x % n \in 0 .. n - 1
  OBVIOUS

LEMMA TypeOKInit == Init => TypeOK
<1> SUFFICES ASSUME Init PROVE TypeOK
  OBVIOUS
<1>1. buckets \in [Slots -> BOOLEAN]
  BY DEF Init
<1>2. /\ state \in {"STARTUP", "ACTIVE"}
      /\ currentBucketActive \in BOOLEAN
      /\ reportReady \in BOOLEAN
  BY DEF Init
<1>3. /\ bucketIdx \in Slots
      /\ msInCurrentBucket \in 0 .. 999
      /\ quietElapsed \in 0 .. MaxElapsed
      /\ reportElapsed \in 0 .. MaxElapsed
  BY VibrationMonitorAssumption DEF Init, Slots
<1> QED
  BY <1>1, <1>2, <1>3 DEF TypeOK

LEMMA TypeOKNext == TypeOK /\ [Next]_vmVars => TypeOK'
<1> SUFFICES ASSUME TypeOK, [Next]_vmVars
             PROVE  TypeOK'
  OBVIOUS
<1> USE VibrationMonitorAssumption
<1>1. ASSUME NEW magnitude \in Magnitudes, FeedSample(magnitude)
      PROVE  TypeOK'
  <2>1. CASE magnitude >= ThresholdMg
    BY <1>1, <2>1 DEF TypeOK, FeedSample, Slots
  <2>2. CASE ~ (magnitude >= ThresholdMg)
    BY <1>1, <2>2 DEF TypeOK, FeedSample, Slots
  <2> QED
    BY <2>1, <2>2
<1>2. ASSUME NEW elapsed \in TickSizes, Tick(elapsed)
      PROVE  TypeOK'
  <2> DEFINE k == (msInCurrentBucket + elapsed) \div 1000
  <2>1. elapsed \in Nat /\ msInCurrentBucket \in Nat
    BY DEF TypeOK
  <2>2. k \in Nat /\ msInCurrentBucket + elapsed - 1000 * k \in 0 .. 999
    BY <2>1
  <2> HIDE DEF k
  <2>3. /\ msInCurrentBucket' = msInCurrentBucket + elapsed - 1000 * k
        /\ bucketIdx' = (bucketIdx + k) % VM_WINDOW_SECONDS
        /\ buckets' = BucketsAfter(k)
        /\ currentBucketActive' = (k = 0 /\ currentBucketActive)
    BY <1>2 DEF Tick, IdxAfter, ActiveAfter, k
  <2>4. bucketIdx' \in Slots'
    BY <2>2, <2>3, ModRange DEF TypeOK, Slots
  <2>5. buckets' \in [Slots' -> BOOLEAN]
    <3>1. buckets \in [Slots -> BOOLEAN] /\ currentBucketActive \in BOOLEAN
      BY DEF TypeOK
    <3>2. BucketsAfter(k) \in [Slots -> BOOLEAN]
      BY <3>1 DEF BucketsAfter
    <3> QED
      BY <2>3, <3>2 DEF Slots
  <2>6. /\ quietElapsed' \in 0 .. MaxElapsed
        /\ reportElapsed' \in 0 .. MaxElapsed
        /\ reportReady' \in BOOLEAN
        /\ state' \in {"STARTUP", "ACTIVE"}
    BY <1>2, <2>1 DEF Tick, ReportDue, TypeOK
  <2>7. currentBucketActive' \in BOOLEAN
    BY <2>3
  <2> QED
    BY <2>2, <2>3, <2>4, <2>5, <2>6, <2>7 DEF TypeOK
<1>3. CASE TakeReport
  BY <1>3 DEF TakeReport, TypeOK, ringVars, Slots
<1>4. CASE NotifyWake
  BY <1>4 DEF NotifyWake, TypeOK, ringVars, Slots
<1>5. CASE Reset
  <2>1. buckets' \in [Slots' -> BOOLEAN]
    BY <1>5 DEF Reset, Slots
  <2>2. /\ bucketIdx' \in Slots'
        /\ msInCurrentBucket' \in 0 .. 999
        /\ quietElapsed' \in 0 .. MaxElapsed
        /\ reportElapsed' \in 0 .. MaxElapsed
    BY <1>5 DEF Reset, Slots
  <2>3. /\ state' \in {"STARTUP", "ACTIVE"}
        /\ currentBucketActive' \in BOOLEAN
        /\ reportReady' \in BOOLEAN
    BY <1>5 DEF Reset
  <2> QED
    BY <2>1, <2>2, <2>3 DEF TypeOK
<1>6. CASE UNCHANGED vmVars
  BY <1>6 DEF vmVars, ringVars, TypeOK, Slots
<1> QED
  BY <1>1, <1>2, <1>3, <1>4, <1>5, <1>6 DEF Next

(* Every variable of vibration_monitor.c stays in its type: in particular  *)
(* s_bucket_idx never leaves the ring and s_ms_in_current_bucket is below  *)
(* one second whenever no call is in progress.                             *)
THEOREM TypeCorrect == Spec => []TypeOK
<1> QED
  BY TypeOKInit, TypeOKNext, PTL DEF Spec

-----------------------------------------------------------------------------
(* What the calls do to the places of the slots in the ring.               *)

LEMMA CommitsToRange ==
    ASSUME TypeOK, NEW i \in Slots
    PROVE  /\ CommitsTo(i) \in Slots
           /\ CommitsTo(i) = 0 <=> i = bucketIdx
  BY VibrationMonitorAssumption DEF TypeOK, CommitsTo, Slots

(* k commits bring every slot further than k ahead k places nearer, and    *)
(* carry the slot at the write position almost all the way round.          *)
LEMMA CommitsToMoves ==
    ASSUME TypeOK, NEW k \in Nat, k < VM_WINDOW_SECONDS,
           bucketIdx' = (bucketIdx + k) % VM_WINDOW_SECONDS,
           NEW i \in Slots
    PROVE  /\ CommitsTo(i) >= k => CommitsTo(i)' = CommitsTo(i) - k
           /\ CommitsTo(i) = 0 /\ k > 0 =>
                 CommitsTo(i)' = VM_WINDOW_SECONDS - k
<1>1. /\ bucketIdx \in 0 .. VM_WINDOW_SECONDS - 1
      /\ i \in 0 .. VM_WINDOW_SECONDS - 1
      /\ VM_WINDOW_SECONDS \in Nat
      /\ VM_WINDOW_SECONDS > 0
  BY VibrationMonitorAssumption DEF TypeOK, Slots
<1>2. bucketIdx' = IF bucketIdx + k < VM_WINDOW_SECONDS
                   THEN bucketIdx + k ELSE bucketIdx + k - VM_WINDOW_SECONDS
  BY <1>1, ModBelowTwice
<1> QED
  BY <1>1, <1>2 DEF CommitsTo

(* The ring after k commits: what is set was set and has not been reached, *)
(* or is the bucket that was in progress.                                  *)
LEMMA SetAfterCommits ==
    ASSUME TypeOK, NEW k \in Nat, NEW i \in Slots, BucketsAfter(k)[i]
    PROVE  \/ buckets[i] /\ (k = 0 \/ CommitsTo(i) > k)
           \/ /\ k > 0 /\ k < VM_WINDOW_SECONDS
              /\ CommitsTo(i) = 0 /\ currentBucketActive
<1>1. CommitsTo(i) \in 0 .. VM_WINDOW_SECONDS - 1
  BY CommitsToRange DEF Slots
<1>2. BucketsAfter(k)[i] =
        IF k = 0 \/ CommitsTo(i) > k
        THEN buckets[i]
        ELSE CommitsTo(i) = 0 /\ k < VM_WINDOW_SECONDS /\ currentBucketActive
  BY DEF BucketsAfter
<1>3. CASE k = 0 \/ CommitsTo(i) > k
  BY <1>2, <1>3
<1>4. CASE ~ (k = 0 \/ CommitsTo(i) > k)
  <2>1. CommitsTo(i) = 0 /\ k < VM_WINDOW_SECONDS /\ currentBucketActive
    BY <1>2, <1>4
  <2>2. k > 0
    BY <1>4
  <2> QED
    BY <2>1, <2>2
<1> QED
  BY <1>3, <1>4

-----------------------------------------------------------------------------
(* The inductive invariant: a set bucket is never at the write position,   *)
(* and the quiet timer is bounded by the age of every set bucket.          *)
Inv == TypeOK /\ WritePositionClear /\ QuietBoundedByAge

LEMMA InitInv == Init => Inv
<1> SUFFICES ASSUME Init PROVE WritePositionClear /\ QuietBoundedByAge
  BY TypeOKInit DEF Inv
<1> QED
  BY VibrationMonitorAssumption
  DEF Init, WritePositionClear, QuietBoundedByAge, Slots

LEMMA TickKeepsInv ==
    ASSUME Inv, TypeOK', NEW elapsed \in TickSizes, Tick(elapsed)
    PROVE  WritePositionClear' /\ QuietBoundedByAge'
<1> DEFINE k == (msInCurrentBucket + elapsed) \div 1000
<1>1. TypeOK
  BY DEF Inv
<1>2. /\ elapsed \in Nat /\ k \in Nat
      /\ msInCurrentBucket \in Nat /\ quietElapsed \in Nat
  BY <1>1, VibrationMonitorAssumption DEF TypeOK
<1> HIDE DEF k
<1>3. /\ msInCurrentBucket' = msInCurrentBucket + elapsed - 1000 * k
      /\ bucketIdx' = (bucketIdx + k) % VM_WINDOW_SECONDS
      /\ buckets' = BucketsAfter(k)
      /\ currentBucketActive' = (k = 0 /\ currentBucketActive)
      /\ quietElapsed' = quietElapsed + elapsed
  BY DEF Tick, IdxAfter, ActiveAfter, k
<1>4. VM_WINDOW_SECONDS \in Nat
  BY VibrationMonitorAssumption
<1>5. currentBucketActive' => quietElapsed' <= msInCurrentBucket'
  <2> SUFFICES ASSUME currentBucketActive'
               PROVE  quietElapsed' <= msInCurrentBucket'
    OBVIOUS
  <2>1. k = 0 /\ currentBucketActive
    BY <1>3
  <2>2. quietElapsed <= msInCurrentBucket
    BY <2>1 DEF Inv, QuietBoundedByAge
  <2> QED
    BY <1>2, <1>3, <2>1, <2>2
<1>6. ASSUME NEW i \in Slots, buckets'[i]
      PROVE  /\ i # bucketIdx'
             /\ quietElapsed' <=
                  1000 * (VM_WINDOW_SECONDS - CommitsTo(i)') + msInCurrentBucket'
  <2>1. CommitsTo(i) \in 0 .. VM_WINDOW_SECONDS - 1
    BY <1>1, CommitsToRange DEF Slots
  <2>2. CommitsTo(i)' = 0 <=> i = bucketIdx'
    <3>1. bucketIdx' \in 0 .. VM_WINDOW_SECONDS - 1
      BY DEF TypeOK, Slots
    <3>2. i \in 0 .. VM_WINDOW_SECONDS - 1
      BY DEF Slots
    <3> QED
      BY <3>1, <3>2, <1>4, NoDistance DEF CommitsTo
  <2>3. CASE buckets[i] /\ (k = 0 \/ CommitsTo(i) > k)
    <3>1. CommitsTo(i) # 0
      BY <1>1, <2>3, CommitsToRange DEF Inv, WritePositionClear
    <3>2. /\ k < VM_WINDOW_SECONDS /\ CommitsTo(i) > k
      BY <2>3, <2>1, <3>1, <1>2, <1>4
    <3>3. CommitsTo(i)' = CommitsTo(i) - k
      BY <1>1, <1>2, <1>3, <2>1, <3>2, CommitsToMoves
    <3>4. quietElapsed <=
            1000 * (VM_WINDOW_SECONDS - CommitsTo(i)) + msInCurrentBucket
      BY <2>3 DEF Inv, QuietBoundedByAge
    <3> QED
      BY <1>2, <1>3, <1>4, <2>1, <2>2, <3>2, <3>3, <3>4
  <2>4. CASE /\ k > 0 /\ k < VM_WINDOW_SECONDS
             /\ CommitsTo(i) = 0 /\ currentBucketActive
    <3>1. CommitsTo(i)' = VM_WINDOW_SECONDS - k
      BY <1>1, <1>2, <1>3, <2>4, CommitsToMoves
    <3>2. quietElapsed <= msInCurrentBucket
      BY <2>4 DEF Inv, QuietBoundedByAge
    <3> QED
      BY <1>2, <1>3, <1>4, <2>2, <2>4, <3>1, <3>2
  <2> QED
    BY <1>1, <1>2, <1>3, <1>6, <2>3, <2>4, SetAfterCommits
<1>7. bucketIdx' \in Slots
  BY DEF TypeOK, Slots
<1> QED
  BY <1>5, <1>6, <1>7 DEF WritePositionClear, QuietBoundedByAge, Slots

LEMMA NextInv == Inv /\ [Next]_vmVars => Inv'
<1> SUFFICES ASSUME Inv, [Next]_vmVars
             PROVE  WritePositionClear' /\ QuietBoundedByAge'
  BY TypeOKNext DEF Inv
<1>1. TypeOK /\ TypeOK'
  BY TypeOKNext DEF Inv
<1>2. ASSUME NEW magnitude \in Magnitudes, FeedSample(magnitude)
      PROVE  WritePositionClear' /\ QuietBoundedByAge'
  <2>1. \A i \in Slots : CommitsTo(i) \in 0 .. VM_WINDOW_SECONDS - 1
    BY <1>1, CommitsToRange DEF Slots
  <2>2. CASE magnitude >= ThresholdMg
    BY <1>1, <1>2, <2>1, <2>2, VibrationMonitorAssumption
    DEF FeedSample, Inv, TypeOK, WritePositionClear, QuietBoundedByAge,
        CommitsTo, Slots
  <2>3. CASE ~ (magnitude >= ThresholdMg)
    BY <1>2, <2>3
    DEF FeedSample, Inv, WritePositionClear, QuietBoundedByAge, CommitsTo, Slots
  <2> QED
    BY <2>2, <2>3
<1>3. ASSUME NEW elapsed \in TickSizes, Tick(elapsed)
      PROVE  WritePositionClear' /\ QuietBoundedByAge'
  BY <1>1, <1>3, TickKeepsInv
<1>4. CASE TakeReport
  BY <1>4 DEF TakeReport, ringVars, Inv, WritePositionClear,
              QuietBoundedByAge, CommitsTo, Slots
<1>5. CASE NotifyWake
  <2>1. \A i \in Slots : CommitsTo(i) \in 0 .. VM_WINDOW_SECONDS - 1
    BY <1>1, CommitsToRange DEF Slots
  <2> QED
    BY <1>1, <1>5, <2>1, VibrationMonitorAssumption
    DEF NotifyWake, ringVars, Inv, TypeOK, WritePositionClear,
        QuietBoundedByAge, CommitsTo, Slots
<1>6. CASE Reset
  BY <1>6, VibrationMonitorAssumption
  DEF Reset, WritePositionClear, QuietBoundedByAge, Slots
<1>7. CASE UNCHANGED vmVars
  BY <1>7 DEF vmVars, ringVars, Inv, WritePositionClear,
              QuietBoundedByAge, CommitsTo, Slots
<1> QED
  BY <1>2, <1>3, <1>4, <1>5, <1>6, <1>7 DEF Next

(* The slot being written never still holds the second of one turn ago.    *)
THEOREM WritePositionIsClear == Spec => []WritePositionClear
<1> QED
  BY InitInv, NextInv, PTL DEF Spec, Inv

(* The quiet timer never runs ahead of the evidence in the ring: a set     *)
(* bucket bounds the time since the last sample over the threshold.        *)
THEOREM QuietTimerMatchesRing == Spec => []QuietBoundedByAge
<1> QED
  BY InitInv, NextInv, PTL DEF Spec, Inv

(* When should_sleep is true, and the quiet timeout is at least as long as *)
(* the window, no bucket is set, for a window of any length.               *)
THEOREM SleepsOnlyWhenWindowEmpty == Spec => []SleepOnlyWhenWindowEmpty
<1>1. Inv => SleepOnlyWhenWindowEmpty
  <2> SUFFICES ASSUME Inv, QuietTimeout + 1 >= 1000 * VM_WINDOW_SECONDS,
                      quietElapsed > QuietTimeout,
                      NEW i \in Slots, buckets[i]
               PROVE  FALSE
    BY DEF SleepOnlyWhenWindowEmpty, ShouldSleep
  <2>1. CommitsTo(i) \in 1 .. VM_WINDOW_SECONDS - 1
    BY CommitsToRange DEF Inv, WritePositionClear, Slots
  <2>2. quietElapsed <=
          1000 * (VM_WINDOW_SECONDS - CommitsTo(i)) + msInCurrentBucket
    BY DEF Inv, QuietBoundedByAge
  <2> QED
    BY <2>1, <2>2, VibrationMonitorAssumption DEF Inv, TypeOK
<1> QED
  BY <1>1, InitInv, NextInv, PTL DEF Spec

-----------------------------------------------------------------------------
(* The refinement of SlidingWindow.                                        *)

(* Where the second of age a is kept, before and after k commits: it moves *)
(* by k, the bucket in progress becomes the second of age k - 1, and the   *)
(* younger ones lie in slots the commits went through.                     *)
LEMMA SlotAfterCommits ==
    ASSUME TypeOK, NEW k \in Nat, k < VM_WINDOW_SECONDS,
           bucketIdx' = (bucketIdx + k) % VM_WINDOW_SECONDS,
           NEW a \in 0 .. VM_WINDOW_SECONDS - 2
    PROVE  /\ SlotOfAge(a)' \in Slots
           /\ a >= k => /\ SlotOfAge(a)' = SlotOfAge(a - k)
                        /\ CommitsTo(SlotOfAge(a)')
                              = VM_WINDOW_SECONDS - 1 - a + k
           /\ a < k => CommitsTo(SlotOfAge(a)') = k - 1 - a
<1>1. /\ bucketIdx \in 0 .. VM_WINDOW_SECONDS - 1
      /\ VM_WINDOW_SECONDS \in Nat /\ VM_WINDOW_SECONDS >= 2
  BY VibrationMonitorAssumption DEF TypeOK, Slots
<1>2. bucketIdx' = IF bucketIdx + k < VM_WINDOW_SECONDS
                   THEN bucketIdx + k ELSE bucketIdx + k - VM_WINDOW_SECONDS
  BY <1>1, ModBelowTwice
<1>3. SlotOfAge(a)' = IF bucketIdx' > a THEN bucketIdx' - 1 - a
                      ELSE bucketIdx' - 1 - a + VM_WINDOW_SECONDS
  BY DEF SlotOfAge
<1>4. SlotOfAge(a)' \in Slots
  BY <1>1, <1>2, <1>3 DEF Slots
<1>5. a >= k => SlotOfAge(a)' = SlotOfAge(a - k)
  BY <1>1, <1>2, <1>3 DEF SlotOfAge
<1>6. a >= k => CommitsTo(SlotOfAge(a)') = VM_WINDOW_SECONDS - 1 - a + k
  BY <1>1, <1>2, <1>3 DEF CommitsTo
<1>7. a < k => CommitsTo(SlotOfAge(a)') = k - 1 - a
  BY <1>1, <1>2, <1>3 DEF CommitsTo
<1> QED
  BY <1>4, <1>5, <1>6, <1>7

(* However many seconds a tick completes, the ring it leaves holds at age  *)
(* a what the sliding window holds there.                                  *)
LEMMA BucketsAfterIsWindow ==
    ASSUME TypeOK, NEW k \in Nat,
           bucketIdx' = (bucketIdx + k) % VM_WINDOW_SECONDS,
           bucketIdx' \in Slots,
           NEW a \in 0 .. VM_WINDOW_SECONDS - 2
    PROVE  BucketsAfter(k)[SlotOfAge(a)'] =
             IF a >= k THEN buckets[SlotOfAge(a - k)]
                       ELSE a = k - 1 /\ currentBucketActive
<1> DEFINE s == SlotOfAge(a)'
<1>1. VM_WINDOW_SECONDS \in Nat /\ VM_WINDOW_SECONDS >= 2
  BY VibrationMonitorAssumption
<1>2. s \in Slots
  BY <1>1 DEF SlotOfAge, Slots
<1>3. CommitsTo(s) \in 0 .. VM_WINDOW_SECONDS - 1
  BY <1>2, CommitsToRange DEF Slots
<1> HIDE DEF s
<1>4. BucketsAfter(k)[s] =
        IF k = 0 \/ CommitsTo(s) > k
        THEN buckets[s]
        ELSE CommitsTo(s) = 0 /\ k < VM_WINDOW_SECONDS /\ currentBucketActive
  BY <1>2 DEF BucketsAfter
<1>5. CASE k < VM_WINDOW_SECONDS
  <2>1. /\ a >= k => /\ s = SlotOfAge(a - k)
                     /\ CommitsTo(s) = VM_WINDOW_SECONDS - 1 - a + k
        /\ a < k => CommitsTo(s) = k - 1 - a
    BY <1>5, SlotAfterCommits DEF s
  <2>2. CASE a >= k
    <3>1. CommitsTo(s) > k
      BY <1>1, <2>1, <2>2
    <3> QED
      BY <1>4, <2>1, <2>2, <3>1 DEF s
  <2>3. CASE a < k
    <3>1. /\ ~ (k = 0 \/ CommitsTo(s) > k) /\ ~ (a >= k)
          /\ CommitsTo(s) = 0 <=> a = k - 1
      BY <1>1, <2>1, <2>3
    <3> QED
      BY <1>4, <1>5, <3>1 DEF s
  <2> QED
    BY <2>2, <2>3
<1>6. CASE ~ (k < VM_WINDOW_SECONDS)
  <2>1. /\ ~ (k = 0 \/ CommitsTo(s) > k)
        /\ ~ (a >= k) /\ a # k - 1
    BY <1>1, <1>3, <1>6
  <2> QED
    BY <1>4, <1>6, <2>1 DEF s
<1> QED
  BY <1>5, <1>6

LEMMA TickRefines ==
    ASSUME Inv, TypeOK', NEW elapsed \in TickSizes, Tick(elapsed)
    PROVE  Window!Elapse(elapsed)
<1> DEFINE k == (msInCurrentBucket + elapsed) \div 1000
           recent == [a \in 0 .. VM_WINDOW_SECONDS - 2 |-> buckets[SlotOfAge(a)]]
<1>1. TypeOK /\ bucketIdx' \in Slots
  BY DEF Inv, TypeOK, Slots
<1>2. k \in Nat
  BY <1>1, VibrationMonitorAssumption DEF TypeOK
<1>3. /\ msInCurrentBucket' = msInCurrentBucket + elapsed - 1000 * k
      /\ bucketIdx' = (bucketIdx + k) % VM_WINDOW_SECONDS
      /\ buckets' = BucketsAfter(k)
      /\ currentBucketActive' = (k = 0 /\ currentBucketActive)
  BY DEF Tick, IdxAfter, ActiveAfter
<1>4. Window!Ages = 0 .. VM_WINDOW_SECONDS - 2
  BY VibrationMonitorAssumption DEF Window!Ages
<1> HIDE DEF k
<1>5. ASSUME NEW a \in 0 .. VM_WINDOW_SECONDS - 2
      PROVE  buckets'[SlotOfAge(a)'] =
               IF a >= k THEN recent[a - k]
                         ELSE a = k - 1 /\ currentBucketActive
  <2>1. BucketsAfter(k)[SlotOfAge(a)'] =
          IF a >= k THEN buckets[SlotOfAge(a - k)]
                    ELSE a = k - 1 /\ currentBucketActive
    BY <1>1, <1>2, <1>3, BucketsAfterIsWindow
  <2>2. a >= k => a - k \in 0 .. VM_WINDOW_SECONDS - 2
    BY <1>2, VibrationMonitorAssumption
  <2>3. a >= k => recent[a - k] = buckets[SlotOfAge(a - k)]
    BY <2>2
  <2> HIDE DEF recent
  <2> QED
    BY <1>3, <2>1, <2>3
<1>6. recent' = [a \in Window!Ages |->
                   IF a >= k THEN recent[a - k]
                             ELSE a = k - 1 /\ currentBucketActive]
  <2>1. recent' = [a \in 0 .. VM_WINDOW_SECONDS - 2 |->
                     buckets'[SlotOfAge(a)']]
    OBVIOUS
  <2> HIDE DEF recent
  <2> QED
    BY <1>4, <1>5, <2>1
<1> QED
  BY <1>3, <1>6 DEF Window!Elapse, k

(* The detector's ring of buckets, with its write position, its commits    *)
(* and its clearing, implements a sliding window over the last             *)
(* VM_WINDOW_SECONDS - 1 completed seconds.                                *)
THEOREM RefinesSlidingWindow == Spec => ImplementsSlidingWindow
<1>1. Init => Window!Init
  <2> SUFFICES ASSUME Init PROVE Window!Init
    OBVIOUS
  <2>1. \A a \in 0 .. VM_WINDOW_SECONDS - 2 : SlotOfAge(a) \in Slots
    BY VibrationMonitorAssumption DEF Init, SlotOfAge, Slots
  <2>2. Window!Ages = 0 .. VM_WINDOW_SECONDS - 2
    BY VibrationMonitorAssumption DEF Window!Ages
  <2>3. [a \in 0 .. VM_WINDOW_SECONDS - 2 |-> buckets[SlotOfAge(a)]]
          = Window!Empty
    BY <2>1, <2>2 DEF Init, Window!Empty
  <2> QED
    BY <2>3 DEF Init, Window!Init
<1>2. Inv /\ Inv' /\ [Next]_vmVars => [Window!Next]_(Window!windowVars)
  <2> SUFFICES ASSUME Inv, Inv', [Next]_vmVars
               PROVE  Window!Next \/ UNCHANGED Window!windowVars
    OBVIOUS
  <2> USE DEF Inv
  <2>1. ASSUME NEW magnitude \in Magnitudes, FeedSample(magnitude)
        PROVE  Window!Vibrate \/ UNCHANGED Window!windowVars
    <3>1. CASE magnitude >= ThresholdMg
      <4>1. /\ currentBucketActive' = TRUE
            /\ UNCHANGED <<buckets, bucketIdx, msInCurrentBucket>>
        BY <2>1, <3>1 DEF FeedSample
      <4> QED
        BY <4>1 DEF Window!Vibrate, SlotOfAge
    <3>2. CASE ~ (magnitude >= ThresholdMg)
      <4>1. UNCHANGED <<buckets, bucketIdx, msInCurrentBucket,
                        currentBucketActive>>
        BY <2>1, <3>2 DEF FeedSample
      <4> QED
        BY <4>1 DEF Window!windowVars, SlotOfAge
    <3> QED
      BY <3>1, <3>2
  <2>2. ASSUME NEW elapsed \in TickSizes, Tick(elapsed)
        PROVE  Window!Next
    <3>1. Window!Elapse(elapsed)
      BY <2>2, TickRefines
    <3> QED
      BY <3>1 DEF Window!Next
  <2>3. CASE TakeReport
    <3>1. UNCHANGED ringVars
      BY <2>3 DEF TakeReport
    <3> QED
      BY <3>1 DEF ringVars, Window!windowVars, SlotOfAge
  <2>4. CASE NotifyWake
    <3>1. UNCHANGED ringVars
      BY <2>4 DEF NotifyWake
    <3> QED
      BY <3>1 DEF ringVars, Window!windowVars, SlotOfAge
  <2>5. CASE Reset
    <3>1. \A a \in 0 .. VM_WINDOW_SECONDS - 2 : SlotOfAge(a)' \in Slots
      BY <2>5, VibrationMonitorAssumption DEF Reset, SlotOfAge, Slots
    <3>2. Window!Ages = 0 .. VM_WINDOW_SECONDS - 2
      BY VibrationMonitorAssumption DEF Window!Ages
    <3>3. [a \in 0 .. VM_WINDOW_SECONDS - 2 |-> buckets'[SlotOfAge(a)']]
            = Window!Empty
      BY <2>5, <3>1, <3>2 DEF Reset, Window!Empty
    <3>4. Window!Clear
      BY <2>5, <3>3 DEF Reset, Window!Clear
    <3> QED
      BY <3>4 DEF Window!Next
  <2>6. CASE UNCHANGED vmVars
    BY <2>6 DEF vmVars, ringVars, Window!windowVars, SlotOfAge
  <2>7. Window!Vibrate => Window!Next
    BY DEF Window!Next
  <2> QED
    BY <2>1, <2>2, <2>3, <2>4, <2>5, <2>6, <2>7 DEF Next
<1> QED
  BY <1>1, <1>2, InitInv, NextInv, PTL
  DEF Spec, ImplementsSlidingWindow, Window!Spec

-----------------------------------------------------------------------------
(* The loop of vibration_monitor_tick: what Tick says its turns come to is *)
(* what they come to.                                                      *)

LEMMA ProductGrows ==
    ASSUME NEW w \in Nat, NEW d \in Int, w > 0, d >= 1
    PROVE  w * d >= w
  OBVIOUS

LEMMA DivMod ==
    ASSUME NEW w \in Nat, NEW a \in Nat, w > 0
    PROVE  /\ a = w * (a \div w) + (a % w)
           /\ a % w \in 0 .. w - 1 /\ a \div w \in Int
  OBVIOUS

LEMMA DivModUnique ==
    ASSUME NEW w \in Nat, w > 0, NEW q \in Int, NEW p \in Int,
           NEW r \in 0 .. w - 1, NEW s \in 0 .. w - 1, w * q + r = w * p + s
    PROVE  q = p /\ r = s
<1>1. CASE q > p
  <2>1. w * (q - p) >= w
    BY <1>1, ProductGrows
  <2>2. w * (q - p) = w * q - w * p
    OBVIOUS
  <2> QED
    BY <2>1, <2>2
<1>2. CASE q < p
  <2>1. w * (p - q) >= w
    BY <1>2, ProductGrows
  <2>2. w * (p - q) = w * p - w * q
    OBVIOUS
  <2> QED
    BY <2>1, <2>2
<1> QED
  BY <1>1, <1>2

LEMMA ModItself ==
    ASSUME NEW w \in Nat, NEW r \in Nat, w > 0, r = w - 1
    PROVE  (r + 1) % w = 0
  OBVIOUS

LEMMA ModSmall ==
    ASSUME NEW w \in Nat, NEW r \in Nat, r + 1 < w
    PROVE  (r + 1) % w = r + 1
  OBVIOUS

(* The remainder of the next number: s_bucket_idx goes round the ring      *)
(* however often it already has.                                           *)
LEMMA ModNext ==
    ASSUME NEW w \in Nat, NEW a \in Nat, w >= 2
    PROVE  (a + 1) % w = IF a % w = w - 1 THEN 0 ELSE (a % w) + 1
<1> DEFINE q == a \div w
           r == a % w
           p == (a + 1) \div w
           s == (a + 1) % w
<1>1. a = w * q + r /\ r \in 0 .. w - 1 /\ q \in Int
  BY DivMod
<1>2. a + 1 \in Nat
  OBVIOUS
<1>3. a + 1 = w * p + s /\ s \in 0 .. w - 1 /\ p \in Int
  BY <1>2, DivMod
<1> HIDE DEF q, r, p, s
<1>4. CASE r = w - 1
  <2>1. PICK x \in Int : x = q + 1
    BY <1>1
  <2>2. PICK y \in 0 .. w - 1 : y = 0
    OBVIOUS
  <2>3. w * x + y = w * p + s
    <3>1. w * x = w * q + w
      BY <1>1, <2>1
    <3> QED
      BY <1>1, <1>3, <1>4, <2>2, <3>1
  <2>4. s = 0
    BY <1>3, <2>1, <2>2, <2>3, DivModUnique
  <2> QED
    BY <1>4, <2>4 DEF r, s
<1>5. CASE r # w - 1
  <2>1. r + 1 \in 0 .. w - 1
    BY <1>1, <1>5
  <2>2. w * q + (r + 1) = w * p + s
    BY <1>1, <1>3
  <2>3. s = r + 1
    BY <1>1, <1>3, <2>1, <2>2, DivModUnique
  <2> QED
    BY <1>5, <2>3 DEF r, s
<1> QED
  BY <1>4, <1>5

(* The loop's counter, ring, index and flag after k turns of a tick of     *)
(* elapsed ms.                                                             *)
LoopAfter(elapsed, k) ==
    [ms |-> msInCurrentBucket + elapsed - 1000 * k,
     ring |-> BucketsAfter(k),
     idx |-> IdxAfter(k),
     active |-> ActiveAfter(k)]

(* Until a whole lap is done, the write position after k commits is the    *)
(* slot k places ahead.                                                    *)
LEMMA IdxIsPlace ==
    ASSUME TypeOK, NEW k \in Nat, k < VM_WINDOW_SECONDS, NEW i \in Slots
    PROVE  i = IdxAfter(k) <=> CommitsTo(i) = k
<1>1. /\ bucketIdx \in 0 .. VM_WINDOW_SECONDS - 1
      /\ i \in 0 .. VM_WINDOW_SECONDS - 1
      /\ VM_WINDOW_SECONDS \in Nat /\ VM_WINDOW_SECONDS > 0
  BY VibrationMonitorAssumption DEF TypeOK, Slots
<1>2. IdxAfter(k) = IF bucketIdx + k < VM_WINDOW_SECONDS
                    THEN bucketIdx + k ELSE bucketIdx + k - VM_WINDOW_SECONDS
  BY <1>1, ModBelowTwice DEF IdxAfter
<1> QED
  BY <1>1, <1>2 DEF CommitsTo

LEMMA IdxSteps ==
    ASSUME TypeOK, NEW k \in Nat
    PROVE  /\ IdxAfter(k) \in Slots
           /\ IdxAfter(k + 1) \in Slots
           /\ IdxAfter(k + 1) = (IdxAfter(k) + 1) % VM_WINDOW_SECONDS
<1> DEFINE a == bucketIdx + k
           w == VM_WINDOW_SECONDS
<1>1. w \in Nat /\ w >= 2 /\ a \in Nat /\ bucketIdx + (k + 1) = a + 1
  BY VibrationMonitorAssumption DEF TypeOK, Slots
<1> HIDE DEF a, w
<1>2. (a + 1) % w = IF a % w = w - 1 THEN 0 ELSE (a % w) + 1
  BY <1>1, ModNext
<1>3. a % w \in 0 .. w - 1
  BY <1>1, DivMod
<1>4. ((a % w) + 1) % w = IF a % w = w - 1 THEN 0 ELSE (a % w) + 1
  <2> DEFINE r == a % w
  <2>1. r \in 0 .. w - 1
    BY <1>3
  <2> HIDE DEF r
  <2>2. CASE r = w - 1
    BY <1>1, <2>1, <2>2, ModItself DEF r
  <2>3. CASE r # w - 1
    BY <1>1, <2>1, <2>3, ModSmall DEF r
  <2> QED
    BY <2>2, <2>3
<1>5. IdxAfter(k) = a % w /\ IdxAfter(k + 1) = (a + 1) % w
  BY <1>1 DEF IdxAfter, a, w
<1>6. IdxAfter(k) \in 0 .. w - 1 /\ IdxAfter(k + 1) \in 0 .. w - 1
  BY <1>1, <1>2, <1>3, <1>5
<1> QED
  BY <1>2, <1>4, <1>5, <1>6 DEF Slots, w

(* One turn makes of the ring after k commits the one after k + 1.         *)
LEMMA TurnCommits ==
    ASSUME TypeOK, NEW k \in Nat
    PROVE  [BucketsAfter(k) EXCEPT ![IdxAfter(k)] = ActiveAfter(k),
                                   ![IdxAfter(k + 1)] = FALSE]
             = BucketsAfter(k + 1)
<1> DEFINE w == VM_WINDOW_SECONDS
           turned == [BucketsAfter(k) EXCEPT ![IdxAfter(k)] = ActiveAfter(k),
                                             ![IdxAfter(k + 1)] = FALSE]
<1>1. w \in Nat /\ w >= 2
  BY VibrationMonitorAssumption
<1>2. ASSUME NEW i \in Slots
      PROVE  turned[i] = BucketsAfter(k + 1)[i]
  <2>1. turned[i] = IF i = IdxAfter(k + 1) THEN FALSE
                    ELSE IF i = IdxAfter(k) THEN ActiveAfter(k)
                    ELSE BucketsAfter(k)[i]
    BY DEF BucketsAfter
  <2>2. /\ BucketsAfter(k)[i] =
              IF k = 0 \/ CommitsTo(i) > k THEN buckets[i]
              ELSE CommitsTo(i) = 0 /\ k < w /\ currentBucketActive
        /\ BucketsAfter(k + 1)[i] =
              IF k + 1 = 0 \/ CommitsTo(i) > k + 1 THEN buckets[i]
              ELSE CommitsTo(i) = 0 /\ k + 1 < w /\ currentBucketActive
    BY DEF BucketsAfter
  <2>3. CommitsTo(i) \in 0 .. w - 1
    BY CommitsToRange DEF Slots
  <2>4. k < w => (i = IdxAfter(k) <=> CommitsTo(i) = k)
    BY IdxIsPlace
  <2>5. k + 1 < w => (i = IdxAfter(k + 1) <=> CommitsTo(i) = k + 1)
    <3>1. k + 1 \in Nat
      OBVIOUS
    <3> QED
      BY <3>1, IdxIsPlace
  <2>6. k + 1 = w => (i = IdxAfter(k + 1) <=> CommitsTo(i) = 0)
    <3> SUFFICES ASSUME k + 1 = w
                 PROVE  i = IdxAfter(k + 1) <=> CommitsTo(i) = 0
      OBVIOUS
    <3>1. /\ bucketIdx \in 0 .. w - 1 /\ i \in 0 .. w - 1
          /\ IdxAfter(k + 1) = (bucketIdx + w) % w
      BY DEF TypeOK, Slots, IdxAfter
    <3>2. (bucketIdx + w) % w = bucketIdx
      BY <1>1, <3>1, ModBelowTwice
    <3> QED
      BY <3>1, <3>2, CommitsToRange
  <2> HIDE DEF w, turned
  <2>7. CASE k >= w
    <3>1. /\ ~ (k = 0 \/ CommitsTo(i) > k) /\ ~ (k < w)
          /\ ~ (k + 1 = 0 \/ CommitsTo(i) > k + 1) /\ ~ (k + 1 < w)
      BY <1>1, <2>3, <2>7
    <3> QED
      BY <2>1, <2>2, <3>1 DEF ActiveAfter
  <2>8. CASE k < w /\ CommitsTo(i) = k
    <3>1. /\ i = IdxAfter(k) /\ i # IdxAfter(k + 1)
          /\ ~ (k + 1 = 0 \/ CommitsTo(i) > k + 1)
          /\ k = 0 => CommitsTo(i) = 0 /\ k + 1 < w
          /\ k # 0 => CommitsTo(i) # 0
      BY <1>1, <2>4, <2>5, <2>6, <2>8
    <3> QED
      BY <2>1, <2>2, <3>1 DEF ActiveAfter
  <2>9. CASE k < w /\ CommitsTo(i) = k + 1
    <3>1. /\ k + 1 < w /\ i = IdxAfter(k + 1)
          /\ ~ (k + 1 = 0 \/ CommitsTo(i) > k + 1) /\ CommitsTo(i) # 0
      BY <1>1, <2>3, <2>5, <2>9
    <3> QED
      BY <2>1, <2>2, <3>1
  <2>10. CASE k < w /\ CommitsTo(i) > k + 1
    <3>1. /\ i # IdxAfter(k) /\ i # IdxAfter(k + 1) /\ CommitsTo(i) > k
      BY <1>1, <2>3, <2>4, <2>5, <2>10
    <3> QED
      BY <2>1, <2>2, <2>10, <3>1
  <2>11. CASE k < w /\ CommitsTo(i) < k
    <3>1. /\ i # IdxAfter(k) /\ ~ (k = 0 \/ CommitsTo(i) > k)
          /\ ~ (k + 1 = 0 \/ CommitsTo(i) > k + 1)
          /\ k + 1 < w => i # IdxAfter(k + 1)
          /\ ~ (k + 1 < w) => (i = IdxAfter(k + 1) <=> CommitsTo(i) = 0)
      BY <1>1, <2>3, <2>4, <2>5, <2>6, <2>11
    <3>2. CASE k + 1 < w
      <4>1. turned[i] = (CommitsTo(i) = 0 /\ currentBucketActive)
        <5>1. turned[i] = BucketsAfter(k)[i]
          BY <2>1, <3>1, <3>2
        <5> QED
          BY <2>2, <2>11, <3>1, <5>1
      <4>2. BucketsAfter(k + 1)[i] = (CommitsTo(i) = 0 /\ currentBucketActive)
        BY <2>2, <3>1, <3>2
      <4> QED
        BY <4>1, <4>2
    <3>3. CASE ~ (k + 1 < w)
      <4>1. BucketsAfter(k + 1)[i] = FALSE
        BY <2>2, <3>1, <3>3
      <4>2. CommitsTo(i) = 0 => turned[i] = FALSE
        BY <2>1, <3>1, <3>3
      <4>3. CommitsTo(i) # 0 => turned[i] = BucketsAfter(k)[i]
        BY <2>1, <3>1, <3>3
      <4>4. CommitsTo(i) # 0 => BucketsAfter(k)[i] = FALSE
        BY <2>2, <3>1
      <4> QED
        BY <4>1, <4>2, <4>3, <4>4
    <3> QED
      BY <3>2, <3>3
  <2> QED
    BY <1>1, <2>3, <2>7, <2>8, <2>9, <2>10, <2>11
<1>3. turned = [i \in Slots |-> turned[i]]
  BY DEF BucketsAfter
<1>4. BucketsAfter(k + 1) = [i \in Slots |-> BucketsAfter(k + 1)[i]]
  BY DEF BucketsAfter
<1> HIDE DEF turned
<1>5. [i \in Slots |-> turned[i]] = [i \in Slots |-> BucketsAfter(k + 1)[i]]
  BY <1>2
<1> QED
  BY <1>3, <1>4, <1>5 DEF turned

(* tick's loop starts at LoopAfter(elapsed, 0), each of its turns goes     *)
(* from one LoopAfter to the next, it goes on just as long as k is below   *)
(* the number of turns Tick takes, and Tick leaves what LoopAfter has at   *)
(* that number: base, step and exit of the loop, for ticks of any length,  *)
(* longer than the ring included.                                          *)
THEOREM TickRunsLoop ==
    ASSUME TypeOK, NEW elapsed \in Nat, NEW k \in Nat
    PROVE  /\ LoopAfter(elapsed, 0) =
                 [ms |-> msInCurrentBucket + elapsed, ring |-> buckets,
                  idx |-> bucketIdx, active |-> currentBucketActive]
           /\ Turn(LoopAfter(elapsed, k)) = LoopAfter(elapsed, k + 1)
           /\ LoopAfter(elapsed, k).ms >= 1000 <=>
                 k < (msInCurrentBucket + elapsed) \div 1000
           /\ Tick(elapsed) =>
                 [ms |-> msInCurrentBucket', ring |-> buckets',
                  idx |-> bucketIdx', active |-> currentBucketActive']
                   = LoopAfter(elapsed, (msInCurrentBucket + elapsed) \div 1000)
<1>1. /\ msInCurrentBucket \in Nat /\ currentBucketActive \in BOOLEAN
      /\ buckets \in [Slots -> BOOLEAN]
      /\ bucketIdx \in 0 .. VM_WINDOW_SECONDS - 1
      /\ VM_WINDOW_SECONDS \in Nat /\ VM_WINDOW_SECONDS > 0
  BY VibrationMonitorAssumption DEF TypeOK, Slots
<1>2. LoopAfter(elapsed, 0) =
        [ms |-> msInCurrentBucket + elapsed, ring |-> buckets,
         idx |-> bucketIdx, active |-> currentBucketActive]
  <2>1. BucketsAfter(0) = buckets
    BY <1>1 DEF BucketsAfter
  <2>2. IdxAfter(0) = bucketIdx
    BY <1>1, ModBelowTwice DEF IdxAfter
  <2>3. ActiveAfter(0) = currentBucketActive
    BY <1>1 DEF ActiveAfter
  <2>4. msInCurrentBucket + elapsed - 1000 * 0 = msInCurrentBucket + elapsed
    BY <1>1
  <2> QED
    BY <2>1, <2>2, <2>3, <2>4 DEF LoopAfter
<1>3. Turn(LoopAfter(elapsed, k)) = LoopAfter(elapsed, k + 1)
  <2>2. IdxAfter(k + 1) = (IdxAfter(k) + 1) % VM_WINDOW_SECONDS
    BY IdxSteps
  <2>3. ActiveAfter(k + 1) = FALSE
    BY DEF ActiveAfter
  <2>4. [BucketsAfter(k) EXCEPT ![IdxAfter(k)] = ActiveAfter(k),
                                ![IdxAfter(k + 1)] = FALSE]
          = BucketsAfter(k + 1)
    BY TurnCommits
  <2> DEFINE loop == LoopAfter(elapsed, k)
  <2>5. /\ loop.ring = BucketsAfter(k) /\ loop.idx = IdxAfter(k)
        /\ loop.active = ActiveAfter(k)
    BY DEF LoopAfter
  <2> HIDE DEF loop
  <2> DEFINE left == loop.ms - 1000
             next == (loop.idx + 1) % VM_WINDOW_SECONDS
             turned == [loop.ring EXCEPT ![loop.idx] = loop.active,
                                         ![next] = FALSE]
             after == [ms |-> left, ring |-> BucketsAfter(k + 1),
                       idx |-> IdxAfter(k + 1), active |-> FALSE]
  <2>6. Turn(loop) = after
    <3>1. Turn(loop) =
            [ms |-> left, ring |-> turned, idx |-> next, active |-> FALSE]
      BY DEF Turn
    <3>2. next = IdxAfter(k + 1)
      BY <2>2, <2>5
    <3> HIDE DEF next, left
    <3>3. turned = BucketsAfter(k + 1)
      BY <2>4, <2>5, <3>2
    <3> HIDE DEF turned
    <3> QED
      BY <3>1, <3>2, <3>3
  <2>7. LoopAfter(elapsed, k + 1) = after
    <3> DEFINE rest == msInCurrentBucket + elapsed - 1000 * (k + 1)
    <3>1. left = rest
      BY <1>1 DEF loop, LoopAfter
    <3>2. LoopAfter(elapsed, k + 1) =
            [ms |-> rest, ring |-> BucketsAfter(k + 1),
             idx |-> IdxAfter(k + 1), active |-> ActiveAfter(k + 1)]
      BY DEF LoopAfter
    <3> HIDE DEF left, rest
    <3> QED
      BY <2>3, <3>1, <3>2
  <2> HIDE DEF after
  <2>8. Turn(loop) = LoopAfter(elapsed, k + 1)
    BY <2>6, <2>7
  <2> QED
    BY <2>8 DEF loop
<1>4. LoopAfter(elapsed, k).ms >= 1000 <=>
        k < (msInCurrentBucket + elapsed) \div 1000
  BY <1>1 DEF LoopAfter
<1>5. Tick(elapsed) =>
        [ms |-> msInCurrentBucket', ring |-> buckets',
         idx |-> bucketIdx', active |-> currentBucketActive']
          = LoopAfter(elapsed, (msInCurrentBucket + elapsed) \div 1000)
  BY DEF Tick, LoopAfter
<1> QED
  BY <1>2, <1>3, <1>4, <1>5

-----------------------------------------------------------------------------
(* What get_active_buckets counts, and so what is_running decides by.      *)

(* The completed seconds that saw vibration, by age.                       *)
VibratedAges ==
    {a \in 0 .. VM_WINDOW_SECONDS - 2 : buckets[SlotOfAge(a)]}

SetSlots == {i \in Slots : buckets[i]}

(* Every slot but the one at the write position holds one age.             *)
LEMMA AgesAreSlots ==
    ASSUME TypeOK
    PROVE  /\ \A a \in 0 .. VM_WINDOW_SECONDS - 2 :
                 SlotOfAge(a) \in Slots \ {bucketIdx}
           /\ \A a, b \in 0 .. VM_WINDOW_SECONDS - 2 :
                 SlotOfAge(a) = SlotOfAge(b) => a = b
           /\ \A i \in Slots \ {bucketIdx} :
                 \E a \in 0 .. VM_WINDOW_SECONDS - 2 : SlotOfAge(a) = i
<1>1. /\ bucketIdx \in 0 .. VM_WINDOW_SECONDS - 1
      /\ VM_WINDOW_SECONDS \in Nat /\ VM_WINDOW_SECONDS >= 2
  BY VibrationMonitorAssumption DEF TypeOK, Slots
<1>2. \A a \in 0 .. VM_WINDOW_SECONDS - 2 :
         SlotOfAge(a) \in Slots \ {bucketIdx}
  BY <1>1 DEF SlotOfAge, Slots
<1>3. \A a, b \in 0 .. VM_WINDOW_SECONDS - 2 :
         SlotOfAge(a) = SlotOfAge(b) => a = b
  BY <1>1 DEF SlotOfAge
<1>4. ASSUME NEW i \in Slots \ {bucketIdx}
      PROVE  \E a \in 0 .. VM_WINDOW_SECONDS - 2 : SlotOfAge(a) = i
  <2> DEFINE age == IF bucketIdx > i THEN bucketIdx - 1 - i
                    ELSE bucketIdx - 1 - i + VM_WINDOW_SECONDS
  <2>1. i \in 0 .. VM_WINDOW_SECONDS - 1 /\ i # bucketIdx
    BY DEF Slots
  <2>2. age \in 0 .. VM_WINDOW_SECONDS - 2
    BY <1>1, <2>1
  <2>3. SlotOfAge(age) = i
    BY <1>1, <2>1 DEF SlotOfAge
  <2> QED
    BY <2>2, <2>3
<1> QED
  BY <1>2, <1>3, <1>4

LEMMA SlotsAreFinite ==
    /\ IsFiniteSet(0 .. VM_WINDOW_SECONDS - 2)
    /\ Cardinality(0 .. VM_WINDOW_SECONDS - 2) = VM_WINDOW_SECONDS - 1
<1>1. 0 \in Int /\ VM_WINDOW_SECONDS - 2 \in Int /\ 0 <= VM_WINDOW_SECONDS - 2
  BY VibrationMonitorAssumption
<1>2. Cardinality(0 .. VM_WINDOW_SECONDS - 2) = VM_WINDOW_SECONDS - 2 - 0 + 1
  BY <1>1, FS_Interval
<1>3. IsFiniteSet(0 .. VM_WINDOW_SECONDS - 2)
  BY <1>1, FS_Interval
<1> QED
  BY <1>2, <1>3, VibrationMonitorAssumption

LEMMA AsManyAgesAsSlots ==
    ASSUME TypeOK, WritePositionClear
    PROVE  /\ Cardinality(SetSlots) = Cardinality(VibratedAges)
           /\ Cardinality(VibratedAges) \in 0 .. VM_WINDOW_SECONDS - 1
<1> DEFINE f == [a \in VibratedAges |-> SlotOfAge(a)]
<1>1. f \in [VibratedAges -> SetSlots]
  BY AgesAreSlots DEF VibratedAges, SetSlots
<1>2. \A a, b \in VibratedAges : f[a] = f[b] => a = b
  BY AgesAreSlots DEF VibratedAges
<1>3. \A i \in SetSlots : \E a \in VibratedAges : f[a] = i
  <2> SUFFICES ASSUME NEW i \in SetSlots
               PROVE  \E a \in VibratedAges : f[a] = i
    OBVIOUS
  <2>1. i \in Slots \ {bucketIdx} /\ buckets[i]
    BY DEF SetSlots, WritePositionClear
  <2>2. PICK a \in 0 .. VM_WINDOW_SECONDS - 2 : SlotOfAge(a) = i
    BY <2>1, AgesAreSlots
  <2>3. a \in VibratedAges
    BY <2>1, <2>2 DEF VibratedAges
  <2> QED
    BY <2>2, <2>3
<1> HIDE DEF f
<1>4. ExistsBijection(VibratedAges, SetSlots)
  <2>1. f \in Bijection(VibratedAges, SetSlots)
    BY <1>1, <1>2, <1>3 DEF Bijection, Injection, Surjection, IsInjective
  <2> QED
    BY <2>1 DEF ExistsBijection
<1>5. VibratedAges \subseteq 0 .. VM_WINDOW_SECONDS - 2
  BY DEF VibratedAges
<1>6. /\ IsFiniteSet(VibratedAges)
      /\ Cardinality(VibratedAges) <= VM_WINDOW_SECONDS - 1
  BY <1>5, SlotsAreFinite, FS_Subset
<1>7. Cardinality(VibratedAges) \in Nat
  BY <1>6, FS_CardinalityType
<1>8. Cardinality(SetSlots) = Cardinality(VibratedAges)
  BY <1>4, <1>6, FS_Bijection
<1> QED
  BY <1>6, <1>7, <1>8, VibrationMonitorAssumption

(* The machine is Running just when at least s_cfg.bucket_threshold of the *)
(* last VM_WINDOW_SECONDS - 1 completed seconds saw vibration: not of      *)
(* VM_WINDOW_SECONDS, so a threshold of the whole window is never met.     *)
RunningCountsSeconds ==
    /\ IsRunning <=> Cardinality(VibratedAges) >= BucketThreshold
    /\ ActiveBuckets <= VM_WINDOW_SECONDS - 1
    /\ BucketThreshold >= VM_WINDOW_SECONDS => ~ IsRunning

THEOREM RunningIsCounted == Spec => []RunningCountsSeconds
<1>1. Inv => RunningCountsSeconds
  <2> SUFFICES ASSUME Inv PROVE RunningCountsSeconds
    OBVIOUS
  <2>1. /\ Cardinality(SetSlots) = Cardinality(VibratedAges)
        /\ Cardinality(VibratedAges) \in 0 .. VM_WINDOW_SECONDS - 1
    BY AsManyAgesAsSlots DEF Inv
  <2>2. ActiveBuckets = Cardinality(VibratedAges)
    BY <2>1 DEF ActiveBuckets, SetSlots
  <2> QED
    BY <2>1, <2>2, VibrationMonitorAssumption
    DEF RunningCountsSeconds, IsRunning
<1> QED
  BY <1>1, InitInv, NextInv, PTL DEF Spec
=============================================================================
