------------------------- MODULE MCVibrationMonitor -------------------------
(***************************************************************************)
(* VibrationMonitor on a small ring, with the loop of vibration_monitor_   *)
(* tick written out turn by turn, to check the closed form that Tick uses. *)
(***************************************************************************)
EXTENDS VibrationMonitor

(* Ticks of half a second and one second, one of the size the unit tests   *)
(* use that goes past a second boundary more than once, and one longer     *)
(* than the whole ring of four slots.                                      *)
MCTickSizes == {500, 1000, 2500, 5000}
MCMagnitudes == {89, 90}

(* The while loop of vibration_monitor_tick. *)
RECURSIVE TickLoop(_)
TickLoop(loop) == IF loop.ms < 1000 THEN loop ELSE TickLoop(Turn(loop))

(* In every reachable state and for every tick size, one call of Tick      *)
(* leaves the ring, the write position, the bucket in progress and its     *)
(* milliseconds as the loop of the code leaves them.                       *)
TickMatchesLoop ==
    [][ \A elapsed \in TickSizes :
          Tick(elapsed) =>
            [ms |-> msInCurrentBucket', ring |-> buckets',
             idx |-> bucketIdx', active |-> currentBucketActive']
            = TickLoop([ms |-> msInCurrentBucket + elapsed, ring |-> buckets,
                        idx |-> bucketIdx, active |-> currentBucketActive])
      ]_vmVars
=============================================================================
