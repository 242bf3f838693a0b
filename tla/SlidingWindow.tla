--------------------------- MODULE SlidingWindow ---------------------------
(***************************************************************************)
(* What the laundry detector's vibration window promises, without the ring *)
(* buffer: it remembers, for each of the last Depth completed seconds,     *)
(* whether that second saw vibration.  recent[0] is the second that has    *)
(* just ended, recent[Depth - 1] the oldest one remembered.                *)
(***************************************************************************)
EXTENDS Naturals

CONSTANTS
    Depth,          \* how many completed seconds are remembered
    ElapsedChoices  \* the amounts of time, in ms, that may pass at once

VARIABLES
    recent,   \* recent[a]: the second that ended a seconds ago saw vibration
    current,  \* the second in progress has seen vibration
    phase     \* ms into the second in progress

windowVars == <<recent, current, phase>>

Ages == 0 .. Depth - 1

Empty == [a \in Ages |-> FALSE]

Init ==
    /\ recent = Empty
    /\ current = FALSE
    /\ phase = 0

(* Vibration is seen in the second in progress. *)
Vibrate ==
    /\ current' = TRUE
    /\ UNCHANGED <<recent, phase>>

(* ms milliseconds pass: k seconds complete.  The first of them is the one *)
(* that was in progress, the others saw nothing, and whatever is then      *)
(* older than Depth seconds is forgotten.                                  *)
Elapse(ms) ==
    LET k == (phase + ms) \div 1000 IN
    /\ phase' = phase + ms - 1000 * k
    /\ recent' = [a \in Ages |-> IF a >= k
                                 THEN recent[a - k]
                                 ELSE a = k - 1 /\ current]
    /\ current' = (k = 0 /\ current)

(* Everything is forgotten. *)
Clear ==
    /\ recent' = Empty
    /\ current' = FALSE
    /\ phase' = 0

Next ==
    \/ Vibrate
    \/ \E ms \in ElapsedChoices : Elapse(ms)
    \/ Clear

Spec == Init /\ [][Next]_windowVars
=============================================================================
