-------------------------- MODULE OtManager_proofs --------------------------
(***************************************************************************)
(* Theorems about OtManager, for every set of time-outs, poll interval and *)
(* width of the integers.                                                  *)
(***************************************************************************)
EXTENDS OtManager, TLAPS

(* How far the stack is at each place of a call, when it can have run      *)
(* before the call, and that s_attached is clear all through               *)
(* ot_manager_init.                                                        *)
StackFollowsCall ==
    /\ pc = "clear" => stack = "stopped"
    /\ pc \in {"register", "start"} =>
          /\ stack # "started"
          /\ stack # "stopped" => ranBefore
    /\ pc = "autoStart" => stack = "started"
    /\ pc \in {"look", "wait"} => stack = "joining"
    /\ pc \in {"register", "start", "autoStart", "look", "wait"} =>
          ~ isAttached

(* The task only waits when the next look is not too late. *)
WaitEndsInTime == pc = "wait" => Later(elapsed) <= timeout

Inv == TypeOK /\ StackFollowsCall /\ WaitEndsInTime /\ JoinedOrUndone

LEMMA LaterIsNat ==
    ASSUME NEW ms \in Nat
    PROVE  Later(ms) \in Nat
  BY OtManagerAssumption DEF Later

LEMMA TypeOKInit == Init => TypeOK
<1> SUFFICES ASSUME Init PROVE TypeOK
  OBVIOUS
<1>1. /\ timeout \in {0} \union Timeouts
      /\ elapsed \in 0 .. timeout
      /\ inits \in 0 .. MaxInits
  BY OtManagerAssumption DEF Init
<1>2. /\ pc = "idle" /\ eventfd = FALSE /\ stack = "stopped"
      /\ role = FALSE /\ ranBefore = FALSE /\ isAttached = FALSE
      /\ ret = "NONE"
  BY DEF Init
<1> QED
  BY <1>1, <1>2 DEF TypeOK

(* The time-out of every call is a number, and so is what was waited. *)
LEMMA Numbers ==
    ASSUME TypeOK
    PROVE  timeout \in Nat /\ elapsed \in Nat /\ elapsed <= timeout
<1>1. Timeouts \subseteq Nat
  BY OtManagerAssumption
<1> QED
  BY <1>1 DEF TypeOK

LEMMA InitInv == Init => Inv
  BY TypeOKInit
  DEF Init, Inv, StackFollowsCall, WaitEndsInTime, JoinedOrUndone

LEMMA NextInv == Inv /\ [Next]_vars => Inv'
<1> SUFFICES ASSUME Inv, [Next]_vars PROVE Inv'
  OBVIOUS
<1>1. timeout \in Nat /\ elapsed \in Nat /\ elapsed <= timeout
  BY Numbers DEF Inv
<1> USE DEF Inv, TypeOK, StackFollowsCall, JoinedOrUndone, Goto
<1>2. CASE Call
  <2>1. timeout' \in Timeouts /\ timeout' \in Nat /\ inits' \in 0 .. MaxInits
    BY <1>2, OtManagerAssumption DEF Call
  <2>2. elapsed' \in 0 .. timeout'
    BY <1>2, <2>1 DEF Call
  <2> QED
    BY <1>2, <2>1, <2>2 DEF Call, stackVars, WaitEndsInTime
<1>3. CASE RegisterEventfd
  BY <1>3 DEF RegisterEventfd, callVars, WaitEndsInTime
<1>4. CASE RegisterEventfdFails
  BY <1>4 DEF RegisterEventfdFails, Fail, stackVars, callVars, WaitEndsInTime
<1>5. CASE StartOpenThread
  BY <1>5 DEF StartOpenThread, callVars, WaitEndsInTime
<1>6. CASE StartOpenThreadFails
  BY <1>6 DEF StartOpenThreadFails, Fail, stackVars, callVars, WaitEndsInTime
<1>7. CASE AutoStart
  BY <1>7 DEF AutoStart, callVars, WaitEndsInTime
<1>8. CASE AutoStartFails
  BY <1>8 DEF AutoStartFails, Fail, StopStack, callVars, WaitEndsInTime
<1>9. CASE SeeRole
  BY <1>9 DEF SeeRole, stackVars, callVars, WaitEndsInTime
<1>10. CASE SeeNoRole
  <2>1. Later(elapsed) <= timeout
    BY <1>1, <1>10, LaterIsNat DEF SeeNoRole, TooLate
  <2>2. WaitEndsInTime'
    BY <1>10, <2>1 DEF SeeNoRole, callVars, WaitEndsInTime, Later
  <2> QED
    BY <1>10, <2>2 DEF SeeNoRole, stackVars, callVars
<1>11. CASE Wait
  <2>1. elapsed' \in 0 .. timeout'
    BY <1>1, <1>11, LaterIsNat DEF Wait, WaitEndsInTime
  <2> QED
    BY <1>11, <2>1 DEF Wait, stackVars, WaitEndsInTime
<1>12. CASE TimeOut
  BY <1>12 DEF TimeOut, StopStack, callVars, WaitEndsInTime
<1>13. CASE Leave
  BY <1>13 DEF Leave, StopStack, callVars, WaitEndsInTime
<1>14. CASE ClearAttached
  BY <1>14 DEF ClearAttached, stackVars, callVars, WaitEndsInTime
<1>15. CASE ChangeRole
  BY <1>15 DEF ChangeRole, callVars, WaitEndsInTime, Later
<1>16. CASE UNCHANGED vars
  BY <1>16 DEF vars, stackVars, callVars, WaitEndsInTime, Later
<1> QED
  BY <1>2, <1>3, <1>4, <1>5, <1>6, <1>7, <1>8, <1>9, <1>10, <1>11, <1>12,
     <1>13, <1>14, <1>15, <1>16
  DEF Next, InitStep

LEMMA InvHolds == Spec => []Inv
  BY InitInv, NextInv, PTL DEF Spec

(* ot_manager_init never counts past its timeout_ms, also where its 32-bit *)
(* sum wraps, and a role is only held by a stack that joined.              *)
THEOREM TypeCorrect == Spec => []TypeOK
  BY InvHolds, PTL DEF Inv

(* No way in which joining can fail leaves a stack running that did not    *)
(* run before, none leaves one half started, and none of leaving leaves    *)
(* the flag.                                                               *)
THEOREM FailureLeavesNothing == Spec => []JoinedOrUndone
  BY InvHolds, PTL DEF Inv
=============================================================================
