------------------------ MODULE GarageOpener_proofs ------------------------
(***************************************************************************)
(* Theorems about GarageOpener, for every poll interval, LED time, length  *)
(* of a turn and number of presses.                                        *)
(***************************************************************************)
EXTENDS GarageOpener, TLAPS

(* The loop only goes to take a press that is still latched: nothing but   *)
(* the loop itself clears the latch.                                       *)
PressIsLatched == pc = "press" => latched

(* The last poll is never older than the last poll after a press; for a    *)
(* periodic poll that is under way the latter is long ago.                 *)
PollsAreNoted ==
    \/ buttonPollAge = PollInterval
    \/ /\ pollAge <= buttonPollAge
       /\ ~ (pc \in {"get", "show"} /\ poller = "timer")

(* A lit button LED has someone to turn it off: the press that lit it      *)
(* still waits in the latch, or the loop has started the LED's time.       *)
LitLedIsTimed == buttonLed => latched \/ ledAge # NoTime

Inv == TypeOK /\ PressIsLatched /\ NoUnaskedToggle /\ PollsAreNoted

-----------------------------------------------------------------------------
(* What the steps make of the ages *)

LEMMA OlderRange ==
    ASSUME NEW limit \in Nat, NEW age \in 0 .. limit
    PROVE  Older(age, limit) \in 0 .. limit
  BY DEF Older

(* The interrupt latches at most one press, and only out of a debounce     *)
(* window.                                                                 *)
LEMMA IsrType ==
    ASSUME TypeOK, Isr
    PROVE  /\ latched' \in BOOLEAN /\ debouncing' \in BOOLEAN
           /\ buttonLed' \in BOOLEAN
           /\ latched => latched'
           /\ debouncing => UNCHANGED isrVars
  BY DEF Isr, IsrAccepts, TypeOK, isrVars

LEMMA InitInv == Init => Inv
<1> SUFFICES ASSUME Init PROVE Inv
  OBVIOUS
<1>1. /\ nowAge \in 0 .. MaxTurn
      /\ ledAge \in {NoTime} \cup 0 .. LedDuration + MaxTurn
      /\ pollAge \in 0 .. PollInterval + MaxTurn
      /\ buttonPollAge \in 0 .. PollInterval
      /\ edges \in 0 .. MaxEdges /\ toggles \in 0 .. MaxEdges
  BY GarageOpenerAssumption DEF Init
<1>2. /\ pc = "secrets" /\ poller = "boot" /\ response = "none"
      /\ latched = FALSE /\ debouncing = FALSE /\ buttonLed = FALSE
      /\ pixel = "BLUE" /\ held = FALSE
      /\ up = FALSE /\ hadIp = FALSE /\ connected = FALSE /\ gaveUp = FALSE
      /\ haUp \in BOOLEAN /\ door \in Doors
  BY DEF Init, Wifi!Init
<1>3. TypeOK
  BY <1>1, <1>2 DEF TypeOK
<1>4. PressIsLatched /\ NoUnaskedToggle /\ PollsAreNoted
  BY DEF Init, PressIsLatched, NoUnaskedToggle, PollsAreNoted
<1> QED
  BY <1>3, <1>4 DEF Inv

LEMMA TypeOKNext == Inv /\ [Next]_vars => TypeOK'
<1> SUFFICES ASSUME Inv, [Next]_vars PROVE TypeOK'
  OBVIOUS
<1> USE DEF Inv, TypeOK
<1>1. CASE LoadSecrets
  BY <1>1 DEF LoadSecrets, isrVars, clockVars, externals, wifiVars,
              worldVars, buttonVars
<1>2. CASE WifiInitReturns
  BY <1>2 DEF WifiInitReturns, isrVars, clockVars, externals, wifiVars,
              worldVars, buttonVars
<1>3. CASE Get
  BY <1>3 DEF Get, isrVars, clockVars, externals, wifiVars, worldVars,
              buttonVars
<1>4. CASE Show
  <2>1. /\ pollAge' \in 0 .. PollInterval + MaxTurn
        /\ buttonPollAge' \in 0 .. PollInterval
        /\ UNCHANGED <<nowAge, ledAge>>
    BY <1>4, GarageOpenerAssumption DEF Show, NotePoll
  <2>2. /\ pc' \in {"top", "led", "delay"}
        /\ pixel' \in {"GREEN", "YELLOW", "RED"}
        /\ response' = "none"
    BY <1>4 DEF Show, Color
  <2> QED
    BY <1>4, <2>1, <2>2
    DEF Show, isrVars, externals, wifiVars, worldVars, buttonVars
<1>5. CASE ReadNow
  <2>1. nowAge' \in 0 .. MaxTurn
    BY <1>5, GarageOpenerAssumption DEF ReadNow
  <2> QED
    BY <1>5, <2>1 DEF ReadNow, isrVars, externals, wifiVars, worldVars,
                      buttonVars
<1>6. CASE CheckLatch
  BY <1>6 DEF CheckLatch, isrVars, clockVars, externals, wifiVars,
              worldVars, buttonVars
<1>7. CASE TakePress
  <2>1. ledAge' \in {NoTime} \cup 0 .. LedDuration + MaxTurn
    BY <1>7, GarageOpenerAssumption DEF TakePress, StartLedTimer
  <2>2. /\ pc' \in {"post", "led"} /\ latched' \in BOOLEAN
        /\ pixel' \in {"BLUE", "RED", "GREEN", "YELLOW"}
    BY <1>7 DEF TakePress
  <2>3. UNCHANGED <<poller, response, debouncing, buttonLed, nowAge, pollAge,
                    buttonPollAge, externals, toggles>>
    BY <1>7 DEF TakePress
  <2> QED
    BY <2>1, <2>2, <2>3 DEF externals, wifiVars, worldVars, buttonVars
<1>8. CASE ToggleGarage
  <2>1. toggles' \in 0 .. MaxEdges
    BY <1>8, GarageOpenerAssumption DEF ToggleGarage, NoUnaskedToggle
  <2>2. /\ pc' = "get" /\ poller' = "button" /\ door' \in Doors
        /\ UNCHANGED haUp
    BY <1>8 DEF ToggleGarage
  <2> QED
    BY <1>8, <2>1, <2>2 DEF ToggleGarage, isrVars, clockVars, wifiVars,
                            buttonVars
<1>9. CASE LedOff
  <2>1. /\ ledAge' \in {NoTime, ledAge} /\ buttonLed' \in {FALSE, buttonLed}
        /\ pc' = "poll"
    BY <1>9 DEF LedOff
  <2>2. /\ ledAge' \in {NoTime} \cup 0 .. LedDuration + MaxTurn
        /\ buttonLed' \in BOOLEAN
    BY <2>1
  <2>3. UNCHANGED <<poller, response, latched, debouncing, pixel, nowAge,
                    pollAge, buttonPollAge, externals, toggles>>
    BY <1>9 DEF LedOff
  <2> QED
    BY <2>1, <2>2, <2>3 DEF externals, wifiVars, worldVars, buttonVars
<1>10. CASE PollIfDue
  <2>1. pollAge' \in 0 .. PollInterval + MaxTurn
    BY <1>10, GarageOpenerAssumption DEF PollIfDue
  <2>2. /\ pc' \in {"get", "delay"} /\ poller' \in {poller, "timer"}
        /\ pixel' \in {pixel, "YELLOW"}
    BY <1>10 DEF PollIfDue
  <2> QED
    BY <1>10, <2>1, <2>2 DEF PollIfDue, isrVars, externals, wifiVars,
                             worldVars, buttonVars
<1>11. CASE Delay
  BY <1>11 DEF Delay, isrVars, clockVars, externals, wifiVars, worldVars,
               buttonVars
<1>12. CASE Press \/ Rebound
  <2>1. Edge /\ held' \in BOOLEAN
    BY <1>12 DEF Press, Rebound
  <2>2. edges' \in 0 .. MaxEdges
    BY <2>1, GarageOpenerAssumption DEF Edge
  <2>3. /\ latched' \in BOOLEAN /\ debouncing' \in BOOLEAN
        /\ buttonLed' \in BOOLEAN
    BY <2>1, IsrType DEF Edge
  <2> QED
    BY <2>1, <2>2, <2>3 DEF Edge, mainVars, clockVars, wifiVars, worldVars
<1>13. CASE Bounce
  <2>1. UNCHANGED isrVars
    BY <1>13, IsrType DEF Bounce
  <2> QED
    BY <1>13, <2>1 DEF Bounce, mainVars, isrVars, clockVars, externals,
                       wifiVars, worldVars, buttonVars
<1>14. CASE Release
  <2>1. held' \in BOOLEAN
    BY <1>14 DEF Release
  <2>2. UNCHANGED <<mainVars, isrVars, pixel, clockVars, wifiVars, worldVars,
                    edges, toggles>>
    BY <1>14 DEF Release
  <2> QED
    BY <2>1, <2>2 DEF mainVars, isrVars, clockVars, wifiVars, worldVars
<1>15. CASE DebounceOver
  <2>1. debouncing' \in BOOLEAN
    BY <1>15 DEF DebounceOver
  <2>2. UNCHANGED <<mainVars, latched, buttonLed, pixel, clockVars, externals,
                    toggles>>
    BY <1>15 DEF DebounceOver
  <2> QED
    BY <2>1, <2>2 DEF mainVars, clockVars, externals, wifiVars, worldVars,
                      buttonVars
<1>16. CASE Tick
  <2>1. /\ nowAge' \in 0 .. MaxTurn
        /\ pollAge' \in 0 .. PollInterval + MaxTurn
        /\ buttonPollAge' \in 0 .. PollInterval
    BY <1>16, GarageOpenerAssumption DEF Tick, Older
  <2>2. ledAge' \in {NoTime} \cup 0 .. LedDuration + MaxTurn
    BY <1>16, GarageOpenerAssumption, OlderRange DEF Tick, NoTime
  <2> QED
    BY <1>16, <2>1, <2>2 DEF Tick, mainVars, isrVars, externals, wifiVars,
                             worldVars, buttonVars
<1>17. CASE Network
  <2>1. /\ up' \in BOOLEAN /\ hadIp' \in BOOLEAN
        /\ connected' \in BOOLEAN /\ gaveUp' \in BOOLEAN
    BY <1>17 DEF Network, Wifi!Next, Wifi!ComeUp, Wifi!GoDown, Wifi!Tell,
                 Wifi!GiveUp
  <2> QED
    BY <1>17, <2>1 DEF Network, mainVars, isrVars, clockVars, worldVars,
                       buttonVars
<1>18. CASE HomeAssistant
  BY <1>18 DEF HomeAssistant, mainVars, isrVars, clockVars, wifiVars,
               buttonVars
<1>19. CASE Door
  BY <1>19 DEF Door, mainVars, isrVars, clockVars, wifiVars, buttonVars
<1>20. CASE UNCHANGED vars
  BY <1>20 DEF vars, mainVars, isrVars, clockVars, externals, wifiVars,
               worldVars, buttonVars
<1> QED
  BY <1>1, <1>2, <1>3, <1>4, <1>5, <1>6, <1>7, <1>8, <1>9, <1>10, <1>11,
     <1>12, <1>13, <1>14, <1>15, <1>16, <1>17, <1>18, <1>19, <1>20
  DEF Next, Main

(* A press is toggled once: the loop's only step that requests a toggle    *)
(* spends the press it took, and it took a latched one.                    *)
LEMMA TogglesNext == Inv /\ [Next]_vars => PressIsLatched' /\ NoUnaskedToggle'
<1> SUFFICES ASSUME Inv, [Next]_vars
             PROVE  PressIsLatched' /\ NoUnaskedToggle'
  OBVIOUS
<1>1. /\ toggles \in Nat /\ edges \in Nat
      /\ latched \in BOOLEAN /\ debouncing \in BOOLEAN
  BY GarageOpenerAssumption DEF Inv, TypeOK
<1> USE DEF Inv, PressIsLatched, NoUnaskedToggle
<1>2. CASE CheckLatch
  BY <1>1, <1>2 DEF CheckLatch, isrVars, externals, buttonVars
<1>3. CASE TakePress
  BY <1>1, <1>3 DEF TakePress, externals, buttonVars
<1>4. CASE ToggleGarage
  BY <1>1, <1>4 DEF ToggleGarage, isrVars, buttonVars
<1>5. ASSUME UNCHANGED <<latched, edges, toggles>>,
             pc' \notin {"press", "post"} \/ UNCHANGED pc
      PROVE  PressIsLatched' /\ NoUnaskedToggle'
  BY <1>1, <1>5
<1>6. CASE Press \/ Rebound
  <2>1. /\ edges' = edges + 1 /\ UNCHANGED <<pc, toggles>>
        /\ latched' \in BOOLEAN /\ (latched => latched')
    BY <1>6, IsrType DEF Press, Rebound, Edge, mainVars
  <2> QED
    BY <1>1, <2>1
<1>7. CASE LoadSecrets \/ WifiInitReturns \/ Get \/ Show \/ ReadNow
  <2>1. /\ UNCHANGED <<latched, edges, toggles>>
        /\ pc' \notin {"press", "post"}
    BY <1>7 DEF LoadSecrets, WifiInitReturns, Get, Show, ReadNow, isrVars,
                externals, buttonVars, TypeOK
  <2> QED
    BY <1>5, <2>1
<1>8. CASE LedOff \/ PollIfDue \/ Delay
  <2>1. /\ UNCHANGED <<latched, edges, toggles>>
        /\ pc' \notin {"press", "post"}
    BY <1>8 DEF LedOff, PollIfDue, Delay, isrVars, externals, buttonVars
  <2> QED
    BY <1>5, <2>1
<1>9. CASE Bounce
  <2>1. UNCHANGED <<latched, edges, toggles, pc>>
    BY <1>9, IsrType DEF Bounce, isrVars, externals, buttonVars, mainVars
  <2> QED
    BY <1>5, <2>1
<1>10. CASE Release \/ DebounceOver \/ Tick \/ Network \/ HomeAssistant \/ Door
  <2>1. UNCHANGED <<latched, edges, toggles, pc>>
    BY <1>10 DEF Release, DebounceOver, Tick, Network, HomeAssistant, Door,
                 isrVars, externals, buttonVars, mainVars
  <2> QED
    BY <1>5, <2>1
<1>11. CASE UNCHANGED vars
  BY <1>5, <1>11 DEF vars, isrVars, externals, buttonVars, mainVars
<1> QED
  BY <1>2, <1>3, <1>4, <1>6, <1>7, <1>8, <1>9, <1>10, <1>11 DEF Next, Main

(* Each caller of poll_garage_status notes its poll so that the periodic   *)
(* poll finds every other one.                                             *)
LEMMA PollsNext == Inv /\ [Next]_vars => PollsAreNoted'
<1> SUFFICES ASSUME Inv, [Next]_vars PROVE PollsAreNoted'
  OBVIOUS
<1>1. /\ PollInterval \in Nat \ {0} /\ MaxTurn \in Nat
      /\ nowAge \in Nat /\ pollAge \in Nat /\ buttonPollAge \in Nat
      /\ buttonPollAge <= PollInterval
      /\ pollAge <= PollInterval + MaxTurn
  BY GarageOpenerAssumption DEF Inv, TypeOK
<1> USE DEF PollsAreNoted
<1>2. PollsAreNoted
  BY DEF Inv
<1>3. ASSUME UNCHANGED <<pollAge, buttonPollAge>>,
             ~ (pc' \in {"get", "show"} /\ poller' = "timer")
               \/ UNCHANGED <<pc, poller>>
      PROVE  PollsAreNoted'
  BY <1>2, <1>3
<1>4. CASE LoadSecrets \/ WifiInitReturns \/ ReadNow \/ CheckLatch
  <2>1. /\ UNCHANGED <<pollAge, buttonPollAge>>
        /\ ~ (pc' \in {"get", "show"} /\ poller' = "timer")
    BY <1>4 DEF LoadSecrets, WifiInitReturns, ReadNow, CheckLatch, clockVars
  <2> QED
    BY <1>3, <2>1
<1>5. CASE TakePress \/ ToggleGarage \/ LedOff \/ Delay
  <2>1. /\ UNCHANGED <<pollAge, buttonPollAge>>
        /\ ~ (pc' \in {"get", "show"} /\ poller' = "timer")
    BY <1>5 DEF TakePress, ToggleGarage, LedOff, Delay, clockVars
  <2> QED
    BY <1>3, <2>1
<1>6. CASE Get
  BY <1>2, <1>6 DEF Get, clockVars
<1>7. CASE Show
  BY <1>1, <1>2, <1>7 DEF Show, NotePoll, Inv, TypeOK
<1>8. CASE PollIfDue
  <2>1. PollIsDue => buttonPollAge = PollInterval
    BY <1>1, <1>2 DEF PollIsDue
  <2> QED
    BY <1>2, <1>8, <2>1 DEF PollIfDue
<1>9. CASE Tick
  BY <1>1, <1>2, <1>9 DEF Tick, Older, mainVars
<1>10. CASE Press \/ Rebound \/ Bounce \/ Release \/ DebounceOver
  <2>1. UNCHANGED <<pc, poller, pollAge, buttonPollAge>>
    BY <1>10 DEF Press, Rebound, Edge, Bounce, Release, DebounceOver,
                 mainVars, clockVars
  <2> QED
    BY <1>3, <2>1
<1>11. CASE Network \/ HomeAssistant \/ Door \/ UNCHANGED vars
  <2>1. UNCHANGED <<pc, poller, pollAge, buttonPollAge>>
    BY <1>11 DEF Network, HomeAssistant, Door, vars, mainVars, clockVars
  <2> QED
    BY <1>3, <2>1
<1> QED
  BY <1>4, <1>5, <1>6, <1>7, <1>8, <1>9, <1>10, <1>11 DEF Next, Main

(* The interrupt lights the LED together with the latch, and taking the    *)
(* press out of the latch starts the LED's time in the same turn.          *)
LEMMA LitLedNext == LitLedIsTimed /\ Inv /\ [Next]_vars => LitLedIsTimed'
<1> SUFFICES ASSUME LitLedIsTimed, Inv, [Next]_vars PROVE LitLedIsTimed'
  OBVIOUS
<1>1. nowAge \in Nat /\ (ledAge = NoTime \/ ledAge \in Nat)
  BY GarageOpenerAssumption DEF Inv, TypeOK
<1> USE DEF LitLedIsTimed
<1>2. ASSUME UNCHANGED <<buttonLed, latched, ledAge>> PROVE LitLedIsTimed'
  BY <1>2
<1>3. CASE LoadSecrets \/ WifiInitReturns \/ Get \/ Show \/ ReadNow
           \/ CheckLatch \/ ToggleGarage \/ PollIfDue \/ Delay
  <2>1. UNCHANGED <<buttonLed, latched, ledAge>>
    BY <1>3 DEF LoadSecrets, WifiInitReturns, Get, Show, NotePoll, ReadNow,
                CheckLatch, ToggleGarage, PollIfDue, Delay, isrVars, clockVars
  <2> QED
    BY <1>2, <2>1
<1>4. CASE TakePress
  BY <1>1, <1>4 DEF TakePress, StartLedTimer, NoTime
<1>5. CASE LedOff
  BY <1>5 DEF LedOff
<1>6. CASE Press \/ Rebound \/ Bounce
  BY <1>6 DEF Press, Rebound, Edge, Bounce, Isr, isrVars, clockVars
<1>7. CASE Tick
  BY <1>1, <1>7 DEF Tick, Older, NoTime, isrVars
<1>8. CASE Release \/ DebounceOver \/ Network \/ HomeAssistant \/ Door
           \/ UNCHANGED vars
  <2>1. UNCHANGED <<buttonLed, latched, ledAge>>
    BY <1>8 DEF Release, DebounceOver, Network, HomeAssistant, Door, vars,
                isrVars, clockVars
  <2> QED
    BY <1>2, <2>1
<1> QED
  BY <1>3, <1>4, <1>5, <1>6, <1>7, <1>8 DEF Next, Main

LEMMA InvHolds == Spec => []Inv
<1>1. Inv /\ [Next]_vars => Inv'
  BY TypeOKNext, TogglesNext, PollsNext DEF Inv
<1> QED
  BY <1>1, InitInv, PTL DEF Spec

-----------------------------------------------------------------------------
(* Every variable of main.c stays in its type; in particular toggle_garage *)
(* is called no more often than the button gave an edge.                   *)
THEOREM TypeCorrect == Spec => []TypeOK
  BY InvHolds, PTL DEF Inv

(* The garage door is toggled at most once for each edge that starts a     *)
(* debounce window, wherever in the loop the interrupt comes.              *)
THEOREM TogglesArePresses == Spec => []NoUnaskedToggle
  BY InvHolds, PTL DEF Inv

(* After the poll that follows a press the next periodic poll is a whole   *)
(* interval later, however long the requests took.                         *)
THEOREM PressDelaysPoll == Spec => NoPollRightAfterPress
<1>1. Inv /\ [Next]_vars =>
        [ pc = "poll" /\ pc' = "get" => buttonPollAge >= PollInterval ]_vars
  <2> SUFFICES ASSUME Inv, Next, pc = "poll", pc' = "get"
               PROVE  buttonPollAge >= PollInterval
    OBVIOUS
  <2>1. /\ PollInterval \in Nat /\ nowAge \in Nat /\ pollAge \in Nat
        /\ buttonPollAge \in 0 .. PollInterval
    BY GarageOpenerAssumption DEF Inv, TypeOK
  <2>2. PollIfDue
    BY DEF Next, Main, LoadSecrets, WifiInitReturns, Get, Show, ReadNow,
           CheckLatch, TakePress, ToggleGarage, LedOff, Delay, Press, Rebound,
           Edge, Bounce, Release, DebounceOver, Tick, Network, HomeAssistant,
           Door, mainVars
  <2>3. PollIsDue
    BY <2>2 DEF PollIfDue
  <2> QED
    BY <2>1, <2>3 DEF PollIsDue, Inv, PollsAreNoted
<1> QED
  BY <1>1, InvHolds, PTL DEF Spec, NoPollRightAfterPress

(* The interrupt and the loop both write the button LED, without a lock,   *)
(* and still no LED is left lit that nobody would turn off: wherever the   *)
(* interrupt comes, a lit LED has a press in the latch or its time running.*)
(* What is left of ButtonLedGoesOut is that the loop keeps turning.        *)
THEOREM NoLedIsForgotten == Spec => []LitLedIsTimed
<1>1. Init => LitLedIsTimed
  BY DEF Init, LitLedIsTimed
<1> QED
  BY <1>1, LitLedNext, InvHolds, PTL DEF Spec
=============================================================================
