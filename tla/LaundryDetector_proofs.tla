----------------------- MODULE LaundryDetector_proofs -----------------------
(***************************************************************************)
(* Theorems about LaundryDetector, for every value the wake cause of the   *)
(* timer has and every number of resets, Identify commands and failed      *)
(* windows; and about LaundrySensors, the sensors it brings up and reports *)
(* from, for every set of measurements and of disturbances the CRC detects *)
(* and every number of faults.                                             *)
(***************************************************************************)
EXTENDS LaundryDetector, Integers, TLAPS

CONSTANTS Measurements, Charges, Disturbances, MaxBusErrors, MaxRefusals

VARIABLES sensorPc, missing, world, sample, reading, battery, temperature,
          humidity, busErrors, refusals

(* The sensors have a life of their own: nothing they keep is the boot's.  *)
Sensors == INSTANCE LaundrySensors WITH pc <- sensorPc

Booting == {"boot", "nvs", "sensors", "start"}

(* CHIP callbacks only come while the CHIP task runs, from esp_matter's    *)
(* start to the end of the life.                                           *)
ChipFollowsLife ==
    /\ chipUp => pc \notin Booting \cup {"asleep"}
    /\ ~ chipUp => ~ pairing /\ blinks = 0

(* A pairing is the pairing of a fabric that is in the table.              *)
PairingHasFabric == pairing => fabrics = 1

(* Nothing is reported before an action is decided on, and the branch of   *)
(* switch (action) that the thread is in is that one's.                    *)
BranchFollowsAction ==
    /\ action = "NONE" <=>
          pc \in Booting \cup {"failed", "provision", "count", "assign",
                              "decide"}
    /\ pc = "wait" => action = "WAIT_FOR_COMMISSION"
    /\ pc \in {"startup", "reportAwake"} => action = "STARTUP_SLEEP"
    /\ pc = "monitor" => action \in {"ACTIVE_MONITOR", "STARTUP_SLEEP"}
    /\ action = "NONE" => ~ opState /\ ~ wasRunning /\ ~ refused

(* A thread that decided on something else than to wait, or waits no more, *)
(* has seen s_commissioned set, and nothing clears it.                     *)
WaitedForCommission ==
    action # "NONE" /\ pc # "wait" => commissioned

Inv ==
    /\ TypeOK
    /\ ChipFollowsLife
    /\ PairingHasFabric
    /\ BranchFollowsAction
    /\ WaitedForCommission
    /\ AsleepReportsStopped

LEMMA InitInv == Init => Inv
<1> SUFFICES ASSUME Init PROVE Inv
  OBVIOUS
<1>1. /\ resets \in 0 .. MaxResets /\ deafWindows \in 0 .. MaxDeafWindows
      /\ identifies \in 0 .. MaxIdentifies /\ blinks \in 0 .. 6
  BY LaundryDetectorAssumption DEF Init
<1> QED
  BY <1>1
  DEF Init, Inv, TypeOK, ChipFollowsLife, PairingHasFabric, Booting,
      BranchFollowsAction, WaitedForCommission, AsleepReportsStopped

(* What a report leaves: the attribute is what was reported, or a refusal  *)
(* is on record.                                                           *)
LEMMA ReportIsMade ==
    ASSUME TypeOK, NEW value \in BOOLEAN, UpdateOperationalState(value)
    PROVE  /\ wasRunning' = value /\ wasRunning' \in BOOLEAN
           /\ opState' \in BOOLEAN /\ refused' \in BOOLEAN
           /\ opState' = value \/ refused' = TRUE
  BY DEF UpdateOperationalState, TypeOK

LEMMA PowerIsDown ==
    ASSUME TypeOK, PowerDown
    PROVE  /\ chipUp' = FALSE /\ blinks' = 0 /\ pairing' = FALSE
           /\ chipUp' \in BOOLEAN /\ pairing' \in BOOLEAN
           /\ fabrics' \in {0, 1}
  BY DEF PowerDown, TypeOK

LEMMA NextInv == Inv /\ [Next]_vars => Inv'
<1> SUFFICES ASSUME Inv, [Next]_vars PROVE Inv'
  OBVIOUS
<1> USE LaundryDetectorAssumption
    DEF Inv, TypeOK, ChipFollowsLife, PairingHasFabric, Booting,
        BranchFollowsAction, WaitedForCommission, AsleepReportsStopped,
        Goto, others, chipVars, fabricVars, envVars, bootVars, matterVars
<1>1. CASE ShowWakeup
  BY <1>1 DEF ShowWakeup
<1>2. CASE InitNvs
  BY <1>2 DEF InitNvs
<1>3. CASE InitSensors
  BY <1>3 DEF InitSensors
<1>4. CASE Start
  BY <1>4 DEF Start
<1>5. CASE StartFails
  BY <1>5 DEF StartFails
<1>6. CASE ProvisionThread
  BY <1>6 DEF ProvisionThread
<1>7. CASE CountFabrics
  BY <1>7 DEF CountFabrics
<1>8. CASE AssignCommissioned
  BY <1>8 DEF AssignCommissioned
<1>9. CASE Decide
  BY <1>9 DEF Decide, BootAction, BranchLeds
<1>10. CASE LeaveWait
  BY <1>10 DEF LeaveWait
<1>11. CASE StartupVibration
  BY <1>11 DEF StartupVibration
<1>12. CASE StartupQuiet
  BY <1>12 DEF StartupQuiet
<1>13. CASE StartupDeaf
  BY <1>13 DEF StartupDeaf
<1>14. CASE ReportAwake
  <2>1. /\ wasRunning' = FALSE /\ wasRunning' \in BOOLEAN
        /\ opState' \in BOOLEAN /\ refused' \in BOOLEAN
    BY <1>14, ReportIsMade DEF ReportAwake
  <2>2. /\ pc = "reportAwake" /\ pc' = "monitor"
        /\ UNCHANGED <<bootVars, commissioned, led, interrupt, others>>
    BY <1>14 DEF ReportAwake
  <2>3. TypeOK'
    BY <2>1, <2>2
  <2>4. ChipFollowsLife' /\ PairingHasFabric'
    BY <2>1, <2>2
  <2>5. BranchFollowsAction' /\ WaitedForCommission' /\ AsleepReportsStopped'
    BY <2>1, <2>2
  <2> QED
    BY <2>3, <2>4, <2>5
<1>15. CASE ReportStopped
  <2>1. /\ wasRunning' = FALSE /\ wasRunning' \in BOOLEAN
        /\ opState' \in BOOLEAN /\ refused' \in BOOLEAN
        /\ opState' => refused'
    BY <1>15, ReportIsMade DEF ReportStopped
  <2>2. /\ pc = "report" /\ pc' = "configure"
        /\ UNCHANGED <<bootVars, commissioned, led, interrupt, others>>
    BY <1>15 DEF ReportStopped
  <2>3. TypeOK'
    BY <2>1, <2>2
  <2>4. ChipFollowsLife' /\ PairingHasFabric'
    BY <2>1, <2>2
  <2>5. BranchFollowsAction' /\ WaitedForCommission' /\ AsleepReportsStopped'
    BY <2>1, <2>2
  <2> QED
    BY <2>3, <2>4, <2>5
<1>16. CASE MonitorShows
  BY <1>16 DEF MonitorShows
<1>17. CASE MonitorReports
  <2>1. /\ wasRunning' \in BOOLEAN /\ opState' \in BOOLEAN
        /\ refused' \in BOOLEAN
    BY <1>17, ReportIsMade DEF MonitorReports
  <2>2. /\ pc = "monitor" /\ pc' = "monitor"
        /\ UNCHANGED <<bootVars, commissioned, led, interrupt, others>>
    BY <1>17 DEF MonitorReports
  <2> QED
    BY <2>1, <2>2
<1>18. CASE MonitorQuiet
  BY <1>18 DEF MonitorQuiet
<1>19. CASE ConfigureInterrupt
  BY <1>19 DEF ConfigureInterrupt
<1>20. CASE Darken
  BY <1>20 DEF Darken
<1>21. CASE EnterDeepSleep
  <2>1. /\ chipUp' = FALSE /\ blinks' = 0 /\ pairing' = FALSE
        /\ chipUp' \in BOOLEAN /\ pairing' \in BOOLEAN
        /\ fabrics' \in {0, 1}
    BY <1>21, PowerIsDown DEF EnterDeepSleep
  <2>2. /\ pc = "settle" /\ pc' = "asleep"
        /\ UNCHANGED <<bootVars, commissioned, matterVars, led, interrupt,
                       identifies, envVars>>
    BY <1>21 DEF EnterDeepSleep
  <2>3. TypeOK'
    BY <2>1, <2>2
  <2>4. ChipFollowsLife' /\ PairingHasFabric'
    BY <2>1, <2>2
  <2>5. BranchFollowsAction' /\ WaitedForCommission' /\ AsleepReportsStopped'
    BY <2>1, <2>2
  <2> QED
    BY <2>3, <2>4, <2>5
<1>22. CASE WakeByTimer
  BY <1>22 DEF WakeByTimer, Restart
<1>23. CASE WakeByMotion
  BY <1>23 DEF WakeByMotion, Restart
<1>24. CASE Reset
  <2>1. /\ chipUp' = FALSE /\ blinks' = 0 /\ pairing' = FALSE
        /\ chipUp' \in BOOLEAN /\ pairing' \in BOOLEAN
        /\ fabrics' \in {0, 1}
    BY <1>24, PowerIsDown DEF Reset
  <2>2. /\ resets' \in 0 .. MaxResets
        /\ interrupt' \in {"off", "set", "anything"}
        /\ UNCHANGED <<led, identifies, loud, deafWindows>>
    BY <1>24 DEF Reset
  <2>3. /\ pc' = "boot" /\ wakeup' = WAKEUP_FRESH_BOOT
        /\ fabricCount' = 0 /\ action' = "NONE"
        /\ commissioned' = FALSE /\ commissioned' \in BOOLEAN
        /\ opState' = FALSE /\ opState' \in BOOLEAN
        /\ wasRunning' = FALSE /\ wasRunning' \in BOOLEAN
        /\ refused' = FALSE /\ refused' \in BOOLEAN
    BY <1>24 DEF Reset, Restart
  <2>4. TypeOK'
    BY <2>1, <2>2, <2>3
  <2>5. ChipFollowsLife' /\ PairingHasFabric'
    BY <2>1, <2>3
  <2>6. BranchFollowsAction' /\ WaitedForCommission' /\ AsleepReportsStopped'
    BY <2>3
  <2> QED
    BY <2>4, <2>5, <2>6
<1>25. CASE AddFabric
  BY <1>25 DEF AddFabric
<1>26. CASE CommissioningComplete
  <2>1. /\ pairing' = FALSE /\ pairing' \in BOOLEAN
        /\ commissioned' = TRUE /\ commissioned' \in BOOLEAN
        /\ led' = "CONNECTED"
        /\ chipUp
        /\ UNCHANGED <<pc, bootVars, matterVars, interrupt, chipVars,
                       fabrics, envVars>>
    BY <1>26 DEF CommissioningComplete
  <2>2. TypeOK'
    BY <2>1
  <2>3. ChipFollowsLife' /\ PairingHasFabric'
    BY <2>1
  <2>4. BranchFollowsAction' /\ WaitedForCommission' /\ AsleepReportsStopped'
    BY <2>1
  <2> QED
    BY <2>2, <2>3, <2>4
<1>27. CASE FabricRemoved
  <2>1. /\ fabrics' = 0 /\ led' = "STARTUP"
        /\ pairing' = FALSE /\ pairing' \in BOOLEAN
        /\ chipUp
        /\ UNCHANGED <<pc, bootVars, commissioned, matterVars, interrupt,
                       chipVars, envVars>>
    BY <1>27 DEF FabricRemoved
  <2>2. TypeOK'
    BY <2>1
  <2>3. ChipFollowsLife' /\ PairingHasFabric'
    BY <2>1
  <2>4. BranchFollowsAction' /\ WaitedForCommission' /\ AsleepReportsStopped'
    BY <2>1
  <2> QED
    BY <2>2, <2>3, <2>4
<1>28. CASE Identify
  BY <1>28 DEF Identify, BlinkSteps
<1>29. CASE Blink
  BY <1>29 DEF Blink
<1>30. CASE Machine
  BY <1>30 DEF Machine
<1>31. CASE UNCHANGED vars
  BY <1>31 DEF vars
<1> QED
  BY <1>1, <1>2, <1>3, <1>4, <1>5, <1>6, <1>7, <1>8, <1>9, <1>10, <1>11,
     <1>12, <1>13, <1>14, <1>15, <1>16, <1>17, <1>18, <1>19, <1>20, <1>21,
     <1>22, <1>23, <1>24, <1>25, <1>26, <1>27, <1>28, <1>29, <1>30, <1>31
  DEF Next, AppStep, MonitorStep, ChipStep

LEMMA InvHolds == Spec => []Inv
  BY InitInv, NextInv, PTL DEF Spec

-----------------------------------------------------------------------------
(* Every variable of main.cpp stays in its type, and the action decided on *)
(* is one determine_boot_action has.                                       *)
THEOREM TypeCorrect == Spec => []TypeOK
  BY InvHolds, PTL DEF Inv

(* On every way into deep sleep the last report was Stopped, and the       *)
(* attribute says so unless the stack refused a report of this life.       *)
THEOREM SleepsReportingStopped == Spec => []AsleepReportsStopped
  BY InvHolds, PTL DEF Inv

(* Before s_commissioned is set the device neither monitors nor sleeps,    *)
(* whatever woke it and whenever its pairing is broken off.                *)
SleepsOnlyCommissioned ==
    pc \in {"monitor", "report", "configure", "darken", "settle", "asleep"} =>
        commissioned

THEOREM UncommissionedStaysAwake == Spec => []SleepsOnlyCommissioned
<1>1. Inv => SleepsOnlyCommissioned
  BY DEF Inv, TypeOK, BranchFollowsAction, WaitedForCommission, Booting,
         SleepsOnlyCommissioned
<1> QED
  BY <1>1, InvHolds, PTL

-----------------------------------------------------------------------------
(* The decision is the wake cause's: an action other than to wait is the   *)
(* one determine_boot_action has for this boot's cause.                    *)
DecisionFollowsWakeup ==
    action \notin {"NONE", "WAIT_FOR_COMMISSION"} =>
        action = BootAction(wakeup, TRUE)

(* s_fabric_count, and so s_commissioned, may change until the decision    *)
(* and after it; the action and the cause do not.                          *)
LEMMA ActionIsKept ==
    ASSUME [Next]_vars
    PROVE  \/ UNCHANGED <<action, wakeup>>
           \/ action' = BootAction(wakeup, commissioned) /\ UNCHANGED wakeup
           \/ action' = "NONE"
<1> USE DEF bootVars
<1>1. CASE Decide
  BY <1>1 DEF Decide
<1>2. CASE WakeByTimer \/ WakeByMotion \/ Reset
  BY <1>2 DEF WakeByTimer, WakeByMotion, Reset, Restart
<1>3. CASE CountFabrics
  BY <1>3 DEF CountFabrics
<1>4. CASE \/ ShowWakeup \/ InitNvs \/ InitSensors \/ Start \/ StartFails
           \/ ProvisionThread \/ AssignCommissioned
  BY <1>4 DEF ShowWakeup, InitNvs, InitSensors, Start, StartFails,
              ProvisionThread, AssignCommissioned
<1>5. CASE \/ LeaveWait \/ StartupVibration \/ StartupQuiet \/ StartupDeaf
           \/ ReportAwake \/ ReportStopped \/ ConfigureInterrupt \/ Darken
           \/ EnterDeepSleep
  BY <1>5 DEF LeaveWait, StartupVibration, StartupQuiet, StartupDeaf,
              ReportAwake, ReportStopped, ConfigureInterrupt, Darken,
              EnterDeepSleep
<1>6. CASE MonitorStep \/ ChipStep \/ Machine \/ UNCHANGED vars
  BY <1>6 DEF MonitorStep, MonitorShows, MonitorReports, MonitorQuiet,
              ChipStep, AddFabric, CommissioningComplete, FabricRemoved,
              Identify, Blink, Machine, vars
<1> QED
  BY <1>1, <1>2, <1>3, <1>4, <1>5, <1>6 DEF Next, AppStep

(* Whatever happens between waking and deciding, and however often.        *)
THEOREM DecidesByWakeup == Spec => []DecisionFollowsWakeup
<1>1. Init => DecisionFollowsWakeup
  BY DEF Init, DecisionFollowsWakeup
<1>2. Inv /\ DecisionFollowsWakeup /\ [Next]_vars => DecisionFollowsWakeup'
  <2> SUFFICES ASSUME Inv, DecisionFollowsWakeup, [Next]_vars,
                      action' \notin {"NONE", "WAIT_FOR_COMMISSION"}
               PROVE  action' = BootAction(wakeup', TRUE)
    BY DEF DecisionFollowsWakeup
  <2>1. CASE UNCHANGED <<action, wakeup>>
    BY <2>1 DEF DecisionFollowsWakeup
  <2>2. CASE action' = BootAction(wakeup, commissioned) /\ UNCHANGED wakeup
    <3>1. commissioned = TRUE
      BY <2>2 DEF Inv, TypeOK, BootAction
    <3> QED
      BY <2>2, <3>1
  <2> QED
    BY <2>1, <2>2, ActionIsKept
<1> QED
  BY <1>1, <1>2, InvHolds, PTL DEF Spec

(* What comes of a wake cause of the timer that is not the one             *)
(* boot_action.h has for it: BOOT_ACTION_TIMER_REPORT is never decided on, *)
(* in no life of the device.                                               *)
THEOREM TimerReportIsDead ==
    ASSUME EspWakeupTimer # WAKEUP_TIMER
    PROVE  Spec => [](action # "TIMER_REPORT")
<1>1. Inv /\ DecisionFollowsWakeup => action # "TIMER_REPORT"
  BY LaundryDetectorAssumption
  DEF Inv, TypeOK, DecisionFollowsWakeup, BootAction, WAKEUP_FRESH_BOOT,
      WAKEUP_TIMER, WAKEUP_GPIO
<1> QED
  BY <1>1, InvHolds, DecidesByWakeup, PTL

(* And were the two the same, what boot_action.h says of timer wakes would *)
(* hold: nothing else stands in its way.                                   *)
THEOREM TimerReportsWithItsCode ==
    ASSUME EspWakeupTimer = WAKEUP_TIMER
    PROVE  Spec => []TimerWakeReports
<1>1. DecisionFollowsWakeup => TimerWakeReports
  BY DEF DecisionFollowsWakeup, TimerWakeReports, BootAction, WAKEUP_TIMER,
         WAKEUP_GPIO
<1> QED
  BY <1>1, DecidesByWakeup, PTL

-----------------------------------------------------------------------------
(* The sensors: conversions *)

(* Intervals as inequalities, which the provers prefer.                    *)
Between(n, lo, hi) == n \in Int /\ lo <= n /\ n <= hi

(* Every word is read as a temperature from -45 to 130 C.                  *)
LEMMA TemperatureInRange ==
    ASSUME NEW raw \in Int, 0 <= raw, raw <= 65535
    PROVE  Between(Sensors!MatterTemp(raw), -4500, 13000)
<1> DEFINE n == 17500 * raw - 4500 * 65535
<1>1. n \in Int /\ -294907500 <= n /\ n <= 851955000
  OBVIOUS
<1> HIDE DEF n
<1>2. CASE n < 0
  <2>1. Between((- n) \div 65535, 0, 4500)
    BY <1>1, <1>2 DEF Between
  <2> QED
    BY <1>1, <1>2, <2>1
    DEF Sensors!MatterTemp, Sensors!Truncated, Between, n
<1>3. CASE ~ (n < 0)
  <2>1. Between(n \div 65535, 0, 13000)
    BY <1>1, <1>3 DEF Between
  <2> QED
    BY <1>1, <1>3, <2>1
    DEF Sensors!MatterTemp, Sensors!Truncated, Between, n
<1> QED
  BY <1>2, <1>3

(* Every word is read as a humidity the attribute is declared for.         *)
LEMMA HumidityInRange ==
    ASSUME NEW raw \in Int
    PROVE  Between(Sensors!MatterHum(raw), 0, 10000)
<1> DEFINE n == Sensors!Truncated(12500 * raw - 600 * 65535, 65535)
           m == IF 10000 <= n THEN 10000 ELSE n
<1>1. n \in Int
  BY DEF Sensors!Truncated
<1>2. Sensors!MatterHum(raw) = Sensors!Max({0, Sensors!Min({10000, n})})
  BY DEF Sensors!MatterHum
<1> HIDE DEF n
<1>3. Sensors!Min({10000, n}) = m
  BY <1>1 DEF Sensors!Min
<1>4. m \in Int /\ m <= 10000
  BY <1>1
<1> HIDE DEF m
<1>5. Between(Sensors!Max({0, m}), 0, 10000)
  BY <1>4 DEF Sensors!Max, Between
<1>6. Sensors!MatterHum(raw) = Sensors!Max({0, m})
  BY <1>2, <1>3
<1> QED
  BY <1>5, <1>6

(* So is every state of charge, including the more than 100 % the gauge    *)
(* can report.                                                             *)
LEMMA BatteryInRange ==
    ASSUME NEW percent \in Nat
    PROVE  Between(Sensors!BatPercentRemaining(percent), 0, 200)
<1>1. Sensors!Min({100, percent}) = IF 100 <= percent THEN 100 ELSE percent
  BY DEF Sensors!Min
<1> QED
  BY <1>1 DEF Sensors!BatPercentRemaining, Between

-----------------------------------------------------------------------------
(* The sensors: one measurement at a time *)

(* Between taking a reading and reporting its humidity, the reading is     *)
(* that of the last measurement, and its temperature is reported already   *)
(* when its humidity is next, unless an update was refused.                *)
ReadingIsMeasurement ==
    sensorPc \in {"temperature", "humidity"} =>
        reading = Sensors!ReadingOf(sample)

TemperatureIsReported ==
    sensorPc = "humidity" /\ refusals = 0 =>
        Sensors!Shows("temperature", temperature, reading.t)

(* At any other place the two attributes belong together already.          *)
AttributesBelongTogether ==
    sensorPc # "humidity" /\ refusals = 0 =>
        \/ temperature = 0 /\ humidity = 0
        \/ \E m \in Measurements :
              /\ Sensors!Shows("temperature", temperature,
                               Sensors!MatterTemp(m.t))
              /\ Sensors!Shows("humidity", humidity, Sensors!MatterHum(m.h))

SensorInv ==
    /\ Sensors!TypeOK
    /\ ReadingIsMeasurement
    /\ TemperatureIsReported
    /\ AttributesBelongTogether

LEMMA ReadingInRange ==
    ASSUME Sensors!DataAreWords, NEW m \in Measurements
    PROVE  /\ Sensors!ReadingOf(m).valid
           /\ Between(Sensors!ReadingOf(m).t, -4500, 13000)
           /\ Between(Sensors!ReadingOf(m).h, 0, 10000)
           /\ Sensors!ReadingOf(m).t = Sensors!MatterTemp(m.t)
           /\ Sensors!ReadingOf(m).h = Sensors!MatterHum(m.h)
<1>1. m.t \in Int /\ 0 <= m.t /\ m.t <= 65535 /\ m.h \in Int
  BY DEF Sensors!DataAreWords
<1>2. Between(Sensors!MatterTemp(m.t), -4500, 13000)
  BY <1>1, TemperatureInRange
<1>3. Between(Sensors!MatterHum(m.h), 0, 10000)
  BY <1>1, HumidityInRange
<1>4. /\ Sensors!ReadingOf(m).valid
      /\ Sensors!ReadingOf(m).t = Sensors!MatterTemp(m.t)
      /\ Sensors!ReadingOf(m).h = Sensors!MatterHum(m.h)
  BY DEF Sensors!ReadingOf
<1> QED
  BY <1>2, <1>3, <1>4

(* attribute::update: what it leaves an attribute at, and what it counts.  *)
LEMMA RefusalIsCounted ==
    ASSUME Sensors!TypeOK, MaxRefusals \in Nat,
           NEW name, NEW old, NEW new, NEW value,
           \/ name \notin missing /\ new = value /\ UNCHANGED refusals
           \/ name \in missing /\ new = old /\ UNCHANGED refusals
           \/ /\ refusals < MaxRefusals
              /\ refusals' = refusals + 1
              /\ new = old
    PROVE  /\ refusals' \in 0 .. MaxRefusals
           /\ refusals' = 0 => refusals = 0 /\ Sensors!Shows(name, new, value)
           /\ new \in {old, value}
  BY DEF Sensors!TypeOK, Sensors!Shows

LEMMA BusErrorIsCounted ==
    ASSUME Sensors!TypeOK, MaxBusErrors \in Nat, Sensors!BusError
    PROVE  busErrors' \in 0 .. MaxBusErrors
  BY DEF Sensors!TypeOK, Sensors!BusError

(* TypeOK in parts, so that a step need only look at those it changes.     *)
WorldIsMeasured ==
    /\ missing \subseteq {"battery", "temperature", "humidity"}
    /\ world.sht \in Measurements /\ world.soc \in Charges
    /\ sample \in Measurements

AttributesInRange ==
    /\ Between(battery, 0, 200)
    /\ Between(temperature, -4500, 13000)
    /\ Between(humidity, 0, 10000)

FaultsAreCounted ==
    busErrors \in 0 .. MaxBusErrors /\ refusals \in 0 .. MaxRefusals

Places == {"lis3dh", "max17048", "sht40", "failed", "idle", "soc",
           "command", "receive", "temperature", "humidity"}

LEMMA InInterval ==
    ASSUME NEW lo \in Int, NEW hi \in Int, NEW n
    PROVE  n \in lo .. hi <=> Between(n, lo, hi)
  BY DEF Between

LEMMA TypeInParts ==
    /\ Sensors!TypeOK <=> /\ sensorPc \in Places
                          /\ WorldIsMeasured /\ AttributesInRange
                          /\ FaultsAreCounted
    /\ Sensors!TypeOK' <=> /\ sensorPc' \in Places
                           /\ WorldIsMeasured' /\ AttributesInRange'
                           /\ FaultsAreCounted'
<1> DEFINE lowest == -4500
           zero == 0
<1>1. lowest \in Int /\ zero \in Int
  OBVIOUS
<1> HIDE DEF lowest, zero
<1>2. \A n : n \in zero .. 200 <=> Between(n, zero, 200)
  BY <1>1, InInterval
<1>3. \A n : n \in lowest .. 13000 <=> Between(n, lowest, 13000)
  BY <1>1, InInterval
<1>4. \A n : n \in zero .. 10000 <=> Between(n, zero, 10000)
  BY <1>1, InInterval
<1> DEFINE inIntervals == /\ battery \in zero .. 200
                          /\ temperature \in lowest .. 13000
                          /\ humidity \in zero .. 10000
<1>5. AttributesInRange <=> inIntervals
  <2>1. AttributesInRange <=> /\ Between(battery, zero, 200)
                             /\ Between(temperature, lowest, 13000)
                             /\ Between(humidity, zero, 10000)
    BY DEF AttributesInRange, zero, lowest
  <2> QED
    BY <1>2, <1>3, <1>4, <2>1
<1>6. AttributesInRange' <=> inIntervals'
  <2>1. AttributesInRange' <=> /\ Between(battery', zero, 200)
                              /\ Between(temperature', lowest, 13000)
                              /\ Between(humidity', zero, 10000)
    BY DEF AttributesInRange, zero, lowest
  <2> QED
    BY <1>2, <1>3, <1>4, <2>1
<1>7. Sensors!TypeOK <=> /\ sensorPc \in Places
                        /\ WorldIsMeasured /\ AttributesInRange
                        /\ FaultsAreCounted
  BY <1>5, SMTT(30)
  DEF Sensors!TypeOK, Places, WorldIsMeasured, FaultsAreCounted, zero, lowest
<1>8. Sensors!TypeOK' <=> /\ sensorPc' \in Places
                         /\ WorldIsMeasured' /\ AttributesInRange'
                         /\ FaultsAreCounted'
  BY <1>6, SMTT(30)
  DEF Sensors!TypeOK, Places, WorldIsMeasured, FaultsAreCounted, zero, lowest
<1> QED
  BY <1>7, <1>8

(* The parts a step does not touch *)
LEMMA WorldKept ==
    WorldIsMeasured /\ UNCHANGED <<missing, world, sample>> => WorldIsMeasured'
  BY DEF WorldIsMeasured

LEMMA AttributesKept ==
    AttributesInRange /\ UNCHANGED <<battery, temperature, humidity>>
      => AttributesInRange'
  BY DEF AttributesInRange

(* ... and what an update may touch of the attributes *)
LEMMA AttributesTaken ==
    ASSUME AttributesInRange,
           UNCHANGED battery \/ Between(battery', 0, 200),
           UNCHANGED temperature \/ Between(temperature', -4500, 13000),
           UNCHANGED humidity \/ Between(humidity', 0, 10000)
    PROVE  AttributesInRange'
<1>1. Between(battery', 0, 200)
  BY DEF AttributesInRange
<1>2. Between(temperature', -4500, 13000)
  BY DEF AttributesInRange
<1>3. Between(humidity', 0, 10000)
  BY DEF AttributesInRange
<1> QED
  BY <1>1, <1>2, <1>3 DEF AttributesInRange

LEMMA SensorInit ==
    ASSUME MaxBusErrors \in Nat, MaxRefusals \in Nat
    PROVE  Sensors!Init => SensorInv
<1> SUFFICES ASSUME Sensors!Init PROVE SensorInv
  OBVIOUS
<1>1. busErrors \in 0 .. MaxBusErrors /\ refusals \in 0 .. MaxRefusals
  BY DEF Sensors!Init
<1>2. /\ missing \subseteq {"battery", "temperature", "humidity"}
      /\ world.sht \in Measurements /\ world.soc \in Charges
      /\ sample \in Measurements
  BY DEF Sensors!Init
<1>3. AttributesInRange
  BY DEF Sensors!Init, AttributesInRange, Between
<1>4. sensorPc = "lis3dh" /\ temperature = 0 /\ humidity = 0
  BY DEF Sensors!Init
<1>5. Sensors!TypeOK
  BY <1>1, <1>2, <1>3, <1>4, TypeInParts
  DEF Places, WorldIsMeasured, FaultsAreCounted
<1> QED
  BY <1>4, <1>5
  DEF SensorInv, ReadingIsMeasurement, TemperatureIsReported,
      AttributesBelongTogether, Sensors!Shows

(* One update of either attribute, one receipt of a frame, one change of   *)
(* the weather.                                                            *)
LEMMA SensorNext ==
    ASSUME Sensors!CrcProtects, Sensors!DataAreWords,
           MaxBusErrors \in Nat, MaxRefusals \in Nat
    PROVE  SensorInv /\ [Sensors!Next]_(Sensors!vars) => SensorInv'
<1> SUFFICES ASSUME SensorInv, [Sensors!Next]_(Sensors!vars)
             PROVE  SensorInv'
  OBVIOUS
<1>1. /\ Sensors!TypeOK /\ ReadingIsMeasurement
      /\ TemperatureIsReported /\ AttributesBelongTogether
      /\ sensorPc \in Places /\ WorldIsMeasured /\ AttributesInRange
      /\ FaultsAreCounted
  BY TypeInParts DEF SensorInv
<1>2. ASSUME UNCHANGED <<missing, world, sample, reading, battery, temperature,
                         humidity, refusals>>,
             busErrors' \in 0 .. MaxBusErrors,
             \/ UNCHANGED sensorPc
             \/ /\ sensorPc # "humidity"
                /\ sensorPc' \in {"max17048", "sht40", "failed", "idle",
                                  "soc", "command", "receive"}
      PROVE  SensorInv'
  <2>1. sensorPc' \in Places
    BY <1>1, <1>2 DEF Places
  <2>2. WorldIsMeasured' /\ AttributesInRange'
    BY <1>1, <1>2, WorldKept, AttributesKept
  <2>3. FaultsAreCounted'
    BY <1>1, <1>2 DEF FaultsAreCounted
  <2>4. Sensors!TypeOK'
    BY <2>1, <2>2, <2>3, TypeInParts
  <2>5. ReadingIsMeasurement'
    BY <1>1, <1>2 DEF ReadingIsMeasurement
  <2>6. TemperatureIsReported' /\ AttributesBelongTogether'
    BY <1>1, <1>2
    DEF TemperatureIsReported, AttributesBelongTogether, Sensors!Shows
  <2> QED
    BY <2>4, <2>5, <2>6 DEF SensorInv
<1>3. CASE \/ Sensors!InitLis3dh \/ Sensors!InitMax17048
           \/ Sensors!InitSht40 \/ Sensors!BeginReport
  <2>1. /\ UNCHANGED <<missing, world, sample, reading, battery, temperature,
                       humidity, refusals, busErrors>>
        /\ sensorPc # "humidity"
        /\ sensorPc' \in {"max17048", "sht40", "idle", "soc"}
    BY <1>3
    DEF Sensors!InitLis3dh, Sensors!InitMax17048, Sensors!InitSht40,
        Sensors!BeginReport, Sensors!Goto, Sensors!attributes, Sensors!faults
  <2> QED
    BY <1>1, <1>2, <2>1 DEF Sensors!TypeOK
<1>4. CASE Sensors!InitFails \/ Sensors!ReadSocFails \/ Sensors!TransferFails
  <2>1. /\ UNCHANGED <<missing, world, sample, reading, battery, temperature,
                       humidity, refusals>>
        /\ sensorPc # "humidity"
        /\ sensorPc' \in {"failed", "command", "idle"}
        /\ Sensors!BusError
    BY <1>4
    DEF Sensors!InitFails, Sensors!ReadSocFails, Sensors!TransferFails,
        Sensors!Goto, Sensors!attributes
  <2>2. busErrors' \in 0 .. MaxBusErrors
    BY <1>1, <2>1, BusErrorIsCounted
  <2> QED
    BY <1>2, <2>1, <2>2
<1>5. CASE Sensors!UpdateBattery
  <2> DEFINE percent == Sensors!BatPercentRemaining(world.soc)
  <2>1. /\ sensorPc = "soc" /\ sensorPc' = "command"
        /\ Sensors!Update("battery", battery, percent)
        /\ UNCHANGED <<missing, world, sample, reading, temperature, humidity,
                       busErrors>>
    BY <1>5 DEF Sensors!UpdateBattery, Sensors!Goto
  <2>2. Between(percent, 0, 200)
    <3>1. world.soc \in Nat
      BY <1>1 DEF WorldIsMeasured, Sensors!DataAreWords
    <3> QED
      BY <3>1, BatteryInRange
  <2> HIDE DEF percent
  <2>3. /\ refusals' \in 0 .. MaxRefusals
        /\ refusals' = 0 => refusals = 0
        /\ battery' \in {battery, percent}
    BY <1>1, <2>1, RefusalIsCounted DEF Sensors!Update
  <2>4. Sensors!TypeOK'
    <3>1. UNCHANGED battery \/ Between(battery', 0, 200)
      BY <2>2, <2>3
    <3>2. WorldIsMeasured'
      BY <1>1, <2>1, WorldKept
    <3>3. AttributesInRange'
      BY <1>1, <2>1, <3>1, AttributesTaken
    <3>4. sensorPc' \in Places /\ FaultsAreCounted'
      BY <1>1, <2>1, <2>3 DEF Places, FaultsAreCounted
    <3> QED
      BY <3>2, <3>3, <3>4, TypeInParts
  <2> QED
    BY <1>1, <2>1, <2>3, <2>4
    DEF SensorInv, ReadingIsMeasurement, TemperatureIsReported,
        AttributesBelongTogether, Sensors!Shows
<1>6. CASE Sensors!Command
  <2>1. /\ sensorPc = "command" /\ sensorPc' = "receive"
        /\ sample' \in Measurements
        /\ UNCHANGED <<missing, world, reading, battery, temperature, humidity,
                       busErrors, refusals>>
    BY <1>1, <1>6
    DEF Sensors!Command, Sensors!Goto, Sensors!TypeOK, Sensors!attributes,
        Sensors!faults
  <2>2. WorldIsMeasured' /\ AttributesInRange'
    BY <1>1, <2>1, AttributesKept DEF WorldIsMeasured
  <2>3. sensorPc' \in Places /\ FaultsAreCounted'
    BY <1>1, <2>1 DEF Places, FaultsAreCounted
  <2>4. Sensors!TypeOK'
    BY <2>2, <2>3, TypeInParts
  <2> QED
    BY <1>1, <2>1, <2>4
    DEF SensorInv, ReadingIsMeasurement, TemperatureIsReported,
        AttributesBelongTogether, Sensors!Shows
<1>7. CASE Sensors!Receive \/ Sensors!ReceiveDisturbed
  <2>1. sample \in Measurements
    BY <1>1 DEF Sensors!TypeOK
  <2>2. PICK result \in {Sensors!Rejected, Sensors!ReadingOf(sample)} :
           Sensors!Take(result)
    BY <1>7, <2>1
    DEF Sensors!Receive, Sensors!ReceiveDisturbed, Sensors!CrcProtects
  <2>3. busErrors' \in 0 .. MaxBusErrors
    <3>1. UNCHANGED busErrors \/ Sensors!BusError
      BY <1>7 DEF Sensors!Receive, Sensors!ReceiveDisturbed
    <3> QED
      BY <1>1, <3>1, BusErrorIsCounted DEF FaultsAreCounted
  <2>4. /\ sensorPc = "receive" /\ reading' = result
        /\ sensorPc' = IF result.valid THEN "temperature" ELSE "idle"
        /\ UNCHANGED <<missing, world, sample, battery, temperature, humidity,
                       refusals>>
    BY <2>2 DEF Sensors!Take, Sensors!attributes
  <2>5. sensorPc' \in {"temperature", "idle"}
    BY <2>4
  <2>6. sensorPc' = "temperature" => reading' = Sensors!ReadingOf(sample)
    BY <2>2, <2>4 DEF Sensors!Rejected
  <2>7. ReadingIsMeasurement'
    BY <2>4, <2>5, <2>6 DEF ReadingIsMeasurement
  <2>8. Sensors!TypeOK'
    <3>1. WorldIsMeasured' /\ AttributesInRange'
      BY <1>1, <2>4, WorldKept, AttributesKept
    <3>2. sensorPc' \in Places /\ FaultsAreCounted'
      BY <1>1, <2>3, <2>4, <2>5 DEF Places, FaultsAreCounted
    <3> QED
      BY <3>1, <3>2, TypeInParts
  <2> QED
    BY <1>1, <2>4, <2>5, <2>7, <2>8
    DEF SensorInv, TemperatureIsReported, AttributesBelongTogether,
        Sensors!Shows
<1>8. CASE Sensors!UpdateTemperature
  <2>1. /\ sensorPc = "temperature" /\ sensorPc' = "humidity"
        /\ Sensors!Update("temperature", temperature, reading.t)
        /\ UNCHANGED <<missing, world, sample, reading, battery, humidity,
                       busErrors>>
    BY <1>8 DEF Sensors!UpdateTemperature, Sensors!Goto
  <2>2. PICK m \in Measurements : reading = Sensors!ReadingOf(m)
    BY <1>1, <2>1 DEF ReadingIsMeasurement, WorldIsMeasured
  <2>3. Between(reading.t, -4500, 13000)
    BY <2>2, ReadingInRange
  <2>4. /\ refusals' \in 0 .. MaxRefusals
        /\ refusals' = 0 =>
              Sensors!Shows("temperature", temperature', reading.t)
        /\ temperature' \in {temperature, reading.t}
    BY <1>1, <2>1, RefusalIsCounted DEF Sensors!Update
  <2>5. Sensors!TypeOK'
    <3>1. UNCHANGED temperature \/ Between(temperature', -4500, 13000)
      BY <2>3, <2>4
    <3>2. WorldIsMeasured'
      BY <1>1, <2>1, WorldKept
    <3>3. AttributesInRange'
      BY <1>1, <2>1, <3>1, AttributesTaken
    <3>4. sensorPc' \in Places /\ FaultsAreCounted'
      BY <1>1, <2>1, <2>4 DEF Places, FaultsAreCounted
    <3> QED
      BY <3>2, <3>3, <3>4, TypeInParts
  <2>6. ReadingIsMeasurement'
    BY <1>1, <2>1 DEF ReadingIsMeasurement
  <2> QED
    BY <2>1, <2>4, <2>5, <2>6
    DEF SensorInv, TemperatureIsReported, AttributesBelongTogether,
        Sensors!Shows
<1>9. CASE Sensors!UpdateHumidity
  <2>1. /\ sensorPc = "humidity" /\ sensorPc' = "idle"
        /\ Sensors!Update("humidity", humidity, reading.h)
        /\ UNCHANGED <<missing, world, sample, reading, battery, temperature,
                       busErrors>>
    BY <1>9 DEF Sensors!UpdateHumidity, Sensors!Goto
  <2>2. PICK m \in Measurements : reading = Sensors!ReadingOf(m)
    BY <1>1, <2>1 DEF ReadingIsMeasurement, WorldIsMeasured
  <2>3. /\ reading.t = Sensors!MatterTemp(m.t)
        /\ reading.h = Sensors!MatterHum(m.h)
        /\ Between(reading.h, 0, 10000)
    BY <2>2, ReadingInRange
  <2>4. /\ refusals' \in 0 .. MaxRefusals
        /\ refusals' = 0 =>
              refusals = 0 /\ Sensors!Shows("humidity", humidity', reading.h)
        /\ humidity' \in {humidity, reading.h}
    BY <1>1, <2>1, RefusalIsCounted DEF Sensors!Update
  <2>5. Sensors!TypeOK'
    <3>1. UNCHANGED humidity \/ Between(humidity', 0, 10000)
      BY <2>3, <2>4
    <3>2. WorldIsMeasured'
      BY <1>1, <2>1, WorldKept
    <3>3. AttributesInRange'
      BY <1>1, <2>1, <3>1, AttributesTaken
    <3>4. sensorPc' \in Places /\ FaultsAreCounted'
      BY <1>1, <2>1, <2>4 DEF Places, FaultsAreCounted
    <3> QED
      BY <3>2, <3>3, <3>4, TypeInParts
  <2>6. refusals' = 0 =>
           /\ Sensors!Shows("temperature", temperature',
                            Sensors!MatterTemp(m.t))
           /\ Sensors!Shows("humidity", humidity', Sensors!MatterHum(m.h))
    BY <1>1, <2>1, <2>3, <2>4 DEF TemperatureIsReported
  <2>7. AttributesBelongTogether'
    BY <2>1, <2>6 DEF AttributesBelongTogether, Sensors!Shows
  <2> QED
    BY <2>1, <2>5, <2>7
    DEF SensorInv, ReadingIsMeasurement, TemperatureIsReported
<1>10. CASE Sensors!Change
  <2>1. /\ world' \in [sht : Measurements, soc : Charges]
        /\ UNCHANGED <<sensorPc, missing, sample, reading, battery, temperature,
                       humidity, busErrors, refusals>>
    BY <1>10 DEF Sensors!Change, Sensors!attributes, Sensors!faults
  <2>2. Sensors!TypeOK'
    <3>1. WorldIsMeasured' /\ AttributesInRange'
      BY <1>1, <2>1, AttributesKept DEF WorldIsMeasured
    <3>2. sensorPc' \in Places /\ FaultsAreCounted'
      BY <1>1, <2>1 DEF FaultsAreCounted
    <3> QED
      BY <3>1, <3>2, TypeInParts
  <2> QED
    BY <1>1, <2>1, <2>2
    DEF SensorInv, ReadingIsMeasurement, TemperatureIsReported,
        AttributesBelongTogether, Sensors!Shows
<1>11. CASE UNCHANGED Sensors!vars
  <2>1. UNCHANGED <<sensorPc, missing, world, sample, reading, battery,
                    temperature, humidity, busErrors, refusals>>
    BY <1>11 DEF Sensors!vars, Sensors!attributes, Sensors!faults
  <2> QED
    BY <1>1, <1>2, <2>1 DEF Sensors!TypeOK
<1> QED
  BY <1>3, <1>4, <1>5, <1>6, <1>7, <1>8, <1>9, <1>10, <1>11
  DEF Sensors!Next, Sensors!Step

LEMMA SensorInvHolds ==
    ASSUME Sensors!CrcProtects, Sensors!DataAreWords,
           MaxBusErrors \in Nat, MaxRefusals \in Nat
    PROVE  Sensors!Spec => []SensorInv
  BY SensorInit, SensorNext, PTL DEF Sensors!Spec

(* Battery and humidity keep the ranges app_main declares for them, and    *)
(* the temperature that of the SHT40's formula, which is wider, for every  *)
(* word and byte the sensors can send.                                     *)
THEOREM SensorTypeCorrect ==
    ASSUME Sensors!CrcProtects, Sensors!DataAreWords,
           MaxBusErrors \in Nat, MaxRefusals \in Nat
    PROVE  Sensors!Spec => []Sensors!TypeOK
  BY SensorInvHolds, PTL DEF SensorInv

(* A reading in use is the last measurement's, and temperature and         *)
(* humidity are of one measurement between reports, whatever transfers     *)
(* fail or are disturbed, as long as the CRC detects the disturbance and   *)
(* no update is refused; an attribute that was not created aside.          *)
THEOREM ReadingsAreOfOneMeasurement ==
    ASSUME Sensors!CrcProtects, Sensors!DataAreWords,
           MaxBusErrors \in Nat, MaxRefusals \in Nat
    PROVE  Sensors!Spec => []Sensors!ReadingsBelongTogether
<1>1. SensorInv => Sensors!ReadingsBelongTogether
  BY DEF SensorInv, ReadingIsMeasurement, AttributesBelongTogether,
         Sensors!ReadingsBelongTogether
<1> QED
  BY <1>1, SensorInvHolds, PTL
=============================================================================
