------------------------ MODULE FreezerSensor_proofs ------------------------
(***************************************************************************)
(* Theorems about FreezerSensor, for every set of temperatures, number of  *)
(* RMT channels and number of faults.                                      *)
(***************************************************************************)
EXTENDS FreezerSensor, TLAPS

(* The NVS handle is only open, and the buffer only allocated, where       *)
(* provision_thread_from_nvs has still to release it.                      *)
ReleaseIsAhead ==
    /\ nvsOpen => pc \in {"length", "alloc", "blob"}
    /\ tlv => pc \in {"blob", "provision", "enable"}

(* What the task is about to report came from the sensor's register.       *)
ReadingIsTheSensors == pc = "update" => celsius \in Temps \cup {PowerOnValue}

(* init_sensor is only entered, and only goes on, without a sensor.        *)
InitOnlyOnce == pc \in {"bus", "iterate", "search", "device"} => ~ sensor

Inv ==
    /\ TypeOK
    /\ ReleaseIsAhead
    /\ ReadingIsTheSensors
    /\ NeverMadeUp
    /\ InitOnlyOnce

(* ds18b20_reader.h: "Subsequent calls reuse the existing handle (no RMT   *)
(* channel re-allocation)".                                                *)
HandleIsReused == [][sensor => sensor' /\ UNCHANGED buses]_vars

LEMMA Parameters ==
    /\ Temps \subseteq Int /\ NoReading \notin Temps
    /\ RmtChannels \in Nat \ {0} /\ MaxFaults \in Nat
    /\ MaxIdentifies \in Nat /\ MaxThreadEvents \in Nat \ {0}
    /\ PowerOnValue \in Int
<1>1. -5500 .. 12500 \subseteq Int
  OBVIOUS
<1>2. PowerOnValue \in Int
  BY SMT DEF PowerOnValue
<1> QED
  BY <1>1, <1>2, FreezerSensorAssumption

LEMMA FaultIsCounted ==
    ASSUME TypeOK, Fault \/ UNCHANGED faults
    PROVE  faults' \in 0 .. MaxFaults
  BY Parameters DEF TypeOK, Fault

LEMMA InitInv == Init => Inv
<1> SUFFICES ASSUME Init PROVE Inv
  OBVIOUS
<1>1. TypeOK
  <2>1. /\ buses \in 0 .. RmtChannels /\ identifies \in 0 .. MaxIdentifies
        /\ threadEvents \in 0 .. MaxThreadEvents /\ faults \in 0 .. MaxFaults
        /\ blinks \in 0 .. 6 /\ attribute \in Int
        /\ scratchpad = PowerOnValue /\ celsius = NoReading
    BY Parameters DEF Init, InitialValue
  <2>2. /\ pc = "create" /\ led = "WHITE"
        /\ nvsOpen = FALSE /\ tlv = FALSE /\ provisioned = FALSE
        /\ sensor = FALSE /\ chipUp = FALSE
        /\ attached = FALSE /\ stale = TRUE
        /\ answers \in BOOLEAN /\ temp \in Temps
    BY DEF Init
  <2> QED
    BY <2>1, <2>2 DEF TypeOK
<1> QED
  BY <1>1 DEF Init, Inv, ReleaseIsAhead, ReadingIsTheSensors, NeverMadeUp,
              InitOnlyOnce

LEMMA NextInv == Inv /\ [Next]_vars => Inv'
<1> SUFFICES ASSUME Inv, [Next]_vars PROVE Inv'
  OBVIOUS
<1> USE Parameters DEF Inv, TypeOK, ReleaseIsAhead, ReadingIsTheSensors,
                       NeverMadeUp, InitOnlyOnce, Goto
<1>1. CASE CreateNode
  BY <1>1 DEF CreateNode, nvsVars, readerVars, identifyVars, threadVars,
              worldVars
<1>2. CASE StartMatter
  BY <1>2 DEF StartMatter, nvsVars, readerVars, identifyVars, threadVars,
              worldVars
<1>3. CASE StartFails
  BY <1>3 DEF StartFails, Fault, nvsVars, readerVars, identifyVars,
              threadVars, worldVars
<1>4. CASE \/ OpenNvs \/ GetLength \/ Allocate \/ GetBlob
           \/ SetThreadProvision \/ SetThreadEnabled
  <2>1. UNCHANGED unprovisionVars
    BY <1>4 DEF OpenNvs, GetLength, Allocate, GetBlob, SetThreadProvision,
                SetThreadEnabled
  <2>2. faults' \in 0 .. MaxFaults
    BY <1>4, FaultIsCounted
    DEF OpenNvs, GetLength, Allocate, GetBlob, SetThreadProvision,
        SetThreadEnabled
  <2>3. /\ pc' \in {"length", "alloc", "blob", "provision", "enable",
                    "announce"}
        /\ nvsOpen' \in BOOLEAN /\ tlv' \in BOOLEAN
        /\ provisioned' \in BOOLEAN
    BY <1>4
    DEF OpenNvs, GetLength, Allocate, GetBlob, SetThreadProvision,
        SetThreadEnabled, unprovisionVars
  <2>4. ReleaseIsAhead'
    BY <1>4
    DEF OpenNvs, GetLength, Allocate, GetBlob, SetThreadProvision,
        SetThreadEnabled, unprovisionVars, nvsVars
  <2> QED
    BY <2>1, <2>2, <2>3, <2>4
    DEF unprovisionVars, readerVars, identifyVars, threadVars, worldVars
<1>5. CASE Announce
  BY <1>5 DEF Announce, nvsVars, readerVars, identifyVars, threadVars,
               worldVars
<1>6. CASE BeginRead
  BY <1>6 DEF BeginRead, unreadVars, nvsVars, identifyVars, threadVars,
               worldVars, readerVars, Fault
<1>7. CASE NewBus
  BY <1>7 DEF NewBus, unreadVars, nvsVars, identifyVars, threadVars,
               worldVars, readerVars, Fault
<1>8. CASE NewIterator
  BY <1>8 DEF NewIterator, unreadVars, nvsVars, identifyVars, threadVars,
               worldVars, readerVars, Fault
<1>9. CASE SearchDevice
  BY <1>9 DEF SearchDevice, unreadVars, nvsVars, identifyVars, threadVars,
               worldVars, readerVars, Fault
<1>10. CASE NewDevice
  <2>1. UNCHANGED <<led, buses, scratchpad, celsius, unreadVars>>
    BY <1>10 DEF NewDevice
  <2>2. /\ faults' \in 0 .. MaxFaults /\ sensor' \in BOOLEAN
        /\ pc' \in {"convert", "readFailed"}
    BY <1>10, FaultIsCounted DEF NewDevice
  <2>3. pc = "device"
    BY <1>10 DEF NewDevice
  <2> QED
    BY <2>1, <2>2, <2>3
    DEF unreadVars, nvsVars, identifyVars, threadVars, worldVars
<1>11. CASE Convert
  BY <1>11 DEF Convert, unreadVars, nvsVars, identifyVars, threadVars,
               worldVars, readerVars, Fault
<1>12. CASE GetTemperature
  BY <1>12 DEF GetTemperature, unreadVars, nvsVars, identifyVars,
               threadVars, worldVars, readerVars, Fault
<1>13. CASE ReadFailed
  BY <1>13 DEF ReadFailed, unreadVars, nvsVars, identifyVars, threadVars,
               worldVars, readerVars, Fault
<1>14. CASE Delay
  BY <1>14 DEF Delay, unreadVars, nvsVars, identifyVars, threadVars,
               worldVars, readerVars, Fault
<1>15. CASE Update
  BY <1>15 DEF Update, nvsVars, readerVars, identifyVars, threadVars,
               worldVars, Fault
<1>16. CASE FabricEvent
  BY <1>16 DEF FabricEvent, ChipIdle, BlinkSteps, unchipVars, nvsVars,
               readerVars, worldVars, identifyVars, threadVars
<1>17. CASE Identify
  BY <1>17 DEF Identify, ChipIdle, BlinkSteps, unchipVars, nvsVars,
               readerVars, worldVars, identifyVars, threadVars
<1>18. CASE Blink
  BY <1>18 DEF Blink, ChipIdle, BlinkSteps, unchipVars, nvsVars, readerVars,
               worldVars, identifyVars, threadVars
<1>19. CASE ThreadStateChange
  BY <1>19 DEF ThreadStateChange, ChipIdle, BlinkSteps, unchipVars, nvsVars,
               readerVars, worldVars, identifyVars, threadVars
<1>20. CASE ChangeAddress
  BY <1>20 DEF ChangeAddress, ChipIdle, BlinkSteps, unchipVars, nvsVars,
               readerVars, worldVars, identifyVars, threadVars
<1>21. CASE World
  <2>1. /\ answers' \in BOOLEAN /\ temp' \in Temps
        /\ scratchpad' \in {scratchpad, PowerOnValue}
    BY <1>21 DEF World
  <2>2. UNCHANGED <<pc, led, nvsVars, sensor, buses, celsius, attribute,
                    chipUp, identifyVars, threadVars, faults>>
    BY <1>21 DEF World
  <2> QED
    BY <2>1, <2>2 DEF nvsVars, readerVars, identifyVars, threadVars
<1>22. CASE UNCHANGED vars
  BY <1>22 DEF vars, nvsVars, readerVars, identifyVars, threadVars,
               worldVars
<1> QED
  BY <1>1, <1>2, <1>3, <1>4, <1>5, <1>6, <1>7, <1>8, <1>9, <1>10, <1>11,
     <1>12, <1>13, <1>14, <1>15, <1>16, <1>17, <1>18, <1>19, <1>20, <1>21,
     <1>22
  DEF Next, App, Chip

LEMMA InvHolds == Spec => []Inv
  BY InitInv, NextInv, PTL DEF Spec

-----------------------------------------------------------------------------
(* Every variable stays in its type; in particular init_sensor creates no  *)
(* more buses than the RMT peripheral has channels.                        *)
THEOREM TypeCorrect == Spec => []TypeOK
  BY InvHolds, PTL DEF Inv

(* On every path through provision_thread_from_nvs the NVS handle is       *)
(* closed and the buffer freed before temp_report_task runs.               *)
THEOREM ProvisioningIsClean == Spec => []ProvisioningReleases
<1>1. Inv => ProvisioningReleases
  BY DEF Inv, TypeOK, ReleaseIsAhead, ProvisioningReleases
<1> QED
  BY <1>1, InvHolds, PTL

(* Only what the sensor gave for its temperature gets into the Matter      *)
(* attribute: a measurement, or its power-on value.                        *)
THEOREM AttributeIsMeasured == Spec => []NeverMadeUp
  BY InvHolds, PTL DEF Inv

(* Once the reader has a sensor handle it keeps it and takes no further    *)
(* bus, whatever reads fail afterwards.                                    *)
THEOREM SensorIsReused == Spec => HandleIsReused
<1>1. Inv /\ [Next]_vars => [sensor => sensor' /\ UNCHANGED buses]_vars
  <2> SUFFICES ASSUME Inv, Next, sensor
               PROVE  sensor' /\ UNCHANGED buses
    BY DEF vars, readerVars
  <2>1. ~ NewBus /\ ~ NewDevice
    BY DEF Inv, InitOnlyOnce, NewBus, NewDevice
  <2>2. UNCHANGED <<sensor, buses>>
    BY <2>1
    DEF Next, App, Chip, CreateNode, StartMatter, StartFails, OpenNvs,
        GetLength, Allocate, GetBlob, SetThreadProvision, SetThreadEnabled,
        Announce, BeginRead, NewIterator, SearchDevice, Convert,
        GetTemperature, ReadFailed, Update, Delay, FabricEvent, Identify,
        Blink, ThreadStateChange, ChangeAddress, World, unprovisionVars,
        unreadVars, unchipVars, readerVars
  <2> QED
    BY <2>2
<1> QED
  BY <1>1, InvHolds, PTL DEF Spec, HandleIsReused

-----------------------------------------------------------------------------
(* Before a sensor is found nothing is read or written.                    *)
UnreadIsUnwritten ==
    ~ sensor => /\ pc \notin {"convert", "get", "update"}
                /\ attribute = InitialValue

(* init_sensor has failed once for every RMT channel, and each failure     *)
(* left its bus behind.                                                    *)
Blind ==
    /\ ~ sensor /\ buses = RmtChannels
    /\ pc \in {"readFailed", "delay", "read", "bus"}

(* The steps that have nothing to do with the sensor.                      *)
LEMMA ElsewhereIsElsewhere ==
    ASSUME \/ CreateNode \/ StartMatter \/ StartFails
           \/ OpenNvs \/ GetLength \/ Allocate \/ GetBlob
           \/ SetThreadProvision \/ SetThreadEnabled \/ Announce
           \/ Chip \/ ChangeAddress \/ World \/ UNCHANGED vars
    PROVE  /\ UNCHANGED <<sensor, buses, attribute>>
           /\ \/ UNCHANGED pc
              \/ /\ pc \in {"create", "start", "open", "length", "alloc",
                            "blob", "provision", "enable", "announce"}
                 /\ pc' \in {"start", "failed", "open", "length", "alloc",
                             "blob", "provision", "enable", "announce",
                             "read"}
<1> USE DEF readerVars
<1>1. CASE CreateNode \/ StartMatter \/ StartFails \/ Announce
  BY <1>1 DEF CreateNode, StartMatter, StartFails, Announce, Goto
<1>2. CASE \/ OpenNvs \/ GetLength \/ Allocate \/ GetBlob
           \/ SetThreadProvision \/ SetThreadEnabled
  BY <1>2 DEF OpenNvs, GetLength, Allocate, GetBlob, SetThreadProvision,
              SetThreadEnabled, Goto, unprovisionVars
<1>3. CASE Chip \/ ChangeAddress \/ World \/ UNCHANGED vars
  BY <1>3 DEF Chip, FabricEvent, Identify, Blink, ThreadStateChange,
              ChangeAddress, World, unchipVars, vars
<1> QED
  BY <1>1, <1>2, <1>3

LEMMA UnreadNext ==
    UnreadIsUnwritten /\ [Next]_vars => UnreadIsUnwritten'
<1> SUFFICES ASSUME UnreadIsUnwritten, [Next]_vars, ~ sensor'
             PROVE  /\ pc' \notin {"convert", "get", "update"}
                    /\ attribute' = InitialValue
  BY DEF UnreadIsUnwritten
<1> USE DEF UnreadIsUnwritten, readerVars, unreadVars
<1>1. CASE \/ BeginRead \/ NewBus \/ NewIterator \/ SearchDevice \/ NewDevice
  BY <1>1 DEF BeginRead, NewBus, NewIterator, SearchDevice, NewDevice
<1>2. CASE Convert \/ GetTemperature \/ ReadFailed \/ Update \/ Delay
  BY <1>2 DEF Convert, GetTemperature, ReadFailed, Update, Delay, Goto
<1>3. CASE ~ (\/ BeginRead \/ NewBus \/ NewIterator \/ SearchDevice
              \/ NewDevice \/ Convert \/ GetTemperature \/ ReadFailed
              \/ Update \/ Delay)
  <2>1. /\ UNCHANGED <<sensor, attribute>>
        /\ UNCHANGED pc \/ pc' \notin {"convert", "get", "update"}
    BY <1>3, ElsewhereIsElsewhere DEF Next, App
  <2> QED
    BY <2>1
<1> QED
  BY <1>1, <1>2, <1>3

(* Neither a turn of the task nor anything around it gives a bus back.     *)
LEMMA BlindNext == Blind /\ [Next]_vars => Blind'
<1> SUFFICES ASSUME Blind, [Next]_vars PROVE Blind'
  OBVIOUS
<1> USE DEF Blind, readerVars
<1>1. CASE \/ BeginRead \/ NewBus \/ NewIterator \/ SearchDevice \/ NewDevice
  <2>1. NewBus => buses = RmtChannels /\ pc' = "readFailed"
    BY FreezerSensorAssumption DEF NewBus
  <2> QED
    BY <1>1, <2>1 DEF BeginRead, NewBus, NewIterator, SearchDevice, NewDevice
<1>2. CASE Convert \/ GetTemperature \/ ReadFailed \/ Update \/ Delay
  BY <1>2 DEF Convert, GetTemperature, ReadFailed, Update, Delay, Goto
<1>3. CASE ~ (\/ BeginRead \/ NewBus \/ NewIterator \/ SearchDevice
              \/ NewDevice \/ Convert \/ GetTemperature \/ ReadFailed
              \/ Update \/ Delay)
  <2>1. UNCHANGED <<sensor, buses, pc>>
    BY <1>3, ElsewhereIsElsewhere DEF Next, App
  <2> QED
    BY <2>1
<1> QED
  BY <1>1, <1>2, <1>3

(* Once every channel went to a failed init_sensor, the attribute keeps    *)
(* its initial value for ever, whatever answers afterwards: the retry that *)
(* main.cpp:174 announces cannot succeed, for any number of channels.      *)
THEOREM ExhaustedStaysBlind ==
    Spec => [](Blind => [](Blind /\ attribute = InitialValue))
<1>1. Init => UnreadIsUnwritten
  BY DEF Init, UnreadIsUnwritten
<1>2. Blind /\ UnreadIsUnwritten => attribute = InitialValue
  BY DEF Blind, UnreadIsUnwritten
<1> QED
  BY <1>1, <1>2, UnreadNext, BlindNext, PTL DEF Spec
=============================================================================
