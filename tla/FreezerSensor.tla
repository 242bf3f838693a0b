--------------------------- MODULE FreezerSensor ---------------------------
(***************************************************************************)
(* devices/freezer-temp-sensor/main: app_main starts Matter and provisions *)
(* Thread from NVS, then temp_report_task reads the DS18B20 (ds18b20_-     *)
(* reader.c) and writes the Matter attribute once a minute.  The CHIP task *)
(* runs the callbacks beside it; both write the debug LED.  The sensor,    *)
(* the RMT channels a 1-Wire bus takes and the Thread stack are external.  *)
(***************************************************************************)
EXTENDS Integers

CONSTANTS
    Temps,           \* temperatures that occur, in 0.01 C
    RmtChannels,     \* the 1-Wire buses the RMT peripheral has room for
    MaxFaults,       \* bound: allocations, NVS reads and updates that fail
    MaxIdentifies,   \* bound: Identify commands received
    MaxThreadEvents  \* bound: address changes waiting for the CHIP task

(* measured_value as the endpoint is created, and celsius before a read *)
InitialValue == -1800
NoReading == 0

(* The DS18B20's temperature register after power-on, 85 C *)
PowerOnValue == 8500

ASSUME FreezerSensorAssumption ==
    /\ Temps \subseteq -5500 .. 12500 /\ NoReading \notin Temps
    /\ RmtChannels \in Nat \ {0}
    /\ MaxFaults \in Nat
    /\ MaxIdentifies \in Nat
    /\ MaxThreadEvents \in Nat \ {0}

VARIABLES
    pc,            \* where app_main, and then temp_report_task, is
    led,           \* the debug LED
    nvsOpen,       \* the NVS handle of provision_thread_from_nvs is open
    tlv,           \* its buffer is allocated
    provisioned,   \* s_thread_provisioned
    sensor,        \* s_sensor is set
    buses,         \* 1-Wire buses created and never deleted
    scratchpad,    \* the sensor's temperature register
    celsius,       \* the local celsius of this turn
    attribute,     \* TemperatureMeasurement.MeasuredValue
    chipUp,        \* the CHIP task runs
    blinks,        \* LED changes left in the identification callback
    identifies,    \* Identify commands received
    attached,      \* the device is attached to the Thread network
    threadEvents,  \* kThreadStateChange events with AddressChanged, queued
    stale,         \* DNS-SD does not advertise the current addresses
    answers,       \* the sensor is there and answers
    temp,          \* the temperature of the freezer
    faults         \* faults so far

nvsVars == <<nvsOpen, tlv, provisioned>>
readerVars == <<sensor, buses, scratchpad>>
identifyVars == <<blinks, identifies>>
threadVars == <<attached, threadEvents, stale>>
worldVars == <<answers, temp>>
vars == <<pc, led, nvsVars, readerVars, celsius, attribute, chipUp,
          identifyVars, threadVars, worldVars, faults>>

Goto(from, to) == pc = from /\ pc' = to

Fault == faults < MaxFaults /\ faults' = faults + 1

Init ==
    /\ pc = "create" /\ led = "WHITE"
    /\ nvsOpen = FALSE /\ tlv = FALSE /\ provisioned = FALSE
    /\ sensor = FALSE /\ buses = 0 /\ scratchpad = PowerOnValue
    /\ celsius = NoReading /\ attribute = InitialValue
    /\ chipUp = FALSE /\ blinks = 0 /\ identifies = 0
    /\ attached = FALSE /\ threadEvents = 0 /\ stale = TRUE
    /\ answers \in BOOLEAN /\ temp \in Temps
    /\ faults = 0

-----------------------------------------------------------------------------
(* app_main *)

CreateNode ==
    /\ Goto("create", "start")
    /\ led' = "BLUE"
    /\ UNCHANGED <<nvsVars, readerVars, celsius, attribute, chipUp,
                   identifyVars, threadVars, worldVars, faults>>

StartMatter ==
    /\ Goto("start", "open")
    /\ chipUp' = TRUE
    /\ UNCHANGED <<led, nvsVars, readerVars, celsius, attribute, identifyVars,
                   threadVars, worldVars, faults>>

(* Node, endpoint or stack cannot be had: red, and app_main returns. *)
StartFails ==
    /\ pc \in {"create", "start"} /\ Fault
    /\ pc' = "failed"
    /\ led' = "RED"
    /\ UNCHANGED <<nvsVars, readerVars, celsius, attribute, chipUp,
                   identifyVars, threadVars, worldVars>>

-----------------------------------------------------------------------------
(* provision_thread_from_nvs *)

unprovisionVars == <<led, readerVars, celsius, attribute, chipUp,
                     identifyVars, threadVars, worldVars>>

(* The namespace is there only after flash.py --thread. *)
OpenNvs ==
    /\ pc = "open"
    /\ \/ pc' = "length" /\ nvsOpen' = TRUE
       \/ pc' = "announce" /\ UNCHANGED nvsOpen
    /\ UNCHANGED <<tlv, provisioned, unprovisionVars, faults>>

GetLength ==
    /\ pc = "length"
    /\ \/ pc' = "alloc" /\ UNCHANGED nvsOpen
       \/ pc' = "announce" /\ nvsOpen' = FALSE
    /\ UNCHANGED <<tlv, provisioned, unprovisionVars, faults>>

Allocate ==
    /\ pc = "alloc"
    /\ \/ pc' = "blob" /\ tlv' = TRUE /\ UNCHANGED <<nvsOpen, faults>>
       \/ pc' = "announce" /\ nvsOpen' = FALSE /\ Fault /\ UNCHANGED tlv
    /\ UNCHANGED <<provisioned, unprovisionVars>>

(* The handle is closed whether or not the blob could be read. *)
GetBlob ==
    /\ pc = "blob"
    /\ nvsOpen' = FALSE
    /\ \/ pc' = "provision" /\ UNCHANGED <<tlv, faults>>
       \/ pc' = "announce" /\ tlv' = FALSE /\ Fault
    /\ UNCHANGED <<provisioned, unprovisionVars>>

(* A mutant: the buffer is not freed when the stack refuses the dataset. *)
SetThreadProvisionLeaks ==
    /\ pc = "provision"
    /\ \/ pc' = "enable" /\ UNCHANGED faults
       \/ pc' = "announce" /\ Fault
    /\ UNCHANGED <<nvsVars, unprovisionVars>>

SetThreadProvision ==
    /\ pc = "provision"
    /\ \/ pc' = "enable" /\ UNCHANGED <<tlv, faults>>
       \/ pc' = "announce" /\ tlv' = FALSE /\ Fault
    /\ UNCHANGED <<nvsOpen, provisioned, unprovisionVars>>

SetThreadEnabled ==
    /\ Goto("enable", "announce")
    /\ tlv' = FALSE
    /\ \/ provisioned' = TRUE /\ UNCHANGED faults
       \/ Fault /\ UNCHANGED provisioned
    /\ UNCHANGED <<nvsOpen, unprovisionVars>>

(* Amber, and temp_report_task is created. *)
Announce ==
    /\ Goto("announce", "read")
    /\ led' = "AMBER"
    /\ UNCHANGED <<nvsVars, readerVars, celsius, attribute, chipUp,
                   identifyVars, threadVars, worldVars, faults>>

-----------------------------------------------------------------------------
(* ds18b20_reader_read, in a turn of temp_report_task *)

unreadVars == <<nvsVars, attribute, chipUp, identifyVars, threadVars,
                worldVars>>

(* A mutant: every turn initializes the bus. *)
BeginReadAfresh ==
    /\ Goto("read", "bus")
    /\ led' = "BLUE"
    /\ celsius' = NoReading
    /\ UNCHANGED <<readerVars, unreadVars, faults>>

(* Blue; init_sensor only when there is no sensor handle. *)
BeginRead ==
    /\ pc = "read"
    /\ pc' = IF sensor THEN "convert" ELSE "bus"
    /\ led' = "BLUE"
    /\ celsius' = NoReading
    /\ UNCHANGED <<readerVars, unreadVars, faults>>

(* onewire_new_bus_rmt takes a channel, if one is left. *)
NewBus ==
    /\ pc = "bus"
    /\ \/ buses < RmtChannels /\ buses' = buses + 1 /\ pc' = "iterate"
       \/ buses = RmtChannels /\ pc' = "readFailed" /\ UNCHANGED buses
    /\ UNCHANGED <<led, sensor, scratchpad, celsius, unreadVars, faults>>

(* onewire_new_device_iter.  Where this or what follows fails, init_sensor *)
(* returns without deleting the bus.                                       *)
NewIterator ==
    /\ pc = "iterate"
    /\ \/ pc' = "search" /\ UNCHANGED faults
       \/ pc' = "readFailed" /\ Fault
    /\ UNCHANGED <<led, readerVars, celsius, unreadVars>>

SearchDevice ==
    /\ pc = "search"
    /\ pc' = IF answers THEN "device" ELSE "readFailed"
    /\ UNCHANGED <<led, readerVars, celsius, unreadVars, faults>>

NewDevice ==
    /\ pc = "device"
    /\ \/ pc' = "convert" /\ sensor' = TRUE /\ UNCHANGED faults
       \/ pc' = "readFailed" /\ Fault /\ UNCHANGED sensor
    /\ UNCHANGED <<led, buses, scratchpad, celsius, unreadVars>>

(* ds18b20_trigger_temperature_conversion *)
Convert ==
    /\ pc = "convert"
    /\ \/ answers /\ pc' = "get" /\ scratchpad' = temp
       \/ ~ answers /\ pc' = "readFailed" /\ UNCHANGED scratchpad
    /\ UNCHANGED <<led, sensor, buses, celsius, unreadVars, faults>>

(* ds18b20_get_temperature, 800 ms later *)
GetTemperature ==
    /\ pc = "get"
    /\ \/ answers /\ pc' = "update" /\ celsius' = scratchpad
       \/ ~ answers /\ pc' = "readFailed" /\ UNCHANGED celsius
    /\ UNCHANGED <<led, readerVars, unreadVars, faults>>

(* A mutant: the task goes on to the update. *)
ReadFailedUnnoticed ==
    /\ Goto("readFailed", "update")
    /\ UNCHANGED <<led, readerVars, celsius, unreadVars, faults>>

ReadFailed ==
    /\ Goto("readFailed", "delay")
    /\ led' = "RED"
    /\ UNCHANGED <<readerVars, celsius, unreadVars, faults>>

(* attribute::update waits for the CHIP stack lock. *)
Update ==
    /\ Goto("update", "delay")
    /\ blinks = 0
    /\ \/ attribute' = celsius /\ led' = "GREEN" /\ UNCHANGED faults
       \/ led' = "RED" /\ Fault /\ UNCHANGED attribute
    /\ UNCHANGED <<nvsVars, readerVars, celsius, chipUp, identifyVars,
                   threadVars, worldVars>>

(* A minute passes. *)
Delay ==
    /\ Goto("delay", "read")
    /\ UNCHANGED <<led, readerVars, celsius, unreadVars, faults>>

-----------------------------------------------------------------------------
(* The CHIP task *)

unchipVars == <<pc, nvsVars, readerVars, celsius, attribute, chipUp,
                worldVars, faults>>

ChipIdle == chipUp /\ blinks = 0

(* kCommissioningComplete shows green, kFabricRemoved amber. *)
FabricEvent ==
    /\ ChipIdle
    /\ led' \in {"GREEN", "AMBER"}
    /\ UNCHANGED <<identifyVars, threadVars, unchipVars>>

(* A mutant of BlinkSteps: the loop runs once too often. *)
OneBlinkMore == 8

(* Three times on and off *)
BlinkSteps == 6

(* app_identification_cb: white and off, three times, delays included *)
Identify ==
    /\ ChipIdle
    /\ identifies < MaxIdentifies
    /\ identifies' = identifies + 1
    /\ blinks' = BlinkSteps
    /\ UNCHANGED <<led, threadVars, unchipVars>>

Blink ==
    /\ blinks > 0
    /\ blinks' = blinks - 1
    /\ led' = IF blinks % 2 = 0 THEN "WHITE" ELSE "OFF"
    /\ UNCHANGED <<identifies, threadVars, unchipVars>>

(* A mutant: the test of the attachment is the wrong way round. *)
ThreadStateChangeDetached ==
    /\ ChipIdle
    /\ threadEvents > 0
    /\ threadEvents' = threadEvents - 1
    /\ stale' = (stale /\ attached)
    /\ UNCHANGED <<led, identifyVars, attached, unchipVars>>

(* kThreadStateChange with AddressChanged: if the device is attached by    *)
(* now, StartServer advertises the addresses it has by now.                *)
ThreadStateChange ==
    /\ ChipIdle
    /\ threadEvents > 0
    /\ threadEvents' = threadEvents - 1
    /\ stale' = (stale /\ ~ attached)
    /\ UNCHANGED <<led, identifyVars, attached, unchipVars>>

-----------------------------------------------------------------------------
(* The Thread stack and the freezer (external) *)

(* Attaching, detaching and changes of prefix all change the addresses. *)
ChangeAddress ==
    /\ chipUp
    /\ threadEvents < MaxThreadEvents
    /\ threadEvents' = threadEvents + 1
    /\ stale' = TRUE
    /\ attached' \in BOOLEAN
    /\ UNCHANGED <<led, identifyVars, unchipVars>>

(* The sensor's contacts open and close, and a conversion is lost with the *)
(* sensor's power; the freezer cools or warms.                             *)
World ==
    /\ \/ /\ answers' = ~ answers
          /\ scratchpad' \in {scratchpad, PowerOnValue}
          /\ UNCHANGED temp
       \/ temp' \in Temps \ {temp} /\ UNCHANGED <<answers, scratchpad>>
    /\ UNCHANGED <<pc, led, nvsVars, sensor, buses, celsius, attribute, chipUp,
                   identifyVars, threadVars, faults>>

App ==
    \/ CreateNode \/ StartMatter \/ StartFails
    \/ OpenNvs \/ GetLength \/ Allocate \/ GetBlob
    \/ SetThreadProvision \/ SetThreadEnabled \/ Announce
    \/ BeginRead \/ NewBus \/ NewIterator \/ SearchDevice \/ NewDevice
    \/ Convert \/ GetTemperature \/ ReadFailed \/ Update \/ Delay

Chip == FabricEvent \/ Identify \/ Blink \/ ThreadStateChange

Next == App \/ Chip \/ ChangeAddress \/ World

(* The application's thread is scheduled, and so is the CHIP task: it ends *)
(* a callback it is in and takes the events that wait.                     *)
Fairness ==
    /\ WF_vars(App)
    /\ WF_vars(Blink)
    /\ WF_vars(ThreadStateChange)

Spec == Init /\ [][Next]_vars /\ Fairness

-----------------------------------------------------------------------------
(* Properties *)

TypeOK ==
    /\ pc \in {"create", "start", "failed", "open", "length", "alloc", "blob",
               "provision", "enable", "announce", "read", "bus", "iterate",
               "search", "device", "convert", "get", "readFailed", "update",
               "delay"}
    /\ led \in {"OFF", "WHITE", "BLUE", "GREEN", "AMBER", "RED"}
    /\ nvsOpen \in BOOLEAN /\ tlv \in BOOLEAN /\ provisioned \in BOOLEAN
    /\ sensor \in BOOLEAN /\ buses \in 0 .. RmtChannels
    /\ scratchpad \in Temps \cup {PowerOnValue}
    /\ celsius \in Temps \cup {NoReading, PowerOnValue}
    /\ attribute \in Int
    /\ chipUp \in BOOLEAN /\ blinks \in 0 .. 6
    /\ identifies \in 0 .. MaxIdentifies
    /\ attached \in BOOLEAN /\ stale \in BOOLEAN
    /\ threadEvents \in 0 .. MaxThreadEvents
    /\ answers \in BOOLEAN /\ temp \in Temps
    /\ faults \in 0 .. MaxFaults

(* Wherever provisioning stops, the NVS handle is closed and the buffer is *)
(* freed before temp_report_task runs.                                     *)
ProvisioningReleases ==
    pc \notin {"length", "alloc", "blob", "provision", "enable"} =>
        ~ nvsOpen /\ ~ tlv

(* The attribute never takes the 0.0 that celsius holds when a read fails: *)
(* it keeps the last temperature the sensor gave.  That is a measurement,  *)
(* or, which the reader cannot tell, the 85 C of a sensor whose power was  *)
(* interrupted during the 800 ms.                                          *)
NeverMadeUp == attribute \in Temps \cup {InitialValue, PowerOnValue}

(* ds18b20_reader.h:8, "Subsequent calls reuse the existing handle (no RMT *)
(* channel re-allocation)": once a sensor was initialized and answers, the *)
(* attribute follows the temperature, whatever failed in between.          *)
FoundSensorIsReported ==
    \A t \in Temps :
        <>sensor /\ <>[](answers /\ temp = t) => <>[](attribute = t)

(* main.cpp:128-131: mDNS and SRP are registered anew when the addresses   *)
(* change, although the event is handled later than the change, and the    *)
(* device may have left the network and come back in between.              *)
AttachedIsAdvertised == attached /\ stale ~> ~ (attached /\ stale)

(* main.cpp:174, "Temperature read failed, will retry next cycle": with a  *)
(* sensor that answers, a later cycle succeeds.                            *)
RetrySucceeds ==
    <>[]answers => <>(attribute # InitialValue) \/ <>(pc = "failed")
=============================================================================
