--------------------------- MODULE LaundrySensors ---------------------------
(***************************************************************************)
(* The sensor drivers of devices/laundry-detector/main and what main.cpp   *)
(* does with them: init_sensors (lis3dh.c, max17048.c, sht40.c on one I2C  *)
(* bus), then reports of battery, temperature and humidity.  A measurement *)
(* of the SHT40 is started by one transfer and fetched by another; its six *)
(* bytes are protected by two CRCs.  A byte is the set of its bits that    *)
(* are 1.                                                                  *)
(***************************************************************************)
EXTENDS Integers, FiniteSetsExt

CONSTANTS
    Measurements,  \* what the SHT40 can measure, [t, h |-> 16-bit words]
    Charges,       \* what the MAX17048 can say, a byte of percent
    Disturbances,  \* sets of bits, of the 48 on the wire, that may flip
    MaxBusErrors,  \* bound: transfers that fail or are disturbed
    MaxRefusals    \* bound: attribute updates that are refused

(* Two words and a byte, of any value.  (Spelt out: the provers take the   *)
(* bounds from it.)                                                        *)
DataAreWords ==
    /\ \A m \in Measurements : /\ m.t \in Nat /\ m.t <= 65535
                              /\ m.h \in Nat /\ m.h <= 65535
    /\ \A percent \in Charges : percent \in Nat /\ percent <= 255

ASSUME LaundrySensorsAssumption ==
    /\ DataAreWords
    /\ \A flips \in Disturbances : flips \subseteq 0 .. 47
    /\ MaxBusErrors \in Nat /\ MaxRefusals \in Nat

VARIABLES
    pc,           \* where the application thread is
    missing,      \* attributes whose cluster could not be created
    world,        \* what the sensors would measure now
    sample,       \* what the SHT40 measured for the last command
    reading,      \* sht40_read's result
    battery, temperature, humidity,  \* the Matter attributes
    busErrors, refusals  \* faults so far

attributes == <<battery, temperature, humidity>>
faults == <<busErrors, refusals>>
vars == <<pc, missing, world, sample, reading, attributes, faults>>

Goto(from, to) == pc = from /\ pc' = to

-----------------------------------------------------------------------------
(* The SHT40's frame and its check *)

Xor(a, b) == (a \ b) \union (b \ a)
Poly == {0, 4, 5}  \* x^5 + x^4 + 1: 0x31
Shift(byte) == {bit + 1 : bit \in byte \ {7}}

(* One turn of the register: it shifts, and takes Poly when a 1 falls out. *)
Turn(byte, out) == IF out THEN Xor(Shift(byte), Poly) ELSE Shift(byte)

(* The eight turns of crc8's inner loop, for every byte. *)
CrcTable ==
    [byte \in SUBSET (0 .. 7) |->
        LET crc[b \in 0 .. 8] ==
                IF b = 0 THEN byte
                ELSE LET last == crc[b - 1] IN Turn(last, 7 \in last)
        IN  crc[8]]

(* A mutant: the register starts at 0. *)
Crc8FromZero(msb, lsb) == CrcTable[Xor(CrcTable[msb], lsb)]

(* crc8 *)
Crc8(msb, lsb) == CrcTable[Xor(CrcTable[Xor(0 .. 7, msb)], lsb)]

(* The bytes of a frame, a set of bits: raw[0] is sent first. *)
Raw(frame, i) == {bit \in 0 .. 7 : 8 * (5 - i) + bit \in frame}

Number(bits) == MapThenSumSet(LAMBDA bit : 2 ^ bit, bits)
Word(frame, i) == 256 * Number(Raw(frame, i)) + Number(Raw(frame, i + 1))

(* A mutant: the second word goes unchecked. *)
AcceptsTemperature(frame) ==
    Crc8(Raw(frame, 0), Raw(frame, 1)) = Raw(frame, 2)

(* sht40_read takes a frame when both words match their CRC. *)
Accepts(frame) ==
    /\ Crc8(Raw(frame, 0), Raw(frame, 1)) = Raw(frame, 2)
    /\ Crc8(Raw(frame, 3), Raw(frame, 4)) = Raw(frame, 5)

(* What the sensor sends: each word and the CRC of its data sheet, computed *)
(* from the same polynomial bit by bit.                                     *)
Sent(m) ==
    LET Bits(n) == {bit \in 0 .. 15 : (n \div 2 ^ bit) % 2 = 1}
        SensorCrc(word) ==
            LET crc[n \in 0 .. 16] ==
                    IF n = 0 THEN 0 .. 7
                    ELSE LET last == crc[n - 1]
                         IN  Turn(last, (7 \in last) # (16 - n \in word))
            IN  crc[16]
        Placed(bits, at) == {bit + at : bit \in bits}
    IN  UNION {Placed(Bits(m.t), 32), Placed(SensorCrc(Bits(m.t)), 24),
               Placed(Bits(m.h), 8), SensorCrc(Bits(m.h))}

-----------------------------------------------------------------------------
(* Conversions.  The code computes in single precision and truncates; for  *)
(* words that are not within a rounding error of a whole hundredth that is *)
(* the integer arithmetic below.                                           *)

Truncated(n, d) == IF n < 0 THEN - ((- n) \div d) ELSE n \div d

(* -45 + 175 raw / 65535, in hundredths of a degree *)
MatterTemp(raw) == Truncated(17500 * raw - 4500 * 65535, 65535)

(* A mutant: the sensor's values below 0 and over 100 % are not cut off. *)
MatterHumUnclamped(raw) == Truncated(12500 * raw - 600 * 65535, 65535)

(* -6 + 125 raw / 65535, cut off at 0 and 100 %, in hundredths *)
MatterHum(raw) ==
    Max({0, Min({10000, Truncated(12500 * raw - 600 * 65535, 65535)})})

(* SOC, cut off at 100, in half percents *)
BatPercentRemaining(percent) == 2 * Min({100, percent})

Decoded(frame) == [valid |-> TRUE,
                   t |-> MatterTemp(Word(frame, 0)),
                   h |-> MatterHum(Word(frame, 3))]

(* sht40_read's result for a frame *)
Rejected == [valid |-> FALSE]
Result(frame) == IF Accepts(frame) THEN Decoded(frame) ELSE Rejected

IntactResult == [m \in Measurements |-> Result(Sent(m))]
DisturbedResults ==
    [m \in Measurements |->
        {Result(Xor(Sent(m), flips)) : flips \in Disturbances}]

-----------------------------------------------------------------------------
(* app_main: the attributes are created with these values, before which    *)
(* nobody can read them.  A cluster that cannot be created is logged as    *)
(* not fatal; its attribute is missing from then on.  (Here that is known  *)
(* from the start: nothing looks at it before the first report.)           *)
Init ==
    /\ pc = "lis3dh"
    /\ missing \in SUBSET {"battery", "temperature", "humidity"}
    /\ world \in [sht : Measurements, soc : Charges]
    /\ sample = world.sht
    /\ reading = Rejected
    /\ battery = 100 /\ temperature = 0 /\ humidity = 0
    /\ busErrors = 0 /\ refusals = 0

BusError == busErrors < MaxBusErrors /\ busErrors' = busErrors + 1

(* lis3dh_init creates the bus, adds the device, checks WHO_AM_I and       *)
(* configures it; the other two take the bus over and add their device.    *)
InitLis3dh ==
    /\ Goto("lis3dh", "max17048")
    /\ UNCHANGED <<missing, world, sample, reading, attributes, faults>>

InitMax17048 ==
    /\ Goto("max17048", "sht40")
    /\ UNCHANGED <<missing, world, sample, reading, attributes, faults>>

InitSht40 ==
    /\ Goto("sht40", "idle")
    /\ UNCHANGED <<missing, world, sample, reading, attributes, faults>>

(* Any step of the three fails: app_main returns. *)
InitFails ==
    /\ pc \in {"lis3dh", "max17048", "sht40"} /\ pc' = "failed"
    /\ BusError
    /\ UNCHANGED <<missing, world, sample, reading, attributes, refusals>>

(* A report: update_battery, then update_temp_humidity. *)
BeginReport ==
    /\ Goto("idle", "soc")
    /\ UNCHANGED <<missing, world, sample, reading, attributes, faults>>

(* attribute::update takes the value, finds no such attribute, or refuses  *)
(* it; the error is only logged.                                           *)
Update(name, attribute, value) ==
    \/ name \notin missing /\ attribute' = value /\ UNCHANGED refusals
    \/ name \in missing /\ UNCHANGED <<attribute, refusals>>
    \/ /\ refusals < MaxRefusals
       /\ refusals' = refusals + 1
       /\ UNCHANGED attribute

UpdateBattery ==
    /\ Goto("soc", "command")
    /\ Update("battery", battery, BatPercentRemaining(world.soc))
    /\ UNCHANGED <<missing, world, sample, reading, temperature, humidity,
                   busErrors>>

(* max17048_read_soc fails: no update. *)
ReadSocFails ==
    /\ Goto("soc", "command")
    /\ BusError
    /\ UNCHANGED <<missing, world, sample, reading, attributes, refusals>>

(* The measurement command arrives and the sensor measures. *)
Command ==
    /\ Goto("command", "receive")
    /\ sample' = world.sht
    /\ UNCHANGED <<missing, world, reading, attributes, faults>>

(* A transfer of sht40_read fails, and with it the read. *)
TransferFails ==
    /\ pc \in {"command", "receive"} /\ pc' = "idle"
    /\ BusError
    /\ UNCHANGED <<missing, world, sample, reading, attributes, refusals>>

Take(result) ==
    /\ pc = "receive"
    /\ reading' = result
    /\ pc' = IF result.valid THEN "temperature" ELSE "idle"
    /\ UNCHANGED <<missing, world, sample, attributes, refusals>>

Receive == Take(IntactResult[sample]) /\ UNCHANGED busErrors

ReceiveDisturbed ==
    \E result \in DisturbedResults[sample] : Take(result) /\ BusError

UpdateTemperature ==
    /\ Goto("temperature", "humidity")
    /\ Update("temperature", temperature, reading.t)
    /\ UNCHANGED <<missing, world, sample, reading, battery, humidity,
                   busErrors>>

UpdateHumidity ==
    /\ Goto("humidity", "idle")
    /\ Update("humidity", humidity, reading.h)
    /\ UNCHANGED <<missing, world, sample, reading, battery, temperature,
                   busErrors>>

Step ==
    \/ InitLis3dh \/ InitMax17048 \/ InitSht40 \/ InitFails
    \/ BeginReport \/ UpdateBattery \/ ReadSocFails
    \/ Command \/ TransferFails \/ Receive \/ ReceiveDisturbed
    \/ UpdateTemperature \/ UpdateHumidity

(* The weather in the laundry room, and the battery. *)
Change ==
    /\ world' \in [sht : Measurements, soc : Charges]
    /\ UNCHANGED <<pc, missing, sample, reading, attributes, faults>>

Next == Step \/ Change

(* monitor_task reports at least once per report interval while it runs    *)
(* (LaundryMonitorTask), and I2C transfers end by their 100 ms time-out.   *)
Spec == Init /\ [][Next]_vars /\ WF_vars(Step)

-----------------------------------------------------------------------------
(* Properties *)

(* Battery and humidity keep the ranges app_main declares for them,        *)
(* whatever the sensors say: the SHT40's formula gives less than 0 and     *)
(* more than 100 %, and the fuel gauge says more than 100 %.  Nothing cuts *)
(* the temperature off: it is what the formula makes of any word, -45 to   *)
(* 130 C, and may leave the -40 to 125 C that are declared.                *)
TypeOK ==
    /\ pc \in {"lis3dh", "max17048", "sht40", "failed", "idle", "soc",
               "command", "receive", "temperature", "humidity"}
    /\ missing \subseteq {"battery", "temperature", "humidity"}
    /\ world.sht \in Measurements /\ world.soc \in Charges
    /\ sample \in Measurements
    /\ battery \in 0 .. 200
    /\ temperature \in -4500 .. 13000
    /\ humidity \in 0 .. 10000
    /\ busErrors \in 0 .. MaxBusErrors /\ refusals \in 0 .. MaxRefusals

(* What sht40_read should make of a measurement *)
ReadingOf(m) == [valid |-> TRUE, t |-> MatterTemp(m.t), h |-> MatterHum(m.h)]

(* The attribute, if there is one, has the value. *)
Shows(name, attribute, value) == name \in missing \/ attribute = value

(* A reading that is used is what the sensor measured for its command, and *)
(* between reports temperature and humidity belong to one measurement (or  *)
(* none was reported yet), whatever transfer failed or was disturbed on    *)
(* the way and however the weather changed meanwhile; only a refused       *)
(* update can leave a mixture.  An attribute that could not be created     *)
(* belongs to any.                                                         *)
ReadingsBelongTogether ==
    /\ pc \in {"temperature", "humidity"} => reading = ReadingOf(sample)
    /\ pc = "idle" /\ refusals = 0 =>
          \/ temperature = 0 /\ humidity = 0
          \/ \E m \in Measurements :
                /\ Shows("temperature", temperature, MatterTemp(m.t))
                /\ Shows("humidity", humidity, MatterHum(m.h))

(* What this takes of the data: a frame that arrives, as it was sent or    *)
(* disturbed, is rejected or reads as what was measured.                   *)
CrcProtects ==
    \A m \in Measurements :
        DisturbedResults[m] \union {IntactResult[m]}
            \subseteq {Rejected, ReadingOf(m)}

(* When the weather settles, the attributes end up at what the sensors     *)
(* measure, although transfers failed and updates were refused before, and *)
(* one that is missing does not keep the others from it.                   *)
ReportsFollowSensors ==
    \A m \in Measurements, percent \in Charges :
        <>[](world = [sht |-> m, soc |-> percent]) =>
            <>[](\/ pc = "failed"
                 \/ /\ Shows("temperature", temperature, MatterTemp(m.t))
                    /\ Shows("humidity", humidity, MatterHum(m.h))
                    /\ Shows("battery", battery,
                             BatPercentRemaining(percent)))
=============================================================================
