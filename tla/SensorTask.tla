----------------------------- MODULE SensorTask ----------------------------
(***************************************************************************)
(* tasks/SensorTask and the sensor drivers of the board: the drivers read  *)
(* their pins, and the task writes what they give for each pin into the    *)
(* registry entry of the sensor it takes the pin to belong to: a pressure  *)
(* by the slope and the bias of that sensor, the others as they are.       *)
(*                                                                         *)
(* Readings are in whole units (psi, degrees), slope and bias in           *)
(* thousandths; the code's floats are rounded down to these. The 420       *)
(* that ThermoDriver gives for a fault is one of the readings. A load cell *)
(* and a thermocouple are known by the first of their pins, as in the code.*)
(***************************************************************************)
EXTENDS Integers, Sequences

CONSTANTS
  SensorList,  \* sensor_list: the configured sensors, in map order
  Kind,        \* the type of each sensor
  Slope,       \* the slope of each sensor, 0 where the configuration has none
  Bias,        \* the bias of each sensor, likewise
  Raw,         \* what a driver can read
  Values,      \* what the registry can show
  Pins         \* the pin numbers a configuration may give

Sensors == {SensorList[i] : i \in 1..Len(SensorList)}

(* A pressure in the registry is negative for a reading below bias / slope, *)
(* and always -bias for a sensor whose configuration has no slope.          *)
Converted(s, raw) == (Slope[s] * raw - Bias[s]) \div 1000

ASSUME SensorAssumption ==
  /\ SensorList \in Seq(Sensors)
  /\ \A i, j \in 1..Len(SensorList) : SensorList[i] = SensorList[j] => i = j
  /\ Kind \in [Sensors -> {"load_cell", "pressure", "thermocouple"}]
  /\ Slope \in [Sensors -> Int] /\ Bias \in [Sensors -> Int]
  /\ Raw \subseteq Values /\ 0 \in Raw
  /\ Values \subseteq Int
  /\ \A s \in Sensors, raw \in Raw :
       Kind[s] = "pressure" => Converted(s, raw) \in Values
  /\ Pins \subseteq Int

VARIABLES
  pins,     \* the pin of each sensor, as configured
  vals,     \* pressure_vals, thermo_vals and force_vals of the drivers
  measured  \* measured_value of each sensor in the registry

vars == <<pins, vals, measured>>

TypeOK ==
  /\ pins \in [Sensors -> Pins]
  /\ vals \in [Sensors -> Raw]
  /\ measured \in [Sensors -> Values]

(* The constructors of the drivers and Registry::initialize. What a driver  *)
(* holds before its first read() is not looked at.                          *)
InitReadings ==
  /\ vals = [s \in Sensors |-> 0]
  /\ measured = [s \in Sensors |-> 0]

Init == pins \in [Sensors -> Pins] /\ InitReadings

----------------------------------------------------------------------------
(* Slip: each type of sensor has a mapping of its own.                      *)
OwnsWithinKind(s) ==
  \A i, j \in 1..Len(SensorList) :
    SensorList[i] = s /\ i < j /\ Kind[SensorList[j]] = Kind[s]
      => pins[SensorList[j]] # pins[s]

(* pin_sensor_mappings: a pin belongs to the last sensor, of any type, that *)
(* initialize() enters with it.                                             *)
Owns(s) ==
  \A i, j \in 1..Len(SensorList) :
    SensorList[i] = s /\ i < j => pins[SensorList[j]] # pins[s]

OnPin(kind, pin) == {s \in Sensors : Kind[s] = kind /\ pins[s] = pin}

(* The driver of a kind finds the first of its pins that is the one given.  *)
First(kind, pin) ==
  SensorList[CHOOSE i \in 1..Len(SensorList) :
    /\ SensorList[i] \in OnPin(kind, pin)
    /\ \A j \in 1..(i - 1) : SensorList[j] \notin OnPin(kind, pin)]

(* Slip: the pin is looked up among the pins.                               *)
ForceValueByPin(values, pin) == values[First("load_cell", pin)]

(* Slip: the index that says "not found" is returned.                       *)
ForceValueNotFound(values, pin) ==
  IF \E s \in Sensors : Kind[s] = "load_cell" /\ values[s] = pin
  THEN pin ELSE -1

(* LoadCellDriver::getForceValue looks the number of the pin up among the   *)
(* forces, and returns the force it finds.                                  *)
ForceValue(values, pin) ==
  IF \E s \in Sensors : Kind[s] = "load_cell" /\ values[s] = pin
  THEN pin ELSE 0

(* getPressureValue, getThermoValue, getForceValue. *)
Reading(values, kind, pin) ==
  IF kind = "load_cell" THEN ForceValue(values, pin)
  ELSE values[First(kind, pin)]

(* read() goes through the pressures, the thermocouples and the load cells: *)
(* of the types on one pin, the last of these is what stays.                *)
LastKind(pin) ==
  IF OnPin("load_cell", pin) # {} THEN "load_cell"
  ELSE IF OnPin("thermocouple", pin) # {} THEN "thermocouple"
  ELSE "pressure"

(* Slip: pressures are copied like the other readings.                      *)
ShownUnconverted(values, s) == Reading(values, LastKind(pins[s]), pins[s])

(* What the owner of a pin gets: only what comes from the pressures is      *)
(* converted.                                                               *)
Shown(values, s) ==
  LET kind == LastKind(pins[s])
      reading == Reading(values, kind, pins[s])
  IN IF kind = "pressure" THEN Converted(s, reading) ELSE reading

(* SensorTask::read: every driver reads all its pins, then the owner of     *)
(* each pin gets a reading; the other sensors keep what they had.           *)
Read ==
  /\ vals' \in [Sensors -> Raw]
  /\ measured' = [s \in Sensors |->
       IF Owns(s) THEN Shown(vals', s) ELSE measured[s]]
  /\ UNCHANGED pins

Next == Read

Spec == Init /\ [][Next]_vars

----------------------------------------------------------------------------
(* Before the first read() the registry shows 0 for every sensor, which for *)
(* a pressure is no reading at all.                                         *)
NothingRead == \A s \in Sensors : vals[s] = 0 /\ measured[s] = 0

(* A sensor on a pin of its own shows what its own driver read last,        *)
(* wherever it stands among sensors of other types and sensors that share   *)
(* pins: a thermocouple its reading, a pressure sensor its reading by its   *)
(* own slope and bias, which may be a negative pressure.                    *)
OwnPinShown ==
  NothingRead \/
    \A s \in Sensors :
      (\A r \in Sensors \ {s} : pins[r] # pins[s]) =>
        /\ Kind[s] = "thermocouple" => measured[s] = vals[s]
        /\ Kind[s] = "pressure" => measured[s] = Converted(s, vals[s])

(* Of sensors on one pin, of whatever types, at most one ever shows a       *)
(* reading; the others keep the 0 they started with, and are graded by it   *)
(* (with pin -1 for all, as in nitrous_config.json, all but one).           *)
SharedPinSilences ==
  \A r, s \in Sensors :
    r # s /\ pins[r] = pins[s] => measured[r] = 0 \/ measured[s] = 0

(* No load cell ever shows a force: the registry has 0, or the number of    *)
(* its pin, whatever the drivers read (LoadCellDriver.cpp:29).              *)
ForceNeverShown ==
  \A s \in Sensors : Kind[s] = "load_cell" => measured[s] \in {0, pins[s]}
============================================================================
