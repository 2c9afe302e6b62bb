-------------------------- MODULE SensorTaskProofs -------------------------
(***************************************************************************)
(* What SensorTask shows, for any sensors, types, pins, slopes, biases and *)
(* readings.                                                               *)
(***************************************************************************)
EXTENDS SensorTask, WellFoundedInduction, TLAPS

(* A sensor that does not own its pin never gets a reading, and a load cell *)
(* none but 0 and the number of its pin.                                    *)
ShownOK ==
  /\ TypeOK
  /\ \A s \in Sensors : ~Owns(s) => measured[s] = 0
  /\ ForceNeverShown
  /\ OwnPinShown

(* The first sensor of a kind on a pin is one of them, if there is one.     *)
LEMMA FirstFound ==
  ASSUME NEW kind, NEW pin, OnPin(kind, pin) # {}
  PROVE  First(kind, pin) \in OnPin(kind, pin)
  <1> DEFINE Places == {i \in 1..Len(SensorList) :
                          SensorList[i] \in OnPin(kind, pin)}
  <1>1. Len(SensorList) \in Nat
    BY SensorAssumption
  <1>2. Places # {} /\ Places \subseteq Nat
    BY <1>1 DEF OnPin, Sensors
  <1>3. PICK i \in Places : \A j \in Places : i <= j
    <2> DEFINE Less == OpToRel(<, Nat)
    <2> HIDE DEF Places
    <2>1. IsWellFoundedOn(Less, Nat)
      BY NatLessThanWellFounded
    <2>2. \A x, y \in Nat : y < x => <<y, x>> \in Less
      BY DEF OpToRel
    <2> HIDE DEF Less
    <2>3. PICK i \in Places : \A j \in Places : <<j, i>> \notin Less
      BY <1>2, <2>1, WFMin
    <2>4. \A j \in Places : ~(j < i)
      BY <1>2, <2>2, <2>3, Zenon
    <2> QED
      BY <1>2, <2>4
  <1>4. \A j \in 1..(i - 1) : SensorList[j] \notin OnPin(kind, pin)
    BY <1>1, <1>3
  <1> QED
    BY <1>3, <1>4 DEF First

(* A driver gives one of the readings of its values, or 0.                  *)
LEMMA ReadingType ==
  ASSUME NEW values \in [Sensors -> Raw], NEW kind, NEW pin,
         OnPin(kind, pin) # {}
  PROVE  /\ Reading(values, kind, pin) \in Raw
         /\ kind = "load_cell" => Reading(values, kind, pin) \in {0, pin}
  <1>1. CASE kind = "load_cell"
    BY <1>1, SensorAssumption DEF Reading, ForceValue
  <1>2. CASE kind # "load_cell"
    BY <1>2, FirstFound DEF Reading, OnPin
  <1> QED
    BY <1>1, <1>2

(* Every sensor is of one of the three types that read() goes through.      *)
LEMMA LastKindFound ==
  ASSUME NEW s \in Sensors
  PROVE  /\ OnPin(LastKind(pins[s]), pins[s]) # {}
         /\ Kind[s] = "load_cell" => LastKind(pins[s]) = "load_cell"
         /\ LastKind(pins[s]) = "pressure" => Kind[s] = "pressure"
  <1>1. s \in OnPin(Kind[s], pins[s])
    BY DEF OnPin
  <1>2. Kind[s] \in {"load_cell", "pressure", "thermocouple"}
    BY SensorAssumption
  <1> QED
    BY <1>1, <1>2 DEF LastKind

(* A sensor on a pin of its own owns it, and is the first of its type there.*)
LEMMA OwnPinOwned ==
  ASSUME NEW s \in Sensors, \A r \in Sensors \ {s} : pins[r] # pins[s]
  PROVE  /\ Owns(s)
         /\ LastKind(pins[s]) = Kind[s]
         /\ First(Kind[s], pins[s]) = s
  <1>1. Owns(s)
    BY SensorAssumption DEF Owns, Sensors
  <1>2. \A kind : OnPin(kind, pins[s]) = IF kind = Kind[s] THEN {s} ELSE {}
    BY DEF OnPin
  <1>3. LastKind(pins[s]) = Kind[s]
    BY <1>2, SensorAssumption DEF LastKind
  <1>4. First(Kind[s], pins[s]) = s
    BY <1>2, FirstFound
  <1> QED
    BY <1>1, <1>3, <1>4

(* What the owner of a pin gets is a value of the registry, and for a load  *)
(* cell it is 0 or the number of the pin.                                   *)
LEMMA ShownType ==
  ASSUME NEW values \in [Sensors -> Raw], NEW s \in Sensors
  PROVE  /\ Shown(values, s) \in Values
         /\ Kind[s] = "load_cell" => Shown(values, s) \in {0, pins[s]}
  <1> DEFINE kind == LastKind(pins[s])
             reading == Reading(values, kind, pins[s])
  <1>1. /\ reading \in Raw
        /\ kind = "load_cell" => reading \in {0, pins[s]}
    BY LastKindFound, ReadingType
  <1>2. /\ Kind[s] = "load_cell" => kind = "load_cell"
        /\ kind = "pressure" => Kind[s] = "pressure"
    BY LastKindFound
  <1>3. Shown(values, s) =
          IF kind = "pressure" THEN Converted(s, reading) ELSE reading
    BY DEF Shown
  <1> HIDE DEF kind, reading
  <1>4. CASE kind = "pressure"
    <2>1. Converted(s, reading) \in Values
      BY <1>1, <1>2, <1>4, SensorAssumption
    <2> QED
      BY <1>2, <1>3, <1>4, <2>1
  <1>5. CASE kind # "pressure"
    BY <1>1, <1>2, <1>3, <1>5, SensorAssumption
  <1> QED
    BY <1>4, <1>5

(* Of two sensors on a pin, the one that comes first in the map does not    *)
(* own it.                                                                  *)
LEMMA OneOwner ==
  ASSUME NEW r \in Sensors, NEW s \in Sensors, r # s, pins[r] = pins[s]
  PROVE  ~Owns(r) \/ ~Owns(s)
  <1>1. PICK i, j \in 1..Len(SensorList) :
          SensorList[i] = r /\ SensorList[j] = s
    BY DEF Sensors
  <1>2. i < j \/ j < i
    BY <1>1, SensorAssumption
  <1> QED
    BY <1>1, <1>2 DEF Owns

(* read() keeps all of it.                                                  *)
LEMMA ReadKeeps == ShownOK /\ Read => ShownOK'
  <1> SUFFICES ASSUME ShownOK, Read PROVE ShownOK'
    OBVIOUS
  <1>1. /\ pins' = pins /\ vals' \in [Sensors -> Raw]
        /\ \A s \in Sensors : Owns(s)' <=> Owns(s)
    BY DEF Read, Owns
  <1>2. \A s \in Sensors : Owns(s) => measured'[s] = Shown(vals', s)
    BY DEF Read
  <1>3. ASSUME NEW s \in Sensors
        PROVE  /\ measured'[s] \in Values
               /\ ~Owns(s) => measured'[s] = measured[s]
               /\ Kind[s] = "load_cell" => measured'[s] \in {0, pins[s]}
    <2>1. CASE Owns(s)
      BY <1>1, <1>2, <2>1, ShownType
    <2>2. CASE ~Owns(s)
      BY <2>2 DEF Read, ShownOK, TypeOK, ForceNeverShown
    <2> QED
      BY <2>1, <2>2
  <1>4. TypeOK'
    BY <1>1, <1>3 DEF Read, ShownOK, TypeOK
  <1>5. ASSUME NEW s \in Sensors,
               \A r \in Sensors \ {s} : pins'[r] # pins'[s]
        PROVE  /\ Kind[s] = "thermocouple" => measured'[s] = vals'[s]
               /\ Kind[s] = "pressure" =>
                    measured'[s] = Converted(s, vals'[s])
    <2>1. Owns(s) /\ LastKind(pins[s]) = Kind[s]
          /\ First(Kind[s], pins[s]) = s
      BY <1>1, <1>5, OwnPinOwned
    <2> QED
      BY <1>2, <2>1 DEF Shown, Reading
  <1>6. OwnPinShown'
    BY <1>5 DEF OwnPinShown
  <1> QED
    BY <1>1, <1>3, <1>4, <1>6 DEF ShownOK, ForceNeverShown

(* The invariant of SensorTask.                                             *)
LEMMA ShownInvariant == Spec => []ShownOK
  <1>1. Init => ShownOK
    BY SensorAssumption DEF Init, InitReadings, ShownOK, TypeOK,
                            ForceNeverShown, OwnPinShown, NothingRead
  <1>2. ShownOK /\ [Next]_vars => ShownOK'
    BY ReadKeeps DEF Next, vars, ShownOK, TypeOK, ForceNeverShown,
                     OwnPinShown, NothingRead, Owns
  <1> QED
    BY <1>1, <1>2, PTL DEF Spec

(* Whatever pins the sensors have, the registry shows readings, or readings *)
(* by a slope and a bias.                                                   *)
THEOREM SensorTypeCorrect == Spec => []TypeOK
  <1>1. ShownOK => TypeOK
    BY DEF ShownOK
  <1> QED
    BY <1>1, ShownInvariant, PTL

(* Of sensors that share a pin, at most one ever shows a reading.           *)
THEOREM SharedPinsAreSilent == Spec => []SharedPinSilences
  <1>1. ShownOK => SharedPinSilences
    BY OneOwner DEF ShownOK, SharedPinSilences
  <1> QED
    BY <1>1, ShownInvariant, PTL

(* No load cell ever shows a force, for any pins and any forces.            *)
THEOREM ForcesAreNeverShown == Spec => []ForceNeverShown
  <1>1. ShownOK => ForceNeverShown
    BY DEF ShownOK
  <1> QED
    BY <1>1, ShownInvariant, PTL

(* A thermocouple on a pin of its own always shows its driver's last        *)
(* reading, a pressure sensor that reading by its own slope and bias.       *)
THEOREM OwnPinsAreShown == Spec => []OwnPinShown
  <1>1. ShownOK => OwnPinShown
    BY DEF ShownOK
  <1> QED
    BY <1>1, ShownInvariant, PTL
============================================================================
