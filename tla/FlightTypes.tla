---------------------------- MODULE FlightTypes ----------------------------
(***************************************************************************)
(* The enumerations of lib/Enums.hpp and the records of mcl/Registry.hpp   *)
(* and mcl/Flag.hpp that every component of the flight software shares.    *)
(*                                                                         *)
(* ActuationType and ValvePriority are modelled by their integer values,   *)
(* because TelemetryControl casts one decimal digit of a ground packet to  *)
(* them without a range check: a flag may hold a code that names nothing.  *)
(***************************************************************************)
EXTENDS Integers, Sequences

----------------------------------------------------------------------------
(* enum class ActuationType *)
ACT_NONE   == 1
CLOSE_VENT == 2
OPEN_VENT  == 3
PULSE      == 4
ActuationTypes == {ACT_NONE, CLOSE_VENT, OPEN_VENT, PULSE}

(* enum class ValvePriority *)
PRI_NONE               == 0
LOW_PRIORITY           == 1
PI_PRIORITY            == 2
MAX_TELEMETRY_PRIORITY == 3
ABORT_PRIORITY         == 4
ValvePriorities == {PRI_NONE, LOW_PRIORITY, PI_PRIORITY,
                    MAX_TELEMETRY_PRIORITY, ABORT_PRIORITY}

(* What std::atoi can make of one character of a SAC packet. *)
Digits == 0..9

(* enum class SolenoidState, enum class SensorStatus, enum class Stage *)
SolenoidStates == {"CLOSED", "OPEN"}
SensorStatuses == {"SAFE", "WARNING", "CRITICAL"}
WAITING        == 0
PRESSURIZATION == 1
AUTOSEQUENCE   == 2
POSTBURN       == 3
Stages == WAITING..POSTBURN

----------------------------------------------------------------------------
(* struct FlagValveInfo (its state field is never read or written) and     *)
(* struct RegistryValveInfo, with the values a new map entry starts with.  *)
FlagValveInfo     == [type : Digits, priority : Digits]
RegistryValveInfo == [state : SolenoidStates, type : ActuationTypes,
                      priority : ValvePriorities]

NoRequest     == [type |-> ACT_NONE, priority |-> PRI_NONE]
NewValveEntry == [state |-> "CLOSED", type |-> ACT_NONE, priority |-> PRI_NONE]

(* A request for valve actuation, as the control tasks write it. *)
Ask(type, priority) == [type |-> type, priority |-> priority]
============================================================================
