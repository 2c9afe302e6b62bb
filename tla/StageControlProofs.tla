------------------------- MODULE StageControlProofs ------------------------
(***************************************************************************)
(* What StageControl keeps for every set of valves, every delay and        *)
(* interval, every pressure, negative ones too, whichever quotients the    *)
(* build rounds down, and without a bound that matters on the clock:       *)
(* MaxTime is any number.                                                  *)
(***************************************************************************)
EXTENDS StageControl, TLAPS

(* The flight holds before POSTBURN because no current actuation is ever    *)
(* recorded, so that the status of the autosequence stays below 100; the    *)
(* igniter waits for its delay because an autosequence, once entered,       *)
(* neither ends nor starts again; and each execute() finds the packets of   *)
(* the last one gone.                                                       *)
NothingRecorded == \A l \in Locations : regValves[l].type = ACT_NONE

OutboxDrained == turn = "control" => outbox = {}

StageInvariant ==
  /\ TypeOK
  /\ startTime <= now
  /\ NothingRecorded
  /\ NoPostburn
  /\ IgnitionNotEarly
  /\ OutboxDrained
  /\ StatusesAgree

USE DEF WAITING, PRESSURIZATION, AUTOSEQUENCE, POSTBURN, Stages

----------------------------------------------------------------------------
(* A whole division of naturals is a natural.                               *)
LEMMA DivisionNat ==
  ASSUME NEW a \in Nat, NEW b \in Nat \ {0}
  PROVE  a \div b \in Nat
  OBVIOUS

(* The whole part of a quotient of naturals is a natural: what is rounded   *)
(* down is at least 1.                                                      *)
LEMMA WholePartNat ==
  ASSUME NEW p \in Nat
  PROVE  WholePart(p) \in Nat
  <1>1. (10 * p) \div 49 \in Nat
    BY DivisionNat
  <1>2. CASE p \in RoundsDown /\ (10 * p) % 49 = 0
    <2>1. p # 0
      BY <1>2, StageAssumption
    <2>2. (10 * p) \div 49 # 0
      BY <1>2, <2>1
    <2> QED
      BY <1>1, <1>2, <2>2 DEF WholePart
  <1>3. CASE ~(p \in RoundsDown /\ (10 * p) % 49 = 0)
    BY <1>1, <1>3 DEF WholePart
  <1> QED
    BY <1>2, <1>3

(* pressure / 4.9 is cut to an int.                                         *)
LEMMA PressurePercentInt ==
  ASSUME NEW p \in Int
  PROVE  PressurePercent(p) \in Int
  <1>1. CASE p < 0
    <2>1. -p \in Nat
      BY <1>1
    <2>2. WholePart(-p) \in Nat
      BY <2>1, WholePartNat
    <2> QED
      BY <1>1, <2>2 DEF PressurePercent
  <1>2. CASE ~(p < 0)
    BY <1>2, WholePartNat DEF PressurePercent
  <1> QED
    BY <1>1, <1>2

(* calculate_status() is at most 100, a percentage but for the pressure of  *)
(* PRESSURIZATION, and below 100 in the autosequence.                       *)
LEMMA StatusType ==
  ASSUME TypeOK, NothingRecorded,
         NEW stage \in Stages, NEW start \in Nat, start <= now
  PROVE  /\ Status(stage, start) \in Statuses
         /\ Status(stage, start) < 0 => stage = PRESSURIZATION
         /\ stage = AUTOSEQUENCE => Status(stage, start) < 100
  <1>1. now \in Nat /\ pt2 \in Int
    BY StageAssumption DEF TypeOK
  <1>2. CASE stage = WAITING
    BY <1>2 DEF Status, Statuses
  <1>3. CASE stage = PRESSURIZATION
    BY <1>1, <1>3, PressurePercentInt DEF Status, Statuses, Least
  <1>4. CASE stage = AUTOSEQUENCE
    <2>1. regValves["main_propellant_valve"].type # OPEN_VENT
      BY StageAssumption DEF NothingRecorded, RestValves, ACT_NONE, OPEN_VENT
    <2>2. (now - start) * 100 \in Nat
      BY <1>1
    <2>3. ((now - start) * 100) \div AutosequenceDelay \in Nat
      BY <2>2, StageAssumption, DivisionNat
    <2> DEFINE elapsed == ((now - start) * 100) \div AutosequenceDelay
    <2>4. Status(stage, start) = Least(elapsed, 99)
      BY <1>4, <2>1 DEF Status
    <2> HIDE DEF elapsed
    <2>5. elapsed \in Nat
      BY <2>3 DEF elapsed
    <2> QED
      BY <1>4, <2>4, <2>5 DEF Least, Statuses
  <1>5. CASE stage = POSTBURN
    BY <1>1, <1>5 DEF Status, Statuses, Least, Greatest
  <1> QED
    BY <1>2, <1>3, <1>4, <1>5

(* stage_valve_control() asks for enumerated actuations, and for an opening *)
(* of the igniter in the autosequence only, after its delay.                *)
LEMMA CommandedType ==
  ASSUME TypeOK, NEW stage \in Stages, NEW start \in Nat
  PROVE  /\ Commanded(stage, start) \in [Locations -> FlagValveInfo]
         /\ \A l \in HeldValves :
              Commanded(stage, start)[l].type = OPEN_VENT =>
                \/ flagValves[l].type = OPEN_VENT
                \/ stage = AUTOSEQUENCE /\ now - start > AutosequenceDelay
  <1>1. /\ Ask(OPEN_VENT, PI_PRIORITY) \in FlagValveInfo
        /\ Ask(CLOSE_VENT, PI_PRIORITY) \in FlagValveInfo
    BY DEF Ask, FlagValveInfo, Digits, OPEN_VENT, CLOSE_VENT, PI_PRIORITY
  <1>2. Commanded(stage, start) \in [Locations -> FlagValveInfo]
    BY <1>1 DEF Commanded, TypeOK
  <1>3. ASSUME NEW l \in HeldValves,
               Commanded(stage, start)[l].type = OPEN_VENT,
               flagValves[l].type # OPEN_VENT
        PROVE  stage = AUTOSEQUENCE /\ now - start > AutosequenceDelay
    <2>1. l \in Locations
      BY StageAssumption DEF HeldValves
    <2>2. l \in Opens(stage, start)
      BY <1>3, <2>1 DEF Commanded, Ask, OPEN_VENT, CLOSE_VENT
    <2>3. l \notin RestValves
      BY DEF HeldValves, EngineValves, RestValves
    <2>4. stage = AUTOSEQUENCE /\ (now - start) - start > AutosequenceDelay
      BY <2>2, <2>3 DEF Opens
    <2> QED
      BY <2>4, StageAssumption DEF TypeOK
  <1> QED
    BY <1>2, <1>3

(* The end of execute() keeps the types of what it writes, whichever branch *)
(* it ends.                                                                 *)
LEMMA FinishType ==
  ASSUME TypeOK, NothingRecorded,
         NEW lastSent \in Nat, NEW packets \in SUBSET Packets,
         Finish(lastSent, packets),
         stageIndex' \in Stages, regStage' \in Stages,
         startTime' \in Nat, startTime' <= now
  PROVE  /\ flagValves' \in [Locations -> FlagValveInfo]
         /\ regKeys' \subseteq Locations
         /\ actuatedPostburn' \in BOOLEAN
         /\ sendTime' \in Nat
         /\ outbox' \subseteq Packets
         /\ \A l \in HeldValves :
              flagValves'[l].type = OPEN_VENT =>
                \/ flagValves[l].type = OPEN_VENT
                \/ /\ stageIndex' = AUTOSEQUENCE
                   /\ now - startTime' > AutosequenceDelay
  <1>1. /\ flagValves' \in [Locations -> FlagValveInfo]
        /\ \A l \in HeldValves :
             flagValves'[l].type = OPEN_VENT =>
               \/ flagValves[l].type = OPEN_VENT
               \/ /\ stageIndex' = AUTOSEQUENCE
                  /\ now - startTime' > AutosequenceDelay
    BY CommandedType DEF Finish
  <1>2. \A stage \in Stages : Touched(stage) \subseteq Locations
    BY StageAssumption DEF Touched, EngineValves, RestValves
  <1>3. regKeys' \subseteq Locations
    BY <1>2 DEF Finish, TypeOK
  <1>4. actuatedPostburn' \in BOOLEAN
    BY DEF Finish, TypeOK
  <1>5. sendTime' \in Nat
    BY DEF Finish, TypeOK
  <1>6. Status(regStage', startTime') \in Statuses
    BY StatusType
  <1>7. <<"SGD", stageIndex', Status(regStage', startTime')>> \in Packets
    BY <1>6 DEF Packets
  <1>8. outbox' \subseteq Packets
    BY <1>7 DEF Finish, TypeOK
  <1> QED
    BY <1>1, <1>3, <1>4, <1>5, <1>8

(* An execute() that starts with no packets queued leaves at most one SGD,  *)
(* with the status of the stage it leaves, and what its branch queued.      *)
LEMMA FinishAgrees ==
  ASSUME outbox = {}, NEW lastSent, NEW packets, Finish(lastSent, packets),
         \A reply \in packets :
           reply[1] # "SGD" /\
           (reply[1] = "SGP" =>
              /\ stageIndex' = reply[2]
              /\ Status(regStage', startTime') # reply[3] =>
                   /\ reply[2] = AUTOSEQUENCE /\ reply[4] = "-1"
                   /\ Status(regStage', startTime') = 0)
  PROVE  StatusesAgree'
  <1> DEFINE data == <<"SGD", stageIndex', Status(regStage', startTime')>>
  <1>1. outbox' \subseteq packets \cup {data}
    BY DEF Finish
  <1>2. /\ data[1] = "SGD" /\ data[2] = stageIndex'
        /\ data[3] = Status(regStage', startTime')
    OBVIOUS
  <1> HIDE DEF data
  <1>3. ASSUME NEW reply \in outbox', NEW d \in outbox',
               reply[1] = "SGP", d[1] = "SGD"
        PROVE  /\ d[2] = reply[2]
               /\ d[3] # reply[3] =>
                    reply[2] = AUTOSEQUENCE /\ reply[4] = "-1" /\ d[3] = 0
    <2>1. reply \in packets /\ d = data
      BY <1>1, <1>2, <1>3
    <2> QED
      BY <1>2, <1>3, <2>1
  <1> QED
    BY <1>3 DEF StatusesAgree

----------------------------------------------------------------------------
(* The program starts within the invariant.                                 *)
LEMMA StageInit == Init => StageInvariant
  <1> SUFFICES ASSUME Init PROVE StageInvariant
    OBVIOUS
  <1>1. NoRequest \in FlagValveInfo
    BY DEF NoRequest, FlagValveInfo, Digits, ACT_NONE, PRI_NONE
  <1>2. NewValveEntry \in RegistryValveInfo
    BY DEF NewValveEntry, RegistryValveInfo, SolenoidStates, ActuationTypes,
           ValvePriorities
  <1>3. TypeOK
    <2>1. /\ regKeys \subseteq Locations
          /\ pt2 \in Pressures
          /\ outbox \subseteq Packets
      BY StageAssumption DEF Init
    <2>2. {startTime, requestTime, sendTime, now} \subseteq Nat
      BY DEF Init, InitStage
    <2>3. /\ stageIndex \in Stages /\ regStage \in Stages
          /\ stageStatus \in Statuses /\ ~(stageStatus < 0)
      BY DEF Init, InitStage, Statuses
    <2> QED
      BY <1>1, <1>2, <2>1, <2>2, <2>3 DEF Init, InitStage, TypeOK
  <1>4. NothingRecorded
    BY DEF Init, NothingRecorded, NewValveEntry
  <1>5. IgnitionNotEarly
    BY StageAssumption
    DEF Init, IgnitionNotEarly, HeldValves, NoRequest, ACT_NONE, OPEN_VENT
  <1>6. OutboxDrained /\ StatusesAgree
    BY DEF Init, OutboxDrained, StatusesAgree
  <1> QED
    BY <1>3, <1>4, <1>5, <1>6 DEF Init, InitStage, StageInvariant, NoPostburn

(* A progression keeps it: it leaves WAITING or PRESSURIZATION, and what it *)
(* enters opens no valve yet.                                               *)
LEMMA AdvanceKeeps ==
  ASSUME StageInvariant, ControlStep, Advance
  PROVE  StageInvariant'
  <1>1. TypeOK /\ NothingRecorded /\ NoPostburn /\ IgnitionNotEarly
        /\ startTime <= now
    BY DEF StageInvariant
  <1>2. startTime \in Nat /\ now \in Nat
    BY <1>1 DEF TypeOK
  <1>3. stageIndex \in {WAITING, PRESSURIZATION}
    BY <1>1, <1>2, StatusType DEF Advance, NoPostburn, TypeOK
  <1>4. /\ stageIndex' = stageIndex + 1 /\ regStage' = stageIndex'
        /\ stageIndex' \in {PRESSURIZATION, AUTOSEQUENCE}
    BY <1>3 DEF Advance, Least
  <1>5. /\ stageStatus' = Status(regStage', startTime)
        /\ stageStatus' \in Statuses
        /\ stageStatus' < 0 => regStage' = PRESSURIZATION
    BY <1>1, <1>2, <1>4, StatusType DEF Advance
  <1>6. {<<"SGP", stageIndex', stageStatus', "-1">>} \in SUBSET Packets
    BY <1>4, <1>5 DEF Packets
  <1>7. /\ startTime' = now /\ requestTime' = 0 /\ progress' = FALSE
        /\ crashed' = FALSE
        /\ Finish(0, {<<"SGP", stageIndex', stageStatus', "-1">>})
    <2>1. (stageIndex = POSTBURN) = FALSE
      BY <1>3
    <2> QED
      BY <2>1, Zenon DEF Advance
  <1>8. UNCHANGED <<regValves, pt2, now>> /\ turn' = "actuate"
    BY DEF ControlStep
  <1>9. /\ flagValves' \in [Locations -> FlagValveInfo]
        /\ regKeys' \subseteq Locations
        /\ actuatedPostburn' \in BOOLEAN
        /\ sendTime' \in Nat
        /\ outbox' \subseteq Packets
        /\ \A l \in HeldValves :
             flagValves'[l].type = OPEN_VENT =>
               \/ flagValves[l].type = OPEN_VENT
               \/ /\ stageIndex' = AUTOSEQUENCE
                  /\ now - startTime' > AutosequenceDelay
    <2>1. /\ stageIndex' \in Stages /\ regStage' \in Stages
          /\ startTime' \in Nat /\ startTime' <= now
      BY <1>2, <1>4, <1>7
    <2> DEFINE packets == {<<"SGP", stageIndex', stageStatus', "-1">>}
    <2>2. packets \in SUBSET Packets /\ Finish(0, packets)
      BY <1>6, <1>7
    <2> HIDE DEF packets
    <2> QED
      BY <1>1, <2>1, <2>2, FinishType
  <1>10. TypeOK'
    <2>1. {startTime', requestTime', sendTime', now'} \subseteq Nat
      BY <1>2, <1>7, <1>8, <1>9
    <2>2. stageIndex' \in Stages /\ regStage' \in Stages
      BY <1>4
    <2>3. progress' \in BOOLEAN /\ crashed' \in BOOLEAN
      BY <1>7
    <2>4. /\ regValves' \in [Locations -> RegistryValveInfo]
          /\ pt2' \in Pressures
          /\ turn' \in {"control", "actuate"}
      BY <1>1, <1>8 DEF TypeOK
    <2> QED
      BY <1>5, <1>9, <2>1, <2>2, <2>3, <2>4 DEF TypeOK
  <1>11. IgnitionNotEarly'
    BY <1>1, <1>3, <1>8, <1>9 DEF IgnitionNotEarly
  <1>12. StatusesAgree'
    <2>1. regStage' = PRESSURIZATION =>
            Status(regStage', startTime') = stageStatus'
      BY <1>5 DEF Status
    <2>2. regStage' = AUTOSEQUENCE => Status(regStage', startTime') = 0
      <3>1. regValves["main_propellant_valve"].type # OPEN_VENT
        BY <1>1, StageAssumption
        DEF NothingRecorded, RestValves, ACT_NONE, OPEN_VENT
      <3>2. ((now - now) * 100) \div AutosequenceDelay = 0
        BY <1>2, StageAssumption
      <3> QED
        BY <1>7, <3>1, <3>2 DEF Status, Least
    <2>3. outbox = {}
      BY DEF StageInvariant, OutboxDrained, ControlStep
    <2> QED
      BY <1>4, <1>7, <2>1, <2>2, <2>3, FinishAgrees
  <1> QED
    BY <1>1, <1>2, <1>4, <1>7, <1>8, <1>10, <1>11, <1>12
    DEF StageInvariant, NothingRecorded, NoPostburn, OutboxDrained

(* A control cycle that stays in its stage keeps it: the elapsed time of an *)
(* opening that waits in the flag is not taken back.                        *)
LEMMA StayKeeps ==
  ASSUME StageInvariant, ControlStep,
         NEW packets \in SUBSET Packets, Finish(sendTime, packets),
         UNCHANGED <<stageIndex, regStage, startTime, crashed>>,
         stageStatus' \in Statuses, requestTime' \in Nat,
         stageStatus' < 0 => regStage = PRESSURIZATION,
         progress' \in BOOLEAN,
         \A reply \in packets :
           /\ reply[1] # "SGD"
           /\ reply[1] = "SGP" => /\ reply[2] = stageIndex
                                  /\ reply[3] = Status(regStage, startTime)
  PROVE  StageInvariant'
  <1>1. TypeOK /\ NothingRecorded /\ NoPostburn /\ IgnitionNotEarly
        /\ startTime <= now
    BY DEF StageInvariant
  <1>2. /\ startTime \in Nat /\ now \in Nat /\ sendTime \in Nat
        /\ stageIndex \in Stages /\ regStage \in Stages
    BY <1>1 DEF TypeOK
  <1>3. UNCHANGED <<regValves, pt2, now>> /\ turn' = "actuate"
    BY DEF ControlStep
  <1>4. /\ flagValves' \in [Locations -> FlagValveInfo]
        /\ regKeys' \subseteq Locations
        /\ actuatedPostburn' \in BOOLEAN
        /\ sendTime' \in Nat
        /\ outbox' \subseteq Packets
        /\ \A l \in HeldValves :
             flagValves'[l].type = OPEN_VENT =>
               \/ flagValves[l].type = OPEN_VENT
               \/ /\ stageIndex' = AUTOSEQUENCE
                  /\ now - startTime' > AutosequenceDelay
    BY <1>1, <1>2, FinishType
  <1>5. TypeOK'
    BY <1>1, <1>3, <1>4 DEF TypeOK
  <1>6. IgnitionNotEarly'
    BY <1>1, <1>3, <1>4 DEF IgnitionNotEarly
  <1>7. StatusesAgree'
    <2>1. Status(regStage', startTime') = Status(regStage, startTime)
      OBVIOUS
    <2>2. outbox = {}
      BY DEF StageInvariant, OutboxDrained, ControlStep
    <2> QED
      BY <2>1, <2>2, FinishAgrees
  <1> QED
    BY <1>1, <1>3, <1>5, <1>6, <1>7
    DEF StageInvariant, NothingRecorded, NoPostburn, OutboxDrained

(* execute() keeps it, whichever branch it takes; none of them throws.      *)
LEMMA ControlKeeps ==
  ASSUME StageInvariant, ControlStep
  PROVE  StageInvariant'
  <1>1. /\ TypeOK /\ NothingRecorded /\ startTime <= now /\ NoPostburn
        /\ startTime \in Nat /\ now \in Nat /\ stageIndex \in Stages
    BY DEF StageInvariant, TypeOK
  <1>2. /\ Status(regStage, startTime) \in Statuses
        /\ Status(regStage, startTime) < 0 => regStage = PRESSURIZATION
    BY <1>1, StatusType DEF NoPostburn
  <1>3. CASE Advance
    BY <1>3, AdvanceKeeps
  <1>4. CASE Refuse
    <2>1. stageStatus' \in Statuses
      BY <1>2, <1>4 DEF Refuse
    <2>2. {<<"SGP", stageIndex, stageStatus', "-0">>} \in SUBSET Packets
      BY <1>1, <2>1 DEF Packets
    <2> DEFINE packets == {<<"SGP", stageIndex, stageStatus', "-0">>}
    <2>3. \A reply \in packets :
            /\ reply[1] # "SGD"
            /\ reply[1] = "SGP" => /\ reply[2] = stageIndex
                                   /\ reply[3] = Status(regStage, startTime)
      BY <1>4 DEF Refuse
    <2>4. packets \in SUBSET Packets /\ Finish(sendTime, packets)
      BY <1>4, <2>2 DEF Refuse
    <2> HIDE DEF packets
    <2>5. /\ UNCHANGED <<stageIndex, regStage, startTime, crashed>>
          /\ requestTime' \in Nat /\ progress' \in BOOLEAN
          /\ stageStatus' < 0 => regStage = PRESSURIZATION
      BY <1>1, <1>2, <1>4 DEF Refuse, TypeOK
    <2> QED
      BY <2>1, <2>3, <2>4, <2>5, StayKeeps
  <1>5. CASE AskGround
    <2>1. {<<"SPQ", stageIndex>>} \in SUBSET Packets
      BY <1>1 DEF Packets
    <2>2. UNCHANGED crashed
      <3>1. crashed = FALSE
        BY <1>1 DEF NoPostburn, TypeOK
      <3>2. (stageIndex = POSTBURN) = FALSE
        BY <1>1 DEF NoPostburn
      <3> QED
        BY <1>5, <3>1, <3>2, Zenon DEF AskGround
    <2> QED
      BY <1>1, <1>2, <1>5, <2>1, <2>2, StayKeeps DEF AskGround, TypeOK
  <1>6. CASE Wait
    <2>1. {} \in SUBSET Packets
      OBVIOUS
    <2> QED
      BY <1>1, <1>2, <1>6, <2>1, StayKeeps DEF Wait, TypeOK
  <1> QED
    BY <1>3, <1>4, <1>5, <1>6 DEF ControlStep, Execute

(* The valve task records positions only, and empties flags.                *)
LEMMA TasksKeep ==
  ASSUME StageInvariant, TasksActuate
  PROVE  StageInvariant'
  <1>1. TypeOK /\ NothingRecorded /\ NoPostburn /\ IgnitionNotEarly
        /\ startTime <= now
    BY DEF StageInvariant
  <1>2. flagValves' \in [Locations -> FlagValveInfo]
    <2>1. NoRequest \in FlagValveInfo
      BY DEF NoRequest, FlagValveInfo, Digits, ACT_NONE, PRI_NONE
    <2> QED
      BY <1>1, <2>1 DEF TasksActuate, TypeOK
  <1>3. /\ regValves' \in [Locations -> RegistryValveInfo]
        /\ NothingRecorded'
    <2>1. \A l \in Locations :
            /\ regValves'[l] \in RegistryValveInfo
            /\ regValves'[l].type = regValves[l].type
      BY <1>1 DEF TasksActuate, TypeOK, RegistryValveInfo, SolenoidStates
    <2> QED
      BY <1>1, <2>1 DEF TasksActuate, NothingRecorded
  <1>4. TypeOK'
    BY <1>1, <1>2, <1>3 DEF TasksActuate, TypeOK, stageVars
  <1>5. \A l \in HeldValves :
          flagValves'[l].type = OPEN_VENT => flagValves[l].type = OPEN_VENT
    BY StageAssumption
    DEF TasksActuate, HeldValves, NoRequest, ACT_NONE, OPEN_VENT
  <1>6. IgnitionNotEarly'
    BY <1>1, <1>5 DEF IgnitionNotEarly, TasksActuate, stageVars
  <1>7. OutboxDrained' /\ StatusesAgree'
    BY DEF TasksActuate, OutboxDrained, StatusesAgree
  <1> QED
    BY <1>1, <1>3, <1>4, <1>6, <1>7
    DEF StageInvariant, TasksActuate, NoPostburn, stageVars

(* The ground names none of the held valves.                                *)
LEMMA GroundKeeps ==
  ASSUME StageInvariant, NEW l \in GroundLocations, NEW request \in GroundAsks,
         GroundActuate(l, request)
  PROVE  StageInvariant'
  <1>1. TypeOK /\ NothingRecorded /\ NoPostburn /\ IgnitionNotEarly
        /\ OutboxDrained /\ StatusesAgree /\ startTime <= now
    BY DEF StageInvariant
  <1>2. flagValves' \in [Locations -> FlagValveInfo]
    BY <1>1, StageAssumption DEF GroundActuate, TypeOK
  <1>3. \A v \in HeldValves : flagValves'[v] = flagValves[v]
    BY <1>1, StageAssumption DEF GroundActuate, HeldValves, TypeOK
  <1>4. TypeOK'
    BY <1>1, <1>2 DEF GroundActuate, TypeOK, stageVars
  <1>5. IgnitionNotEarly'
    BY <1>1, <1>3 DEF GroundActuate, IgnitionNotEarly, stageVars
  <1> QED
    BY <1>1, <1>4, <1>5
    DEF GroundActuate, StageInvariant, NothingRecorded, NoPostburn,
        OutboxDrained, StatusesAgree, stageVars

(* Every step of the system keeps the invariant.                            *)
LEMMA StageStep == StageInvariant /\ [Next]_vars => StageInvariant'
  <1> SUFFICES ASSUME StageInvariant, [Next]_vars PROVE StageInvariant'
    OBVIOUS
  <1>1. CASE ControlStep
    BY <1>1, ControlKeeps
  <1>2. CASE TasksActuate
    BY <1>2, TasksKeep
  <1>3. CASE GroundProgress
    BY <1>3 DEF GroundProgress, StageInvariant, TypeOK, NothingRecorded,
      NoPostburn, IgnitionNotEarly, OutboxDrained, StatusesAgree, stageVars
  <1>4. CASE PressureChanges
    BY <1>4 DEF PressureChanges, StageInvariant, TypeOK, NothingRecorded,
      NoPostburn, IgnitionNotEarly, OutboxDrained, StatusesAgree, stageVars
  <1>7. ASSUME NEW l \in GroundLocations, NEW request \in GroundAsks,
               GroundActuate(l, request)
        PROVE  StageInvariant'
    BY <1>7, GroundKeeps
  <1>5. CASE Tick
    <2>1. TypeOK' /\ startTime' <= now'
      BY <1>5 DEF Tick, StageInvariant, TypeOK, stageVars
    <2>2. IgnitionNotEarly'
      BY <1>5, StageAssumption
      DEF Tick, StageInvariant, TypeOK, IgnitionNotEarly, stageVars
    <2> QED
      BY <1>5, <2>1, <2>2
      DEF Tick, StageInvariant, NothingRecorded, NoPostburn, OutboxDrained,
          StatusesAgree, stageVars
  <1>6. CASE UNCHANGED vars
    BY <1>6 DEF vars, StageInvariant, TypeOK, NothingRecorded, NoPostburn,
                IgnitionNotEarly, OutboxDrained, StatusesAgree, stageVars
  <1> QED
    BY <1>1, <1>2, <1>3, <1>4, <1>5, <1>6, <1>7 DEF Next

(* The strengthening from which the theorems below follow.                  *)
THEOREM StageInvariantHolds == Spec => []StageInvariant
  BY StageInit, StageStep, PTL DEF Spec

(* Every status stays at most 100, and negative for a pressure only; every  *)
(* packet is well formed.                                                   *)
THEOREM StageTypeCorrect == Spec => []TypeOK
  BY StageInvariantHolds, PTL DEF StageInvariant

(* No request of the ground, however often or late, brings the flight past  *)
(* the autosequence, and none ends the program.                             *)
THEOREM PostburnNotReached == Spec => []NoPostburn
  BY StageInvariantHolds, PTL DEF StageInvariant

(* The igniter is not asked to open outside the autosequence, or before its *)
(* delay has passed.                                                        *)
THEOREM IgnitionWaits == Spec => []IgnitionNotEarly
  BY StageInvariantHolds, PTL DEF StageInvariant

(* The two statuses of one execute() differ only as the autosequence is     *)
(* entered.                                                                 *)
THEOREM StatusesDoAgree == Spec => []StatusesAgree
  BY StageInvariantHolds, PTL DEF StageInvariant

----------------------------------------------------------------------------
(* What a full pressure is: 490 psi, or more where the build rounds 490     *)
(* down.                                                                    *)
IsFull(p) == p >= 490 /\ (490 \in RoundsDown => p > 490)

(* The status of a pressure is full only at a full pressure: no quotient is *)
(* rounded up.                                                              *)
LEMMA FullAbove490 ==
  ASSUME NEW p \in Int, PressurePercent(p) >= 100
  PROVE  IsFull(p)
  <1>1. ~(p < 0)
    <2> SUFFICES ASSUME p < 0 PROVE FALSE
      OBVIOUS
    <2>1. -p \in Nat
      OBVIOUS
    <2>2. WholePart(-p) \in Nat
      BY <2>1, WholePartNat
    <2> QED
      BY <2>2 DEF PressurePercent
  <1>2. p \in Nat /\ WholePart(p) >= 100
    BY <1>1 DEF PressurePercent
  <1>3. (10 * p) \div 49 >= 100
    BY <1>2, DivisionNat DEF WholePart
  <1>4. p >= 490
    BY <1>2, <1>3
  <1>5. CASE p = 490 /\ 490 \in RoundsDown
    BY <1>2, <1>5 DEF WholePart
  <1> QED
    BY <1>2, <1>4, <1>5 DEF IsFull

(* The autosequence is entered by a progression out of PRESSURIZATION only, *)
(* whose status is that of the very reading at hand: with PT-2 configured   *)
(* it has full pressure, however long ago the ground asked.                 *)
THEOREM PressurizedFirst == Spec => PressurizedBeforeAutosequence
  <1> DEFINE Entered ==
        stageIndex # AUTOSEQUENCE /\ stageIndex' = AUTOSEQUENCE /\ HasPT2
          => IsFull(pt2)
  <1>1. ASSUME StageInvariant, [Next]_vars PROVE [Entered]_vars
    <2> SUFFICES ASSUME stageIndex # AUTOSEQUENCE,
                        stageIndex' = AUTOSEQUENCE, HasPT2
                 PROVE  IsFull(pt2)
      OBVIOUS
    <2>1. Advance
      BY <1>1 DEF Next, ControlStep, Execute, Refuse, AskGround, Wait,
        TasksActuate, GroundProgress, GroundActuate, PressureChanges, Tick,
        vars, stageVars
    <2>2. regStage = stageIndex /\ stageIndex \in Stages /\ pt2 \in Int
      BY <1>1, StageAssumption DEF StageInvariant, NoPostburn, TypeOK
    <2>3. regStage = PRESSURIZATION
      BY <2>1, <2>2 DEF Advance, Least
    <2>4. Least(100, PressurePercent(pt2)) = 100
      BY <2>1, <2>3 DEF Advance, Status
    <2>5. PressurePercent(pt2) >= 100
      BY <2>2, <2>4, PressurePercentInt DEF Least
    <2> QED
      BY <2>2, <2>5, FullAbove490
  <1> HIDE DEF Entered
  <1>2. Spec => [][Entered]_vars
    BY <1>1, StageInvariantHolds, PTL DEF Spec
  <1> QED
    BY <1>2 DEF Entered, IsFull, PressurizedBeforeAutosequence

----------------------------------------------------------------------------
(* The safety part of ImplementsSequence, and the value that its refinement *)
(* mapping gives to opening.                                                *)
SequenceSafety == Sequence!Init /\ [][Sequence!Next]_(Sequence!vars)

Opening == \E l \in HeldValves : flagValves[l].type = OPEN_VENT

(* A progression maps to one of the abstract stage machine: no opening      *)
(* waits before it, and it asks for none.                                   *)
LEMMA AdvanceRefines ==
  ASSUME StageInvariant, StageInvariant', ControlStep, Advance
  PROVE  Sequence!Advance
  <1>1. TypeOK /\ NothingRecorded /\ NoPostburn /\ IgnitionNotEarly
        /\ startTime <= now /\ startTime \in Nat /\ now \in Nat
    BY DEF StageInvariant, TypeOK
  <1>2. stageIndex \in {WAITING, PRESSURIZATION}
    BY <1>1, StatusType DEF Advance, NoPostburn, TypeOK
  <1>3. progress /\ stageIndex' = stageIndex + 1 /\ progress' = FALSE
    BY <1>2 DEF Advance, Least
  <1>4. ~Opening
    BY <1>1, <1>2 DEF Opening, IgnitionNotEarly
  <1>5. ~Opening'
    <2>1. startTime' = now /\ now' = now
      BY DEF Advance, ControlStep
    <2>2. \A l \in HeldValves :
            flagValves'[l].type = OPEN_VENT =>
              now' - startTime' > AutosequenceDelay
      BY DEF StageInvariant, IgnitionNotEarly
    <2>3. ~(now' - startTime' > AutosequenceDelay)
      BY <1>1, <2>1, StageAssumption
    <2> QED
      BY <2>2, <2>3 DEF Opening
  <1> QED
    BY <1>2, <1>3, <1>4, <1>5
    DEF Sequence!Advance, Sequence!POSTBURN, Opening

(* The other branches of execute() map to staying in the stage: an opening  *)
(* that waits is not withdrawn, and a new one comes in the autosequence.    *)
LEMMA StayRefines ==
  ASSUME StageInvariant, NEW packets, Finish(sendTime, packets),
         UNCHANGED <<stageIndex, startTime>>, progress' = FALSE
  PROVE  Sequence!Stay
  <1>1. TypeOK /\ startTime \in Nat /\ stageIndex \in Stages
    BY DEF StageInvariant, TypeOK
  <1>2. flagValves' = Commanded(stageIndex, startTime)
    BY DEF Finish
  <1>3. Opening => Opening'
    <2>1. ASSUME NEW l \in HeldValves, flagValves[l].type = OPEN_VENT
          PROVE  flagValves'[l].type = OPEN_VENT
      <3>1. l \in Locations /\ l \notin RestValves
        BY StageAssumption DEF HeldValves, EngineValves, RestValves
      <3> QED
        BY <1>2, <2>1, <3>1 DEF Commanded, Closes, Ask
    <2> QED
      BY <2>1 DEF Opening
  <1>4. Opening' => Opening \/ stageIndex = AUTOSEQUENCE
    BY <1>1, <1>2, CommandedType DEF Opening
  <1> QED
    BY <1>3, <1>4 DEF Sequence!Stay, Sequence!AUTOSEQUENCE, Opening

(* The stages follow the promise of StageSequence: in order, one at a time, *)
(* each on a request, with the igniter's opening in the autosequence only   *)
(* and never in the step that enters it.                                    *)
THEOREM SequenceKept == Spec => SequenceSafety
  <1>1. Init => Sequence!Init
    BY StageAssumption
    DEF Init, InitStage, HeldValves, Sequence!Init, Sequence!WAITING,
        NoRequest, ACT_NONE, OPEN_VENT
  <1>2. ASSUME StageInvariant, StageInvariant', [Next]_vars
        PROVE  [Sequence!Next]_(Sequence!vars)
    <2>1. CASE ControlStep
      <3>1. CASE Advance
        BY <1>2, <2>1, <3>1, AdvanceRefines DEF Sequence!Next
      <3>2. CASE Refuse
        BY <1>2, <3>2, StayRefines DEF Refuse, Sequence!Next
      <3>3. progress \in BOOLEAN
        BY <1>2 DEF StageInvariant, TypeOK
      <3>4. CASE AskGround
        BY <1>2, <3>3, <3>4, StayRefines DEF AskGround, Sequence!Next
      <3>5. CASE Wait
        BY <1>2, <3>3, <3>5, StayRefines DEF Wait, Sequence!Next
      <3> QED
        BY <2>1, <3>1, <3>2, <3>4, <3>5 DEF ControlStep, Execute
    <2>2. CASE TasksActuate
      <3>1. Opening' => Opening
        BY <2>2, StageAssumption
        DEF TasksActuate, Opening, HeldValves, NoRequest, ACT_NONE, OPEN_VENT
      <3>2. UNCHANGED <<stageIndex, progress>>
        BY <2>2 DEF TasksActuate, stageVars
      <3>3. CASE Opening'
        BY <3>1, <3>2, <3>3 DEF Opening, Sequence!vars
      <3>4. CASE ~Opening'
        BY <3>2, <3>4 DEF Opening, Sequence!Next, Sequence!Serve
      <3> QED
        BY <3>3, <3>4
    <2>3. CASE GroundProgress
      BY <2>3 DEF GroundProgress, stageVars, Sequence!Next,
                  Sequence!GroundRequest
    <2>5. ASSUME NEW l \in GroundLocations, NEW request \in GroundAsks,
                 GroundActuate(l, request)
          PROVE  UNCHANGED Sequence!vars
      <3>1. \A v \in HeldValves : flagValves'[v] = flagValves[v]
        BY <1>2, <2>5, StageAssumption
        DEF GroundActuate, HeldValves, StageInvariant, TypeOK
      <3> QED
        BY <2>5, <3>1 DEF GroundActuate, stageVars, Sequence!vars
    <2>4. CASE PressureChanges \/ Tick \/ UNCHANGED vars
      BY <2>4 DEF PressureChanges, Tick, vars, stageVars, Sequence!vars
    <2> QED
      BY <1>2, <2>1, <2>2, <2>3, <2>4, <2>5 DEF Next
  <1> QED
    BY <1>1, <1>2, StageInvariantHolds, PTL DEF Spec, SequenceSafety
============================================================================
