----------------------- MODULE MotorStateMachineProofs -----------------------
(***************************************************************************)
(* The motor state machines never reach FaultHandler, free every event     *)
(* data object, and implement MotorControl, for any set of speeds.         *)
(***************************************************************************)
EXTENDS MotorStateMachine, TLAPS

(* What holds of machine m in each phase of an event.  At rest the machine *)
(* is never in ST_STOP, so CANNOT_HAPPEN is never looked up; in the loop   *)
(* of StateEngine the pending event has data of the type its state         *)
(* declares; inside a state function the only pending event is the one     *)
(* ST_STOP generates.                                                      *)
AtRest(m) ==
  phase[m] = "rest" =>
    /\ ~eventGenerated[m]
    /\ eventData[m] = NULL
    /\ dataTemp[m] = NULL
    /\ liveData[m] = 0
    /\ currentState[m] # "ST_STOP"

InEngine(m) ==
  phase[m] = "engine" =>
    /\ eventGenerated[m]
    /\ newState[m] \in States
    /\ eventData[m].kind \in StateData[newState[m]]
    /\ dataTemp[m] = NULL
    /\ liveData[m] = 1
    /\ newState[m] = "ST_START" => currentState[m] = "ST_IDLE"
    /\ newState[m] \in {"ST_CHANGE_SPEED", "ST_STOP"} =>
         currentState[m] \in {"ST_START", "ST_CHANGE_SPEED"}
    /\ newState[m] = "ST_IDLE" => currentState[m] = "ST_STOP"

InAction(m) ==
  phase[m] = "action" =>
    /\ dataTemp[m] # NULL
    /\ IF eventGenerated[m]
       THEN /\ newState[m] = "ST_IDLE"
            /\ eventData[m] = NoEventData
            /\ liveData[m] = 2
            /\ currentState[m] = "ST_STOP"
       ELSE /\ eventData[m] = NULL
            /\ liveData[m] = 1
            /\ currentState[m] # "ST_STOP"

Stopped(m) ==
  currentState[m] = "ST_STOP" => told[m] = "HALT" /\ currentSpeed[m] = 0

MachineInv ==
  /\ MachineTypeOK
  /\ \A m \in Motors :
       phase[m] # "fault" /\ AtRest(m) /\ InEngine(m) /\ InAction(m) /\ Stopped(m)

LEMMA MachineInitInv == MachineInit => MachineInv
  BY DEF MachineInit, MachineInv, MachineTypeOK, AtRest, InEngine, InAction,
         Stopped, States, NoState, EventData

(* The only members of EventData other than NULL carry one of the two      *)
(* kinds, and only MotorData carries a speed.                              *)
LEMMA EventDataKinds ==
  /\ NULL \in EventData /\ NoEventData \in EventData
  /\ \A s \in Speeds : MotorData(s) \in EventData
  /\ \A d \in EventData : d.kind = "NoEventData" => d = NoEventData
  /\ \A d \in EventData : d.kind = "MotorData" =>
       d # NULL /\ d.speed \in Speeds
  /\ NoEventData # NULL
  /\ \A s \in Speeds : MotorData(s) # NULL /\ MotorData(s).kind = "MotorData"
                        /\ MotorData(s).speed = s
  /\ NoEventData.kind = "NoEventData"
  <1>1. /\ NULL \in EventData /\ NoEventData \in EventData
        /\ \A s \in Speeds : MotorData(s) \in EventData
    BY DEF EventData
  <1>2. /\ NULL.kind = "NULL" /\ NoEventData.kind = "NoEventData"
        /\ \A s \in Speeds : MotorData(s).kind = "MotorData" /\ MotorData(s).speed = s
    BY DEF NULL, NoEventData, MotorData
  <1>3. \A d \in EventData :
          d = NULL \/ d = NoEventData \/ \E s \in Speeds : d = MotorData(s)
    BY DEF EventData
  <1>4. QED BY <1>1, <1>2, <1>3

LEMMA SetSpeedInv ==
  ASSUME MachineInv, NEW m \in Motors, NEW s \in Speeds, SetSpeed(m, s)
  PROVE  MachineInv'
  <1> DEFINE target == SetSpeedMap[currentState[m]]
  <1>1. phase[m] = "rest" /\ currentState[m] \in States \ {"ST_STOP"}
    BY DEF SetSpeed, MachineInv, MachineTypeOK, AtRest
  <1>2. /\ target \in {"ST_START", "ST_CHANGE_SPEED"}
        /\ target = "ST_START" => currentState[m] = "ST_IDLE"
        /\ target = "ST_CHANGE_SPEED" => currentState[m] \in {"ST_START", "ST_CHANGE_SPEED"}
    BY <1>1 DEF SetSpeedMap, States
  <1>3. /\ phase' = [phase EXCEPT ![m] = "engine"]
        /\ newState' = [newState EXCEPT ![m] = target]
        /\ eventGenerated' = [eventGenerated EXCEPT ![m] = TRUE]
        /\ eventData' = [eventData EXCEPT ![m] = MotorData(s)]
        /\ liveData' = [liveData EXCEPT ![m] = liveData[m] + 1]
        /\ UNCHANGED <<currentState, dataTemp, currentSpeed, told>>
    BY <1>2, EventDataKinds DEF SetSpeed, ExternalEvent
  <1> HIDE DEF target
  <1>4. MachineTypeOK'
    BY <1>2, <1>3, EventDataKinds DEF MachineInv, MachineTypeOK, States
  <1>5. ASSUME NEW k \in Motors
        PROVE  (phase[k] # "fault" /\ AtRest(k) /\ InEngine(k) /\ InAction(k) /\ Stopped(k))'
    <2>1. CASE k = m
      BY <1>1, <1>2, <1>3, <2>1, EventDataKinds
      DEF MachineInv, MachineTypeOK, AtRest, InEngine, InAction, Stopped, StateData, States
    <2>2. CASE k # m
      BY <1>3, <2>2 DEF MachineInv, MachineTypeOK, AtRest, InEngine, InAction, Stopped
    <2>3. QED BY <2>1, <2>2
  <1>6. QED BY <1>4, <1>5 DEF MachineInv

LEMMA HaltInv ==
  ASSUME MachineInv, NEW m \in Motors, Halt(m)
  PROVE  MachineInv'
  <1>1. phase[m] = "rest" /\ currentState[m] \in States \ {"ST_STOP"}
    BY DEF Halt, MachineInv, MachineTypeOK, AtRest
  <1>2. CASE currentState[m] = "ST_IDLE"
    <2>1. UNCHANGED machineVars
      BY <1>2 DEF Halt, ExternalEvent, HaltMap, machineVars
    <2>2. QED
      BY <2>1 DEF MachineInv, MachineTypeOK, AtRest, InEngine, InAction, Stopped, machineVars
  <1>3. CASE currentState[m] # "ST_IDLE"
    <2>1. HaltMap[currentState[m]] = "ST_STOP" /\ currentState[m] \in {"ST_START", "ST_CHANGE_SPEED"}
      BY <1>1, <1>3 DEF HaltMap, States
    <2>2. /\ phase' = [phase EXCEPT ![m] = "engine"]
          /\ newState' = [newState EXCEPT ![m] = "ST_STOP"]
          /\ eventGenerated' = [eventGenerated EXCEPT ![m] = TRUE]
          /\ eventData' = [eventData EXCEPT ![m] = NoEventData]
          /\ liveData' = [liveData EXCEPT ![m] = liveData[m] + 1]
          /\ UNCHANGED <<currentState, dataTemp, currentSpeed, told>>
      BY <2>1 DEF Halt, ExternalEvent
    <2>3. MachineTypeOK'
      BY <2>2, EventDataKinds DEF MachineInv, MachineTypeOK, States
    <2>4. ASSUME NEW k \in Motors
          PROVE  (phase[k] # "fault" /\ AtRest(k) /\ InEngine(k) /\ InAction(k) /\ Stopped(k))'
      <3>1. CASE k = m
        BY <1>1, <2>1, <2>2, <3>1, EventDataKinds
        DEF MachineInv, MachineTypeOK, AtRest, InEngine, InAction, Stopped, StateData, States
      <3>2. CASE k # m
        BY <2>2, <3>2 DEF MachineInv, MachineTypeOK, AtRest, InEngine, InAction, Stopped
      <3>3. QED BY <3>1, <3>2
    <2>5. QED BY <2>3, <2>4 DEF MachineInv
  <1>4. QED BY <1>2, <1>3

LEMMA StateEngineInv ==
  ASSUME MachineInv, NEW m \in Motors, StateEngine(m)
  PROVE  MachineInv'
  <1> DEFINE st == newState[m]
             data == eventData[m]
  <1>1. /\ phase[m] = "engine" /\ eventGenerated[m] /\ st \in States
        /\ data \in EventData /\ data.kind \in StateData[st]
        /\ dataTemp[m] = NULL /\ liveData[m] = 1
    BY DEF StateEngine, MachineInv, MachineTypeOK, InEngine
  <1>2. /\ currentState' = [currentState EXCEPT ![m] = st]
        /\ dataTemp' = [dataTemp EXCEPT ![m] = data]
        /\ StateFunction(m, st, data)
        /\ phase' = [phase EXCEPT ![m] = "action"]
    <2>1. newState[m] \in States /\ eventData[m].kind \in StateData[newState[m]]
      BY <1>1
    <2>2. QED BY <2>1, Zenon DEF StateEngine
  <1> HIDE DEF st, data
  <1>3. data # NULL /\ (st \in {"ST_START", "ST_CHANGE_SPEED"} => data.speed \in Int)
    <2>1. data # NULL
      BY <1>1, EventDataKinds DEF StateData, States
    <2>2. st \in {"ST_START", "ST_CHANGE_SPEED"} => data.kind = "MotorData"
      BY <1>1 DEF StateData
    <2>3. data.kind = "MotorData" => data.speed \in Speeds
      BY <1>1, EventDataKinds
    <2>4. Speeds \subseteq Int
      BY SpeedsAssumption
    <2>5. QED BY <2>1, <2>2, <2>3, <2>4
  <1>4. DriverCall(m, st) \in {"nothing", "START", "SET", "HALT"}
        /\ (st = "ST_STOP" => DriverCall(m, st) = "HALT")
    BY <1>1 DEF DriverCall, States
  <1>5. /\ currentSpeed' \in [Motors -> Int]
        /\ st = "ST_STOP" => currentSpeed'[m] = 0
        /\ \A k \in Motors : k # m => currentSpeed'[k] = currentSpeed[k]
    BY <1>1, <1>2, <1>3 DEF StateFunction, MachineInv, MachineTypeOK, States
  <1>6. /\ told' \in [Motors -> {"nothing", "START", "SET", "HALT"}]
        /\ st = "ST_STOP" => told'[m] = "HALT"
        /\ \A k \in Motors : k # m => told'[k] = told[k]
    BY <1>2, <1>4 DEF StateFunction, MachineInv, MachineTypeOK
  <1>7. CASE st = "ST_STOP"
    <2>1. /\ newState' = [newState EXCEPT ![m] = "ST_IDLE"]
          /\ eventGenerated' = [eventGenerated EXCEPT ![m] = TRUE]
          /\ eventData' = [eventData EXCEPT ![m] = NoEventData]
          /\ liveData' = [liveData EXCEPT ![m] = liveData[m] + 1]
      BY <1>2, <1>7 DEF StateFunction
    <2>2. MachineTypeOK'
      BY <1>1, <1>2, <1>5, <1>6, <2>1, EventDataKinds DEF MachineInv, MachineTypeOK, States
    <2>3. ASSUME NEW k \in Motors
          PROVE  (phase[k] # "fault" /\ AtRest(k) /\ InEngine(k) /\ InAction(k) /\ Stopped(k))'
      <3>1. CASE k = m
        BY <1>1, <1>2, <1>3, <1>5, <1>6, <1>7, <2>1, <3>1
        DEF MachineInv, MachineTypeOK, AtRest, InEngine, InAction, Stopped
      <3>2. CASE k # m
        BY <1>2, <1>5, <1>6, <2>1, <3>2
        DEF MachineInv, MachineTypeOK, AtRest, InEngine, InAction, Stopped
      <3>3. QED BY <3>1, <3>2
    <2>4. QED BY <2>2, <2>3 DEF MachineInv
  <1>8. CASE st # "ST_STOP"
    <2>1. /\ UNCHANGED <<newState, liveData>>
          /\ eventGenerated' = [eventGenerated EXCEPT ![m] = FALSE]
          /\ eventData' = [eventData EXCEPT ![m] = NULL]
      BY <1>2, <1>8 DEF StateFunction
    <2>2. MachineTypeOK'
      BY <1>1, <1>2, <1>5, <1>6, <2>1, EventDataKinds DEF MachineInv, MachineTypeOK, States
    <2>3. ASSUME NEW k \in Motors
          PROVE  (phase[k] # "fault" /\ AtRest(k) /\ InEngine(k) /\ InAction(k) /\ Stopped(k))'
      <3>1. CASE k = m
        BY <1>1, <1>2, <1>3, <1>5, <1>6, <1>8, <2>1, <3>1
        DEF MachineInv, MachineTypeOK, AtRest, InEngine, InAction, Stopped
      <3>2. CASE k # m
        BY <1>2, <1>5, <1>6, <2>1, <3>2
        DEF MachineInv, MachineTypeOK, AtRest, InEngine, InAction, Stopped
      <3>3. QED BY <3>1, <3>2
    <2>4. QED BY <2>2, <2>3 DEF MachineInv
  <1>9. QED BY <1>7, <1>8

LEMMA EndRoundInv ==
  ASSUME MachineInv, NEW m \in Motors, EndRound(m)
  PROVE  MachineInv'
  <1>1. MachineTypeOK'
    BY EventDataKinds DEF EndRound, MachineInv, MachineTypeOK
  <1>2. ASSUME NEW k \in Motors
        PROVE  (phase[k] # "fault" /\ AtRest(k) /\ InEngine(k) /\ InAction(k) /\ Stopped(k))'
    <2>1. CASE k = m
      BY <2>1, EventDataKinds
      DEF EndRound, MachineInv, MachineTypeOK, AtRest, InEngine, InAction, Stopped,
          StateData, States
    <2>2. CASE k # m
      BY <2>2 DEF EndRound, MachineInv, MachineTypeOK, AtRest, InEngine, InAction, Stopped
    <2>3. QED BY <2>1, <2>2
  <1>3. QED BY <1>1, <1>2 DEF MachineInv

(* One step of a machine, or of nothing, keeps the invariant.              *)
LEMMA MachineStepInv == MachineInv /\ [MachineNext]_machineVars => MachineInv'
  <1> SUFFICES ASSUME MachineInv, [MachineNext]_machineVars PROVE MachineInv'
    OBVIOUS
  <1>1. CASE MachineNext
    BY <1>1, SetSpeedInv, HaltInv, StateEngineInv, EndRoundInv
    DEF MachineNext, MachineStep
  <1>2. CASE UNCHANGED machineVars
    BY <1>2 DEF machineVars, MachineInv, MachineTypeOK, AtRest, InEngine, InAction, Stopped
  <1>3. QED BY <1>1, <1>2

(* The invariant of the machines, phase by phase.                          *)
THEOREM MachineInvariant == MachineSpec => []MachineInv
  BY MachineInitInv, MachineStepInv, PTL DEF MachineSpec

(* Type correctness of the two state machines.                             *)
THEOREM MachineTypeCorrect == MachineSpec => []MachineTypeOK
  <1>1. MachineInv => MachineTypeOK BY DEF MachineInv
  <1>2. QED BY <1>1, MachineInvariant, PTL

(* FaultHandler is never reached: no CANNOT_HAPPEN, no data of the wrong   *)
(* type, whatever the speeds and however many events (Fault.cpp:11-22).    *)
THEOREM MachinesNeverFault == MachineSpec => []NeverFaults
  <1>1. MachineInv => NeverFaults BY DEF MachineInv, NeverFaults
  <1>2. QED BY <1>1, MachineInvariant, PTL

(* Event data is neither leaked nor deleted twice.                         *)
THEOREM EventDataIsFreed == MachineSpec => []EventDataFreed
  <1>1. ASSUME MachineInv, NEW m \in Motors, phase[m] # "fault"
        PROVE  /\ liveData[m] = (IF eventData[m] # NULL THEN 1 ELSE 0)
                                  + (IF dataTemp[m] # NULL THEN 1 ELSE 0)
               /\ phase[m] = "rest" => liveData[m] = 0
    <2>1. CASE phase[m] = "rest"
      BY <1>1, <2>1 DEF MachineInv, AtRest
    <2>2. CASE phase[m] = "engine"
      <3>1. eventData[m] # NULL
        BY <1>1, <2>2 DEF MachineInv, InEngine, StateData, States, NULL
      <3>2. QED BY <1>1, <2>2, <3>1 DEF MachineInv, InEngine
    <2>3. CASE phase[m] = "action"
      BY <1>1, <2>3, EventDataKinds DEF MachineInv, InAction
    <2>4. QED BY <1>1, <2>1, <2>2, <2>3 DEF MachineInv, MachineTypeOK
  <1>2. MachineInv => EventDataFreed BY <1>1 DEF EventDataFreed
  <1>3. QED BY <1>2, MachineInvariant, PTL

-----------------------------------------------------------------------------
(* The refinement: the step that switches to ST_START or ST_CHANGE_SPEED   *)
(* is MotorControl's SetSpeed, the one that switches to ST_STOP is its     *)
(* Halt, and everything else leaves its variables alone.                   *)
Moving == {"ST_START", "ST_CHANGE_SPEED"}

LEMMA StateEngineRefines ==
  ASSUME MachineInv, NEW m \in Motors, StateEngine(m)
  PROVE  Control!Next \/ UNCHANGED Control!vars
  <1> DEFINE st == newState[m]
             data == eventData[m]
             Mode(f) == [k \in Motors |-> IF f[k] \in Moving THEN "running" ELSE "idle"]
  <1>1. /\ st \in States
        /\ data \in EventData /\ data.kind \in StateData[st]
        /\ st = "ST_START" => currentState[m] = "ST_IDLE"
        /\ st \in {"ST_CHANGE_SPEED", "ST_STOP"} => currentState[m] \in Moving
        /\ st = "ST_IDLE" =>
             currentState[m] = "ST_STOP" /\ told[m] = "HALT" /\ currentSpeed[m] = 0
    BY DEF StateEngine, MachineInv, MachineTypeOK, InEngine, Stopped, Moving
  <1>2. /\ currentState' = [currentState EXCEPT ![m] = st]
        /\ StateFunction(m, st, data)
    BY <1>1 DEF StateEngine
  <1>3. /\ currentState \in [Motors -> States]
        /\ currentSpeed \in [Motors -> Int]
        /\ told \in [Motors -> {"nothing", "START", "SET", "HALT"}]
    BY DEF MachineInv, MachineTypeOK
  <1> HIDE DEF st, data
  <1>4. CASE st \in Moving
    <2>1. data.speed \in Speeds
      BY <1>1, <1>4, EventDataKinds DEF StateData, Moving
    <2>2. currentSpeed' = [currentSpeed EXCEPT ![m] = data.speed]
      BY <1>2, <1>4 DEF StateFunction, Moving
    <2>3. told' = [told EXCEPT ![m] =
                     IF currentState[m] \in Moving THEN "SET" ELSE "START"]
      BY <1>1, <1>2, <1>4 DEF StateFunction, DriverCall, Moving
    <2>4. Mode(currentState') = [Mode(currentState) EXCEPT ![m] = "running"]
      BY <1>2, <1>3, <1>4
    <2>5. PICK s \in Speeds : s = data.speed
      BY <2>1
    <2>6. Control!SetSpeed(m, s)
      BY <2>2, <2>3, <2>4, <2>5 DEF Control!SetSpeed, Moving
    <2>7. QED BY <2>6 DEF Control!Next
  <1>5. CASE st = "ST_STOP"
    <2>1. currentSpeed' = [currentSpeed EXCEPT ![m] = 0]
      BY <1>2, <1>5 DEF StateFunction
    <2>2. told' = [told EXCEPT ![m] = "HALT"]
      BY <1>2, <1>5 DEF StateFunction, DriverCall
    <2>3. Mode(currentState') = [Mode(currentState) EXCEPT ![m] = "idle"]
      BY <1>2, <1>3, <1>5 DEF Moving
    <2>4. Control!Halt(m)
      BY <1>1, <1>5, <2>1, <2>2, <2>3 DEF Control!Halt, Moving
    <2>5. QED BY <2>4 DEF Control!Next
  <1>6. CASE st = "ST_IDLE"
    <2>1. currentSpeed' = currentSpeed
      BY <1>1, <1>2, <1>3, <1>6 DEF StateFunction
    <2>2. told' = told
      BY <1>1, <1>2, <1>3, <1>6 DEF StateFunction, DriverCall
    <2>3. Mode(currentState') = Mode(currentState)
      BY <1>1, <1>2, <1>3, <1>6 DEF Moving
    <2>4. QED BY <2>1, <2>2, <2>3 DEF Control!vars, Moving
  <1>7. QED BY <1>1, <1>4, <1>5, <1>6 DEF States, Moving

(* The state machines implement the contract their clients rely on:        *)
(* START only from rest, SET only when moving, HALT to come to rest, and   *)
(* the speed last asked for (LeftMotor.cpp:77-139, RightMotor.cpp:76-131). *)
THEOREM MachinesImplementControl == MachineSpec => ImplementsMotorControl
  <1>1. MachineInit => Control!Init
    BY DEF MachineInit, Control!Init
  <1>2. MachineInv /\ [MachineNext]_machineVars => [Control!Next]_(Control!vars)
    <2> SUFFICES ASSUME MachineInv, [MachineNext]_machineVars
                 PROVE  Control!Next \/ UNCHANGED Control!vars
      OBVIOUS
    <2>1. ASSUME NEW m \in Motors, NEW s \in Speeds, SetSpeed(m, s)
          PROVE  UNCHANGED Control!vars
      BY <2>1 DEF SetSpeed, ExternalEvent, Control!vars
    <2>2. ASSUME NEW m \in Motors, Halt(m)
          PROVE  UNCHANGED Control!vars
      BY <2>2 DEF Halt, ExternalEvent, Control!vars
    <2>3. ASSUME NEW m \in Motors, EndRound(m)
          PROVE  UNCHANGED Control!vars
      BY <2>3 DEF EndRound, Control!vars
    <2>4. ASSUME UNCHANGED machineVars
          PROVE  UNCHANGED Control!vars
      BY <2>4 DEF machineVars, Control!vars
    <2>5. QED
      BY <2>1, <2>2, <2>3, <2>4, StateEngineRefines DEF MachineNext, MachineStep
  <1>3. QED
    BY <1>1, <1>2, MachineInvariant, PTL
    DEF MachineSpec, ImplementsMotorControl, Control!Spec

=============================================================================
