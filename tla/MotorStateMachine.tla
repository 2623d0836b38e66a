------------------------- MODULE MotorStateMachine -------------------------
(***************************************************************************)
(* engine/StateMachine.cpp (the state machine framework) with the two      *)
(* machines built on it, engine/LeftMotor.cpp and engine/RightMotor.cpp,   *)
(* and their C entry points in engine/Engine.cpp.                          *)
(*                                                                         *)
(* A machine keeps its current state, the event it has generated and not   *)
(* yet executed (m_eventGenerated, m_newState, m_pEventData) and the event *)
(* data it is executing with (pDataTemp).  Event data is allocated by the  *)
(* caller or by InternalEvent and freed by the framework; liveData counts  *)
(* the objects that are allocated.  A failed ASSERT_TRUE loops forever in  *)
(* FaultHandler (engine/Fault.cpp): phase "fault".                         *)
(*                                                                         *)
(* A state function tells the driver something through an ioctl; the ioctl *)
(* itself belongs to EngineDriver, here `told' records it.                 *)
(***************************************************************************)
EXTENDS EngineParams

VARIABLES
  phase,           (* "rest": no event in progress; "engine": in the loop of
                      StateEngine; "action": inside a state function, past
                      its assignments; "fault": in FaultHandler            *)
  currentState,    (* m_currentState                                       *)
  newState,        (* m_newState                                           *)
  eventGenerated,  (* m_eventGenerated                                     *)
  eventData,       (* m_pEventData                                         *)
  dataTemp,        (* pDataTemp of StateEngine                             *)
  liveData,        (* EventData objects allocated and not deleted          *)
  currentSpeed,    (* m_currentSpeed                                       *)
  told             (* last ioctl command issued: a history variable        *)

machineVars == <<phase, currentState, newState, eventGenerated, eventData,
                 dataTemp, liveData, currentSpeed, told>>

States == {"ST_IDLE", "ST_STOP", "ST_START", "ST_CHANGE_SPEED"}
NoState == {"EVENT_IGNORED", "CANNOT_HAPPEN"}

NULL == [kind |-> "NULL", speed |-> 0]
NoEventData == [kind |-> "NoEventData", speed |-> 0]
MotorData(s) == [kind |-> "MotorData", speed |-> s]
EventData == {NULL, NoEventData} \cup {MotorData(s) : s \in Speeds}

(* Mutants of SetSpeedMap: a second speed starts the motor again, or is    *)
(* ignored.                                                                *)
SetSpeedMap_restarts ==
  [ST_IDLE |-> "ST_START", ST_STOP |-> "CANNOT_HAPPEN",
   ST_START |-> "ST_START", ST_CHANGE_SPEED |-> "ST_CHANGE_SPEED"]

SetSpeedMap_ignores ==
  [ST_IDLE |-> "ST_START", ST_STOP |-> "CANNOT_HAPPEN",
   ST_START |-> "ST_CHANGE_SPEED", ST_CHANGE_SPEED |-> "EVENT_IGNORED"]

(* The transition maps of SetSpeed and Halt, the same for both machines.   *)
SetSpeedMap ==
  [ST_IDLE |-> "ST_START", ST_STOP |-> "CANNOT_HAPPEN",
   ST_START |-> "ST_CHANGE_SPEED", ST_CHANGE_SPEED |-> "ST_CHANGE_SPEED"]

HaltMap ==
  [ST_IDLE |-> "EVENT_IGNORED", ST_STOP |-> "CANNOT_HAPPEN",
   ST_START |-> "ST_STOP", ST_CHANGE_SPEED |-> "ST_STOP"]

(* STATE_DECLARE: the event data each state function accepts.  NoEventData *)
(* is another name of the base class EventData, so that the dynamic_cast   *)
(* to it succeeds for MotorData too.                                       *)
StateData ==
  [ST_IDLE |-> {"NoEventData", "MotorData"},
   ST_STOP |-> {"NoEventData", "MotorData"},
   ST_START |-> {"MotorData"}, ST_CHANGE_SPEED |-> {"MotorData"}]

(* The ioctl a state function makes: StartMotorSpeed, SetMotorSpeed or     *)
(* HaltMotor.  RightMotor::ST_Idle makes none.                             *)
DriverCall(m, st) ==
  CASE st = "ST_START"        -> "START"
    [] st = "ST_CHANGE_SPEED" -> "SET"
    [] st = "ST_STOP"         -> "HALT"
    [] st = "ST_IDLE"         -> IF m = LEFT THEN "HALT" ELSE "nothing"

-----------------------------------------------------------------------------
(* The constructors: ST_IDLE is state 0, no state function has run.        *)
MachineInit ==
  /\ phase = [m \in Motors |-> "rest"]
  /\ currentState = [m \in Motors |-> "ST_IDLE"]
  /\ newState = [m \in Motors |-> "ST_IDLE"]
  /\ eventGenerated = [m \in Motors |-> FALSE]
  /\ eventData = [m \in Motors |-> NULL]
  /\ dataTemp = [m \in Motors |-> NULL]
  /\ liveData = [m \in Motors |-> 0]
  /\ currentSpeed = [m \in Motors |-> 0]
  /\ told = [m \in Motors |-> "nothing"]

(* ExternalEvent: an ignored event deletes its data and changes nothing    *)
(* else; any other one is generated (InternalEvent allocates NoEventData   *)
(* for a NULL pointer) and StateEngine starts.                             *)
ExternalEvent(m, target, data) ==
  /\ IF target = "EVENT_IGNORED"
     THEN UNCHANGED <<phase, newState, eventGenerated, eventData, liveData>>
     ELSE /\ phase' = [phase EXCEPT ![m] = "engine"]
          /\ newState' = [newState EXCEPT ![m] = target]
          /\ eventGenerated' = [eventGenerated EXCEPT ![m] = TRUE]
          /\ eventData' = [eventData EXCEPT ![m] =
                             IF data = NULL THEN NoEventData ELSE data]
          /\ liveData' = [liveData EXCEPT ![m] = @ + 1]
  /\ UNCHANGED <<currentState, dataTemp, currentSpeed, told>>

(* Mutant of SetSpeed: the speed is one too high.                          *)
SetSpeed_off_by_one(m, s) ==
  /\ phase[m] = "rest"
  /\ ExternalEvent(m, SetSpeedMap[currentState[m]], MotorData(s + 1))

(* set_left_motor_speed, set_right_motor_speed and SetSpeed.               *)
SetSpeed(m, s) ==
  /\ phase[m] = "rest"
  /\ ExternalEvent(m, SetSpeedMap[currentState[m]], MotorData(s))

(* halt_left_motor, halt_right_motor and Halt.                             *)
Halt(m) ==
  /\ phase[m] = "rest"
  /\ ExternalEvent(m, HaltMap[currentState[m]], NULL)

(* Mutants of StateFunction: ST_Stop does not generate ST_IDLE, or         *)
(* generates ST_STOP.                                                      *)
StateFunction_stays(m, st, data) ==
  /\ currentSpeed' = [currentSpeed EXCEPT ![m] = data.speed]
  /\ told' = [told EXCEPT ![m] =
       IF DriverCall(m, st) = "nothing" THEN @ ELSE DriverCall(m, st)]
  /\ eventGenerated' = [eventGenerated EXCEPT ![m] = FALSE]
  /\ eventData' = [eventData EXCEPT ![m] = NULL]
  /\ UNCHANGED <<newState, liveData>>

StateFunction_repeats(m, st, data) ==
  /\ currentSpeed' = [currentSpeed EXCEPT ![m] = data.speed]
  /\ told' = [told EXCEPT ![m] =
       IF DriverCall(m, st) = "nothing" THEN @ ELSE DriverCall(m, st)]
  /\ eventGenerated' = [eventGenerated EXCEPT ![m] = st = "ST_STOP"]
  /\ eventData' = [eventData EXCEPT ![m] =
                     IF st = "ST_STOP" THEN NoEventData ELSE NULL]
  /\ liveData' = [liveData EXCEPT ![m] = IF st = "ST_STOP" THEN @ + 1 ELSE @]
  /\ UNCHANGED newState

(* The state functions ST_Idle, ST_Stop, ST_Start and ST_ChangeSpeed, up   *)
(* to their ioctl.  ST_Stop generates ST_IDLE before it calls HaltMotor.   *)
(* RightMotor::ST_Idle leaves m_currentSpeed alone.                        *)
StateFunction(m, st, data) ==
  /\ currentSpeed' = [currentSpeed EXCEPT ![m] =
       CASE st \in {"ST_START", "ST_CHANGE_SPEED"} -> data.speed
         [] st = "ST_IDLE" /\ m = RIGHT            -> @
         [] OTHER                                  -> 0]
  /\ told' = [told EXCEPT ![m] =
       IF DriverCall(m, st) = "nothing" THEN @ ELSE DriverCall(m, st)]
  /\ IF st = "ST_STOP"
     THEN /\ newState' = [newState EXCEPT ![m] = "ST_IDLE"]
          /\ eventGenerated' = [eventGenerated EXCEPT ![m] = TRUE]
          /\ eventData' = [eventData EXCEPT ![m] = NoEventData]
          /\ liveData' = [liveData EXCEPT ![m] = @ + 1]
     ELSE /\ eventGenerated' = [eventGenerated EXCEPT ![m] = FALSE]
          /\ eventData' = [eventData EXCEPT ![m] = NULL]
          /\ UNCHANGED <<newState, liveData>>

(* FaultHandler: while(1).                                                 *)
FaultHandler(m) ==
  /\ phase' = [phase EXCEPT ![m] = "fault"]
  /\ UNCHANGED <<newState, eventGenerated, eventData, liveData, currentSpeed,
                 told>>

(* One round of StateEngine: assert that the new state exists, take the    *)
(* event, switch state, invoke the state function, which asserts that the  *)
(* data has the type it declared.                                          *)
StateEngine(m) ==
  LET st == newState[m]
      data == eventData[m]
  IN
  /\ phase[m] = "engine"
  /\ eventGenerated[m]
  /\ IF st \in States
     THEN /\ currentState' = [currentState EXCEPT ![m] = st]
          /\ dataTemp' = [dataTemp EXCEPT ![m] = data]
          /\ IF data.kind \in StateData[st]
             THEN /\ StateFunction(m, st, data)
                  /\ phase' = [phase EXCEPT ![m] = "action"]
             ELSE FaultHandler(m)
     ELSE /\ FaultHandler(m)
          /\ UNCHANGED <<currentState, dataTemp>>

(* Mutant of EndRound: pDataTemp is not deleted.                           *)
EndRound_leaks(m) ==
  /\ phase[m] = "action"
  /\ dataTemp' = [dataTemp EXCEPT ![m] = NULL]
  /\ phase' = [phase EXCEPT ![m] = IF eventGenerated[m] THEN "engine" ELSE "rest"]
  /\ UNCHANGED <<currentState, newState, eventGenerated, eventData, liveData,
                 currentSpeed, told>>

(* The state function returns: delete pDataTemp, then test the loop's      *)
(* condition.                                                              *)
EndRound(m) ==
  /\ phase[m] = "action"
  /\ dataTemp' = [dataTemp EXCEPT ![m] = NULL]
  /\ liveData' = [liveData EXCEPT ![m] = @ - 1]
  /\ phase' = [phase EXCEPT ![m] = IF eventGenerated[m] THEN "engine" ELSE "rest"]
  /\ UNCHANGED <<currentState, newState, eventGenerated, eventData,
                 currentSpeed, told>>

MachineStep(m) == StateEngine(m) \/ EndRound(m)

MachineNext ==
  \E m \in Motors :
    \/ \E s \in Speeds : SetSpeed(m, s)
    \/ Halt(m)
    \/ MachineStep(m)

MachineSpec == MachineInit /\ [][MachineNext]_machineVars

-----------------------------------------------------------------------------
MachineTypeOK ==
  /\ phase \in [Motors -> {"rest", "engine", "action", "fault"}]
  /\ currentState \in [Motors -> States]
  /\ newState \in [Motors -> States \cup NoState]
  /\ eventGenerated \in [Motors -> BOOLEAN]
  /\ eventData \in [Motors -> EventData]
  /\ dataTemp \in [Motors -> EventData]
  /\ liveData \in [Motors -> Int]
  /\ currentSpeed \in [Motors -> Int]
  /\ told \in [Motors -> {"nothing", "START", "SET", "HALT"}]

(* No sequence of SetSpeed and Halt reaches FaultHandler: the entries      *)
(* CANNOT_HAPPEN of the transition maps (LeftMotor.cpp:81,92) cannot       *)
(* happen, because ST_STOP always moves on to ST_IDLE before the event     *)
(* ends, and no state function that reads a speed is given data without    *)
(* one (StateMachine.h:67), whether the data came from the client or was   *)
(* allocated by InternalEvent.                                             *)
NeverFaults == \A m \in Motors : phase[m] # "fault"

(* Event data is deleted exactly once (StateMachine.cpp:28,131-135): the   *)
(* objects allocated are those a pointer of the machine still refers to,   *)
(* and none is left once the event is done.                                *)
EventDataFreed ==
  \A m \in Motors :
    phase[m] # "fault" =>
      /\ liveData[m] = (IF eventData[m] # NULL THEN 1 ELSE 0)
                         + (IF dataTemp[m] # NULL THEN 1 ELSE 0)
      /\ phase[m] = "rest" => liveData[m] = 0

(* The machines implement MotorControl: a motor is running in ST_START and *)
(* ST_CHANGE_SPEED, at rest in ST_IDLE and ST_STOP.                        *)
Control == INSTANCE MotorControl WITH
  mode  <- [m \in Motors |-> IF currentState[m] \in {"ST_START", "ST_CHANGE_SPEED"}
                             THEN "running" ELSE "idle"],
  speed <- currentSpeed

ImplementsMotorControl == Control!Spec

(* Every event comes to an end: StateEngine leaves its loop                *)
(* (StateMachine.cpp:97), so the engine thread gets back to its queue.     *)
EventsEnd == \A m \in Motors : phase[m] # "rest" ~> phase[m] = "rest"

FairMachineSpec == MachineSpec /\ \A m \in Motors : WF_machineVars(MachineStep(m))

=============================================================================
