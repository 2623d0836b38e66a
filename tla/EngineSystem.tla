---------------------------- MODULE EngineSystem ----------------------------
(***************************************************************************)
(* Motor control from end to end: the web GUI's PUT lspeed request, which  *)
(* toy-be turns into a message on the POSIX queue /mq_be_to_sys; the       *)
(* engine thread of system_server, which takes the messages one by one and *)
(* runs the motor state machines (MotorStateMachine); their ioctl calls    *)
(* into the engine driver (EngineDriver); and beside them the commands m1  *)
(* and m2 of the input process, which call the driver directly, the        *)
(* emergency-stop button and insmod/rmmod.                                 *)
(*                                                                         *)
(* toy-be's handlers for the right motor and for halt (robots.go:100-106)  *)
(* answer 200 and send nothing, so every message names the left motor; the *)
(* GUI halts it with speed 0.                                              *)
(***************************************************************************)
EXTENDS EngineDriver, MotorStateMachine, Sequences

CONSTANTS
  QueueMax,      (* mq_maxmsg of the queue: NUM_MESSAGES = 100              *)
  EngineThread,  (* the caller of the driver that is the engine thread; the
                    other Callers are command threads of the input process  *)
  Reload         (* may the user reload the module while the program runs?  *)

ASSUME QueueAssumption == QueueMax \in Nat \ {0}
ASSUME ThreadAssumption == EngineThread \in Callers
ASSUME ReloadAssumption == Reload \in BOOLEAN
ASSUME LeftAssumption == LEFT \in Motors
ASSUME ClampAssumption == \A s \in Speeds : s > 100 => 100 \in Speeds

VARIABLES
  engine_queue,  (* messages sent and not yet received                      *)
  wanted         (* <<speed>> of the last message sent, <<>> before any: a
                    history variable                                        *)

vars == <<driverVars, machineVars, engine_queue, wanted>>

-----------------------------------------------------------------------------
Init ==
  /\ DriverInit
  /\ MachineInit
  /\ engine_queue = <<>>
  /\ wanted = <<>>

(* Mutant of SendEngineMessage: the send does not wait for room.           *)
SendEngineMessage_overfills(s) ==
  /\ engine_queue' = Append(engine_queue, [motor |-> LEFT, speed |-> s])
  /\ wanted' = <<s>>
  /\ UNCHANGED <<driverVars, machineVars>>

(* robotSetLeftSpeedHandler and SendEngineMessage: the request's speed goes *)
(* into the message unchecked; the send blocks while the queue is full.     *)
SendEngineMessage(s) ==
  /\ Len(engine_queue) < QueueMax
  /\ engine_queue' = Append(engine_queue, [motor |-> LEFT, speed |-> s])
  /\ wanted' = <<s>>
  /\ UNCHANGED <<driverVars, machineVars>>

(* Mutant of engine_thread: speed 0 is not treated as a halt.              *)
engine_thread_never_halts ==
  LET msg == Head(engine_queue) IN
  /\ engine_queue # <<>>
  /\ \A m \in Motors : phase[m] = "rest"
  /\ engine_queue' = Tail(engine_queue)
  /\ SetSpeed(msg.motor, msg.speed)
  /\ UNCHANGED <<driverVars, wanted>>

(* engine_thread: mq_receive, then halt_*_motor or set_*_motor_speed.      *)
engine_thread ==
  LET msg == Head(engine_queue) IN
  /\ engine_queue # <<>>
  /\ \A m \in Motors : phase[m] = "rest"
  /\ engine_queue' = Tail(engine_queue)
  /\ IF msg.speed = 0 THEN Halt(msg.motor) ELSE SetSpeed(msg.motor, msg.speed)
  /\ UNCHANGED <<driverVars, wanted>>

(* Where toy_ioctl goes for a command of a state function.                 *)
ioctlOf(call) ==
  CASE call = "START" -> "speed"
    [] call = "SET"   -> "set"
    [] OTHER          -> "cancel"

(* The engine thread runs a state function and enters the driver.  When    *)
(* the device cannot be opened the function prints an error and returns.   *)
engine_round(m) ==
  LET call == DriverCall(m, newState[m]) IN
  /\ StateEngine(m)
  /\ IF phase'[m] = "action" /\ call # "nothing" /\ deviceOpens
     THEN ioctl_enter(EngineThread, ioctlOf(call), m, eventData[m].speed)
     ELSE UNCHANGED driverVars
  /\ UNCHANGED <<engine_queue, wanted>>

(* The ioctl has returned and so does the state function.                  *)
engine_return(m) ==
  /\ ioPc[EngineThread] = "none"
  /\ EndRound(m)
  /\ UNCHANGED <<driverVars, engine_queue, wanted>>

(* toy_set_motor_N_speed of ui/input.c: its MOTOR_N_SET_SPEED has the      *)
(* number of the driver's MOTOR_N_START_SPEED.                             *)
toy_set_motor_speed(c, m, s) ==
  /\ c # EngineThread
  /\ ioctl_enter(c, "speed", m, IF s > 100 THEN 100 ELSE s)
  /\ UNCHANGED <<machineVars, engine_queue, wanted>>

driver ==
  /\ driverStep
  /\ UNCHANGED <<machineVars, engine_queue, wanted>>

reload ==
  /\ Reload
  /\ reloadStep
  /\ UNCHANGED <<machineVars, engine_queue, wanted>>

Next ==
  \/ \E s \in Speeds \cup {0} : kernelUp /\ SendEngineMessage(s)
  \/ kernelUp /\ engine_thread
  \/ \E m \in Motors : kernelUp /\ engine_round(m)
  \/ \E m \in Motors : kernelUp /\ engine_return(m)
  \/ \E c \in Callers, m \in Motors, s \in Speeds \cup {0} :
       kernelUp /\ toy_set_motor_speed(c, m, s)
  \/ driver
  \/ reload

Spec == Init /\ [][Next]_vars

(* The threads of the program and the handlers of the driver keep running; *)
(* GUI, command line, button, insmod and rmmod are the user's choice.      *)
restUnchanged == UNCHANGED <<machineVars, engine_queue, wanted>>

Fairness ==
  /\ WF_vars(kernelUp /\ engine_thread)
  /\ \A m \in Motors : WF_vars(kernelUp /\ engine_round(m))
  /\ \A m \in Motors : WF_vars(kernelUp /\ engine_return(m))
  /\ \A c \in Callers : WF_vars(ioctlStep(c) /\ restUnchanged)
  /\ \A m \in Motors : WF_vars(timerStep(m) /\ restUnchanged)
  /\ \A m \in Motors : WF_vars(isrStep(m) /\ restUnchanged)

FairSpec == Spec /\ Fairness

-----------------------------------------------------------------------------
TypeOK ==
  /\ DriverTypeOK
  /\ MachineTypeOK
  /\ engine_queue \in Seq([motor : {LEFT}, speed : Speeds \cup {0}])
  /\ Len(engine_queue) <= QueueMax
  /\ wanted \in {<<>>} \cup {<<s>> : s \in Speeds \cup {0}}

(* The engine thread has no message left and none in progress.             *)
Settled == engine_queue = <<>> /\ \A m \in Motors : phase[m] = "rest"

(* The last command wins: once the engine thread has caught up, the state  *)
(* machine and the driver both have the speed of the last GUI request, or  *)
(* the machine is idle if that request was a halt.  This needs the queue   *)
(* to keep its order, every message to be handled to its end before the    *)
(* next is taken, and each state to pick the ioctl that stores the speed   *)
(* (system_server.c:429-454, LeftMotor.cpp:79-139, engine.c:203-228).      *)
(* Stated for the program alone: m1/m2 and a module reload change the      *)
(* driver's speed behind the machine's back.                               *)
LastCommandWins ==
  Callers = {EngineThread} /\ ~Reload /\ Settled /\ wanted # <<>> =>
    IF wanted = <<0>>
    THEN currentState[LEFT] = "ST_IDLE"
    ELSE /\ currentState[LEFT] \in {"ST_START", "ST_CHANGE_SPEED"}
         /\ wanted = <<currentSpeed[LEFT]>>
         /\ wanted = <<motor_speed[LEFT]>>

(* A GUI request blocked on the full queue is released: the engine thread  *)
(* always gets back to mq_receive (system_server.c:430), through the state *)
(* machines and the driver.                                                *)
FullQueueDrains ==
  Len(engine_queue) = QueueMax ~> Len(engine_queue) < QueueMax

(* The engine thread is a legal user of the machines: every message of the *)
(* queue becomes one of their events, given to a machine at rest           *)
(* (system_server.c:429-454).                                              *)
ImplementsMachines == MachineSpec

-----------------------------------------------------------------------------
(* engine/README.md:81 says of the event Halt that it "stops the motor":   *)
(* when the state machine has gone through ST_STOP to ST_IDLE and its last *)
(* HALT ioctl has returned, the motor's timer is off.                      *)
HaltStopsMotor ==
  phase[LEFT] = "action" /\ currentState[LEFT] = "ST_IDLE"
    /\ ioPc[EngineThread] = "none"
  => ~hrtimer_active(LEFT)

(* README.md says of the engine driver that it "responds to the speed      *)
(* control of the web-based-ui motor": a speed message waiting for the     *)
(* engine thread leads to a motor that runs, unless the button is pressed  *)
(* again.                                                                  *)
SpeedMessageMovesMotor ==
  engine_queue # <<>> /\ Head(engine_queue).speed # 0 /\ ~isrRunning
  ~> hrtimer_active(LEFT) \/ isrRunning

=============================================================================
