------------------------- MODULE EngineSystemProofs -------------------------
(***************************************************************************)
(* Motor control from end to end, for any speeds, any length of the queue  *)
(* and any number of callers of the driver: the composition lets each      *)
(* component do only what it does alone, so what is proved of the driver   *)
(* and of the state machines holds of the whole; and the last command of   *)
(* the GUI wins.                                                           *)
(***************************************************************************)
EXTENDS EngineSystem, EngineDriverProofs, MotorStateMachineProofs,
        SequenceTheorems

HIDE DEF kernelUp, deviceOpens, hrtimer_active, isrRunning,
         leftOffPending, rightOffPending,
         modVars, timerVars, motorVars, ledVars, isrVars, ioVars,
         DriverInv, DriverTypeOK, UnreadyIdle, StartReady, ClosedIdle, IsrLoaded,
         LoadOrder, IsrOrder, LitIsPending, UninitOnlyWhileLoading,
         ModPhase, CallbackStep, IoctlStep, Faults, MAX_TIMEOUT_MSEC

Requests == Speeds \cup {0}
Message == [motor : {LEFT}, speed : Requests]
Moves == {"ST_START", "ST_CHANGE_SPEED"}

(* The POSIX queue and the last request.                                   *)
MailInv ==
  /\ engine_queue \in Seq(Message)
  /\ Len(engine_queue) <= QueueMax
  /\ wanted \in {<<>>} \cup {<<s>> : s \in Requests}

(* The last message of the queue is the last request: the queue keeps its  *)
(* order and loses nothing.                                                *)
LatestInv ==
  engine_queue # <<>> => wanted = <<engine_queue[Len(engine_queue)].speed>>

(* Only the left machine is ever given an event, so the engine thread      *)
(* inside toy_ioctl is there for the left motor's state function.          *)
OneEventInv ==
  /\ \A m \in Motors : m # LEFT => phase[m] = "rest"
  /\ ioPc[EngineThread] # "none" =>
       phase[LEFT] = "action" /\ ioMotor[EngineThread] = LEFT

(* Nobody reloads the module: it is in use.                                *)
LoadedInv == ~Reload => mod = "irq"

(* The program alone uses the driver.                                      *)
Alone == Callers = {EngineThread} /\ ~Reload

(* The last message has been taken from the queue; where the left machine  *)
(* and the engine thread are with it.                                      *)
HaltServed ==
  /\ phase[LEFT] = "rest" => currentState[LEFT] = "ST_IDLE"
  /\ phase[LEFT] = "engine" => newState[LEFT] \notin Moves
  /\ phase[LEFT] = "action" => currentState[LEFT] \notin Moves

SpeedServed ==
  /\ phase[LEFT] = "engine" =>
       /\ newState[LEFT] \in Moves
       /\ wanted = <<eventData[LEFT].speed>>
  /\ phase[LEFT] \in {"rest", "action"} =>
       /\ currentState[LEFT] \in Moves
       /\ wanted = <<currentSpeed[LEFT]>>
       /\ ioPc[EngineThread] \in {"none", "init", "start"} =>
            wanted = <<motor_speed[LEFT]>>
       /\ ioPc[EngineThread] \in {"speed", "set"} =>
            wanted = <<ioSpeed[EngineThread]>>
       /\ ioPc[EngineThread] \notin {"cancel", "left", "right"}

ServedInv ==
  Alone /\ engine_queue = <<>> /\ wanted # <<>> =>
    IF wanted = <<0>> THEN HaltServed ELSE SpeedServed

SystemInv ==
  /\ DriverInv
  /\ MachineInv
  /\ MailInv
  /\ LatestInv
  /\ OneEventInv
  /\ LoadedInv
  /\ ServedInv

-----------------------------------------------------------------------------
(* The components inside the composition.                                  *)

LEMMA RequestSpeeds == \A d \in EventData : d.speed \in Requests
  BY DEF EventData, NULL, NoEventData, MotorData, Requests

(* A state function of an existing state enters toy_ioctl at one of the    *)
(* driver's commands.                                                      *)
LEMMA CallsAreCommands ==
  ASSUME NEW m, NEW st \in States, DriverCall(m, st) # "nothing"
  PROVE  ioctlOf(DriverCall(m, st)) \in Command
  BY DEF DriverCall, ioctlOf, Command, States

(* A request above 100 is cut to 100, which is a speed too.                *)
LEMMA ClampedRequest ==
  ASSUME NEW s \in Requests
  PROVE  (IF s > 100 THEN 100 ELSE s) \in Requests
  BY ClampAssumption, SpeedsAssumption DEF Requests

(* What a round of StateEngine does to a machine that keeps MachineInv: it *)
(* always enters the state function.                                       *)
LEMMA RoundEntersState ==
  ASSUME MachineInv, NEW m \in Motors, StateEngine(m)
  PROVE  /\ phase[m] = "engine" /\ newState[m] \in States
         /\ eventData[m] \in EventData
         /\ currentState' = [currentState EXCEPT ![m] = newState[m]]
         /\ StateFunction(m, newState[m], eventData[m])
         /\ phase' = [phase EXCEPT ![m] = "action"]
         /\ phase'[m] = "action"
  <1>1. /\ phase[m] = "engine" /\ newState[m] \in States
        /\ eventData[m] \in EventData
        /\ eventData[m].kind \in StateData[newState[m]]
        /\ phase \in [Motors -> {"rest", "engine", "action", "fault"}]
    BY DEF StateEngine, MachineInv, MachineTypeOK, InEngine
  <1>2. /\ currentState' = [currentState EXCEPT ![m] = newState[m]]
        /\ StateFunction(m, newState[m], eventData[m])
        /\ phase' = [phase EXCEPT ![m] = "action"]
    BY <1>1, Zenon DEF StateEngine
  <1>3. QED BY <1>1, <1>2

LEMMA DriverSimulation ==
  ASSUME MachineInv, [Next]_vars
  PROVE  [DriverNext]_driverVars
  <1>1. ASSUME NEW s \in Requests, SendEngineMessage(s)
        PROVE  UNCHANGED driverVars
    BY <1>1 DEF SendEngineMessage
  <1>2. ASSUME engine_thread
        PROVE  UNCHANGED driverVars
    BY <1>2 DEF engine_thread
  <1>3. ASSUME NEW m \in Motors, kernelUp, engine_round(m)
        PROVE  [DriverNext]_driverVars
    <2> DEFINE call == DriverCall(m, newState[m])
    <2>1. StateEngine(m)
      BY <1>3 DEF engine_round
    <2>2. newState[m] \in States /\ eventData[m].speed \in Requests
      BY <2>1, RoundEntersState, RequestSpeeds
    <2>3. CASE phase'[m] = "action" /\ call # "nothing" /\ deviceOpens
      <3>1. ioctl_enter(EngineThread, ioctlOf(call), m, eventData[m].speed)
        BY <1>3, <2>3 DEF engine_round
      <3>2. ioctlOf(call) \in Command
        BY <2>2, <2>3, CallsAreCommands
      <3>3. PICK cmd \in Command : cmd = ioctlOf(call)
        BY <3>2
      <3>4. PICK s \in Requests : s = eventData[m].speed
        BY <2>2
      <3>5. ioctl_enter(EngineThread, cmd, m, s)
        BY <3>1, <3>3, <3>4
      <3>6. QED
        BY <1>3, <3>5, ThreadAssumption DEF DriverNext, Requests
    <2>4. CASE ~(phase'[m] = "action" /\ call # "nothing" /\ deviceOpens)
      BY <1>3, <2>4 DEF engine_round
    <2>5. QED BY <2>3, <2>4
  <1>4. ASSUME NEW m \in Motors, engine_return(m)
        PROVE  UNCHANGED driverVars
    BY <1>4 DEF engine_return
  <1>5. ASSUME NEW c \in Callers, NEW m \in Motors, NEW s \in Requests,
               kernelUp, toy_set_motor_speed(c, m, s)
        PROVE  DriverNext
    <2>1. PICK k \in Requests : k = IF s > 100 THEN 100 ELSE s
      BY ClampedRequest
    <2>2. ioctl_enter(c, "speed", m, k)
      BY <1>5, <2>1 DEF toy_set_motor_speed
    <2>3. "speed" \in Command
      BY DEF Command
    <2>4. QED BY <1>5, <2>2, <2>3 DEF DriverNext, Requests
  <1>6. CASE driver \/ reload
    BY <1>6 DEF driver, reload, DriverNext
  <1>7. CASE UNCHANGED vars
    BY <1>7 DEF vars
  <1>8. QED
    BY <1>1, <1>2, <1>3, <1>4, <1>5, <1>6, <1>7 DEF Next, Requests

(* The message at the head of the queue.                                   *)
LEMMA HeadMessage ==
  ASSUME MailInv, engine_queue # <<>>
  PROVE  /\ Head(engine_queue).motor = LEFT
         /\ Head(engine_queue).speed \in Requests
         /\ Head(engine_queue) = engine_queue[1]
  <1>1. Head(engine_queue) \in Message /\ Head(engine_queue) = engine_queue[1]
    BY HeadTailProperties DEF MailInv
  <1>2. QED BY <1>1 DEF Message

LEMMA MachineSimulation ==
  ASSUME MailInv, [Next]_vars
  PROVE  [MachineNext]_machineVars
  <1>1. ASSUME NEW s \in Requests, SendEngineMessage(s)
        PROVE  UNCHANGED machineVars
    BY <1>1 DEF SendEngineMessage
  <1>2. ASSUME engine_thread
        PROVE  MachineNext
    <2> DEFINE msg == Head(engine_queue)
    <2>1. msg.motor = LEFT /\ msg.speed \in Requests
      BY <1>2, HeadMessage DEF engine_thread
    <2>2. CASE msg.speed = 0
      <3>1. Halt(LEFT)
        BY <1>2, <2>1, <2>2 DEF engine_thread
      <3>2. QED BY <3>1, LeftAssumption DEF MachineNext
    <2>3. CASE msg.speed # 0
      <3>1. PICK s \in Speeds : s = msg.speed
        BY <2>1, <2>3 DEF Requests
      <3>2. SetSpeed(LEFT, s)
        BY <1>2, <2>1, <2>3, <3>1 DEF engine_thread
      <3>3. QED BY <3>2, LeftAssumption DEF MachineNext
    <2>4. QED BY <2>2, <2>3
  <1>3. ASSUME NEW m \in Motors, engine_round(m) \/ engine_return(m)
        PROVE  MachineNext
    BY <1>3 DEF engine_round, engine_return, MachineNext, MachineStep
  <1>4. ASSUME NEW c, NEW m, NEW s, toy_set_motor_speed(c, m, s)
        PROVE  UNCHANGED machineVars
    BY <1>4 DEF toy_set_motor_speed
  <1>5. CASE driver \/ reload
    BY <1>5 DEF driver, reload
  <1>6. CASE UNCHANGED vars
    BY <1>6 DEF vars
  <1>7. QED
    BY <1>1, <1>2, <1>3, <1>4, <1>5, <1>6 DEF Next, Requests

-----------------------------------------------------------------------------
(* The parts of the invariant, action by action.                           *)

LEMMA SystemInit == Init => SystemInv
  <1> SUFFICES ASSUME Init PROVE SystemInv
    OBVIOUS
  <1>1. DriverInv /\ MachineInv
    BY DriverInitInv, MachineInitInv DEF Init
  <1>2. MailInv /\ LatestInv
    BY QueueAssumption DEF Init, MailInv, LatestInv
  <1>3. OneEventInv
    BY ThreadAssumption DEF Init, OneEventInv, DriverInit, MachineInit
  <1>4. LoadedInv /\ ServedInv
    BY DEF Init, LoadedInv, ServedInv, DriverInit
  <1>5. QED BY <1>1, <1>2, <1>3, <1>4 DEF SystemInv

LEMMA MailSend ==
  ASSUME MailInv, NEW s \in Requests, SendEngineMessage(s)
  PROVE  MailInv' /\ LatestInv' /\ engine_queue' # <<>>
  <1> DEFINE msg == [motor |-> LEFT, speed |-> s]
  <1>1. msg \in Message /\ msg.speed = s
    BY DEF Message
  <1> HIDE DEF msg
  <1>2. engine_queue' = Append(engine_queue, msg) /\ wanted' = <<s>>
    BY DEF SendEngineMessage, msg
  <1>3. /\ engine_queue' \in Seq(Message)
        /\ engine_queue' # <<>>
        /\ Len(engine_queue') = Len(engine_queue) + 1
        /\ engine_queue'[Len(engine_queue) + 1] = msg
    BY <1>1, <1>2, AppendProperties DEF MailInv
  <1>4. Len(engine_queue') <= QueueMax
    BY <1>3, QueueAssumption DEF MailInv, SendEngineMessage
  <1>5. QED
    BY <1>1, <1>2, <1>3, <1>4 DEF MailInv, LatestInv

LEMMA MailTake ==
  ASSUME MailInv, LatestInv, engine_thread
  PROVE  /\ MailInv' /\ LatestInv'
         /\ engine_queue' = <<>> => wanted' = <<Head(engine_queue).speed>>
  <1>1. /\ engine_queue # <<>> /\ engine_queue' = Tail(engine_queue)
        /\ wanted' = wanted
    BY DEF engine_thread
  <1>2. /\ engine_queue' \in Seq(Message)
        /\ Len(engine_queue') = Len(engine_queue) - 1
        /\ \A i \in 1 .. Len(engine_queue') : engine_queue'[i] = engine_queue[i + 1]
        /\ Head(engine_queue) = engine_queue[1]
    BY <1>1, HeadTailProperties DEF MailInv
  <1>3. /\ Len(engine_queue) \in Nat /\ Len(engine_queue') \in Nat
        /\ Len(engine_queue') = 0 <=> engine_queue' = <<>>
    BY <1>2, EmptySeq, LenProperties DEF MailInv
  <1>4. MailInv'
    BY <1>1, <1>2, <1>3, QueueAssumption DEF MailInv
  <1>5. CASE engine_queue' = <<>>
    <2>1. Len(engine_queue) = 1
      BY <1>2, <1>3, <1>5
    <2>2. QED BY <1>1, <1>2, <1>4, <1>5, <2>1 DEF LatestInv
  <1>6. CASE engine_queue' # <<>>
    <2>1. Len(engine_queue') \in 1 .. Len(engine_queue')
      BY <1>3, <1>6
    <2>2. engine_queue'[Len(engine_queue')] = engine_queue[Len(engine_queue)]
      BY <1>2, <1>3, <2>1
    <2>3. QED BY <1>1, <1>4, <1>6, <2>2 DEF LatestInv
  <1>7. QED BY <1>5, <1>6

(* What a caller inside toy_ioctl, the timers and the interrupt handler    *)
(* leave alone.                                                            *)
LEMMA DriverFrame ==
  ASSUME DriverInv, driverStep, NEW d \in Callers
  PROVE  /\ mod' = mod
         /\ ioPc'[d] # "none" => ioPc[d] # "none" /\ ioMotor'[d] = ioMotor[d]
  <1>1. ioPc \in [Callers -> IoctlStep] /\ ioMotor \in [Callers -> Motors \cup {0}]
    BY DEF DriverInv, DriverTypeOK
  <1>2. ASSUME NEW c \in Callers, ioctlStep(c)
        PROVE  /\ mod' = mod
               /\ ioPc'[d] # "none" => ioPc[d] # "none" /\ ioMotor'[d] = ioMotor[d]
    <2> USE DEF ioctl_next, ioctl_return, modVars
    <2>1. CASE start_speed(c)
      BY <1>1, <2>1 DEF start_speed
    <2>2. CASE start_init(c)
      BY <1>1, <2>2 DEF start_init
    <2>3. CASE start_timer(c) \/ set_speed(c)
      BY <1>1, <2>3 DEF start_timer, set_speed
    <2>4. CASE halt_cancel(c) \/ halt_led_left_off(c) \/ halt_led_right_off(c)
      BY <1>1, <2>4 DEF halt_cancel, halt_led_left_off, halt_led_right_off
    <2>5. QED BY <1>2, <2>1, <2>2, <2>3, <2>4 DEF ioctlStep
  <1>3. ASSUME NEW m \in Motors, timerStep(m)
        PROVE  mod' = mod /\ ioPc' = ioPc /\ ioMotor' = ioMotor
    BY <1>3 DEF timerStep, timer_fires, callback_left, callback_right,
                callback_restart, modVars, ioVars
  <1>4. ASSUME buttonStep
        PROVE  mod' = mod /\ ioPc' = ioPc /\ ioMotor' = ioMotor
    BY <1>4 DEF buttonStep, emergency_stop, modVars, ioVars
  <1>5. ASSUME NEW m \in Motors, isrStep(m)
        PROVE  mod' = mod /\ ioPc' = ioPc /\ ioMotor' = ioMotor
    BY <1>5 DEF isrStep, isr_cancel, isr_led_left_off, isr_led_right_off, modVars, ioVars
  <1>6. QED BY <1>2, <1>3, <1>4, <1>5 DEF driverStep

LEMMA ReloadFrame ==
  ASSUME reloadStep
  PROVE  UNCHANGED <<ioPc, ioMotor, ioSpeed>>
  BY DEF reloadStep, module_init, register_gpio_outputs, module_init_fails,
         request_irq, module_exit, exit_done, init_timer, exit_cancel, ioVars

(* The commands m1 and m2 come from another thread.                        *)
LEMMA CommandFrame ==
  ASSUME DriverInv, NEW c \in Callers, NEW m, NEW s, toy_set_motor_speed(c, m, s)
  PROVE  /\ c # EngineThread
         /\ ioPc'[EngineThread] = ioPc[EngineThread]
         /\ ioMotor'[EngineThread] = ioMotor[EngineThread]
         /\ mod' = mod
  BY ThreadAssumption
  DEF toy_set_motor_speed, ioctl_enter, DriverInv, DriverTypeOK, modVars

(* engine_round enters the driver or leaves it alone.                      *)
LEMMA RoundFrame ==
  ASSUME SystemInv, NEW m \in Motors, engine_round(m)
  PROVE  /\ m = LEFT /\ phase'[LEFT] = "action"
         /\ ioPc[EngineThread] = "none" /\ mod' = mod
         /\ motor_speed' = motor_speed
         /\ \/ /\ DriverCall(LEFT, newState[LEFT]) # "nothing"
               /\ deviceOpens
               /\ ioPc'[EngineThread] = ioctlOf(DriverCall(LEFT, newState[LEFT]))
               /\ ioMotor'[EngineThread] = LEFT
               /\ ioSpeed'[EngineThread] = eventData[LEFT].speed
            \/ /\ ~(DriverCall(LEFT, newState[LEFT]) # "nothing" /\ deviceOpens)
               /\ UNCHANGED <<ioPc, ioMotor, ioSpeed>>
  <1>1. StateEngine(m)
    BY DEF engine_round
  <1>2. phase[m] = "engine" /\ phase'[m] = "action"
    BY <1>1, RoundEntersState DEF SystemInv
  <1>3. m = LEFT /\ ioPc[EngineThread] = "none"
    BY <1>2 DEF SystemInv, OneEventInv
  <1>4. /\ ioPc \in [Callers -> IoctlStep]
        /\ ioMotor \in [Callers -> Motors \cup {0}]
        /\ ioSpeed \in [Callers -> Int]
    BY DEF SystemInv, DriverInv, DriverTypeOK
  <1>5. CASE DriverCall(LEFT, newState[LEFT]) # "nothing" /\ deviceOpens
    <2>1. ioctl_enter(EngineThread, ioctlOf(DriverCall(LEFT, newState[LEFT])), LEFT,
                      eventData[LEFT].speed)
      BY <1>2, <1>3, <1>5 DEF engine_round
    <2>2. QED
      BY <1>2, <1>3, <1>4, <1>5, <2>1, ThreadAssumption
      DEF ioctl_enter, modVars, motorVars
  <1>6. CASE ~(DriverCall(LEFT, newState[LEFT]) # "nothing" /\ deviceOpens)
    <2>1. UNCHANGED driverVars
      BY <1>2, <1>3, <1>6 DEF engine_round
    <2>2. QED BY <1>2, <1>3, <1>6, <2>1 DEF driverVars
  <1>7. QED BY <1>5, <1>6

(* A message starts an event of the left machine, or is an ignored halt.   *)
LEMMA TakeStarts ==
  ASSUME SystemInv, engine_thread
  PROVE  /\ phase[LEFT] = "rest" /\ ioPc[EngineThread] = "none"
         /\ UNCHANGED <<currentState, currentSpeed, mod, ioPc, ioMotor, ioSpeed, motor_speed>>
         /\ \A k \in Motors : k # LEFT => phase'[k] = phase[k]
         /\ IF Head(engine_queue).speed = 0
            THEN \/ currentState[LEFT] = "ST_IDLE" /\ phase' = phase
                 \/ phase'[LEFT] = "engine" /\ newState'[LEFT] = "ST_STOP"
            ELSE /\ phase'[LEFT] = "engine" /\ newState'[LEFT] \in Moves
                 /\ eventData'[LEFT].speed = Head(engine_queue).speed
  <1> DEFINE msg == Head(engine_queue)
  <1>1. msg.motor = LEFT /\ msg.speed \in Requests
    BY HeadMessage DEF engine_thread, SystemInv
  <1>2. /\ phase[LEFT] = "rest"
        /\ UNCHANGED <<mod, ioPc, ioMotor, ioSpeed, motor_speed>>
        /\ IF msg.speed = 0 THEN Halt(LEFT) ELSE SetSpeed(LEFT, msg.speed)
    BY <1>1, LeftAssumption DEF engine_thread, driverVars
  <1> HIDE DEF msg
  <1>3. ioPc[EngineThread] = "none"
    BY <1>2 DEF SystemInv, OneEventInv
  <1>4. /\ currentState[LEFT] \in States \ {"ST_STOP"}
        /\ phase \in [Motors -> {"rest", "engine", "action", "fault"}]
        /\ newState \in [Motors -> States \cup NoState]
        /\ eventData \in [Motors -> EventData]
    BY <1>2, LeftAssumption DEF SystemInv, MachineInv, MachineTypeOK, AtRest
  <1>5. CASE msg.speed = 0
    <2>1. ExternalEvent(LEFT, HaltMap[currentState[LEFT]], NULL)
      BY <1>2, <1>5 DEF Halt
    <2>2. CASE currentState[LEFT] = "ST_IDLE"
      BY <1>2, <1>3, <1>5, <2>1, <2>2 DEF ExternalEvent, HaltMap, msg
    <2>3. CASE currentState[LEFT] # "ST_IDLE"
      <3>1. HaltMap[currentState[LEFT]] = "ST_STOP"
        BY <1>4, <2>3 DEF HaltMap, States
      <3>2. /\ phase' = [phase EXCEPT ![LEFT] = "engine"]
            /\ newState' = [newState EXCEPT ![LEFT] = "ST_STOP"]
            /\ UNCHANGED <<currentState, currentSpeed>>
        BY <2>1, <3>1 DEF ExternalEvent
      <3>3. QED BY <1>2, <1>3, <1>4, <1>5, <3>2, LeftAssumption DEF msg
    <2>4. QED BY <2>2, <2>3
  <1>6. CASE msg.speed # 0
    <2> DEFINE target == SetSpeedMap[currentState[LEFT]]
    <2>1. ExternalEvent(LEFT, target, MotorData(msg.speed))
      BY <1>2, <1>6 DEF SetSpeed
    <2>2. target \in Moves
      BY <1>4 DEF SetSpeedMap, States, Moves
    <2>3. MotorData(msg.speed) # NULL /\ MotorData(msg.speed).speed = msg.speed
      BY DEF MotorData, NULL
    <2> HIDE DEF target
    <2>4. /\ phase' = [phase EXCEPT ![LEFT] = "engine"]
          /\ newState' = [newState EXCEPT ![LEFT] = target]
          /\ eventData' = [eventData EXCEPT ![LEFT] = MotorData(msg.speed)]
          /\ UNCHANGED <<currentState, currentSpeed>>
      BY <2>1, <2>2, <2>3 DEF ExternalEvent, Moves
    <2>5. QED
      BY <1>2, <1>3, <1>4, <1>6, <2>2, <2>3, <2>4, LeftAssumption DEF msg
  <1>7. QED BY <1>5, <1>6

LEMMA OneEventStep ==
  ASSUME SystemInv, [Next]_vars
  PROVE  OneEventInv' /\ LoadedInv'
  <1> USE DEF OneEventInv, LoadedInv
  <1>0. OneEventInv /\ LoadedInv /\ DriverInv
    BY DEF SystemInv
  <1>1. ASSUME NEW s, SendEngineMessage(s)
        PROVE  OneEventInv' /\ LoadedInv'
    BY <1>0, <1>1 DEF SendEngineMessage, driverVars, machineVars
  <1>2. ASSUME engine_thread
        PROVE  OneEventInv' /\ LoadedInv'
    BY <1>0, <1>2, TakeStarts
  <1>3. ASSUME NEW m \in Motors, engine_round(m)
        PROVE  OneEventInv' /\ LoadedInv'
    <2>1. phase' = [phase EXCEPT ![m] = "action"]
      BY <1>3, RoundEntersState DEF engine_round, SystemInv
    <2>2. phase \in [Motors -> {"rest", "engine", "action", "fault"}]
      BY DEF SystemInv, MachineInv, MachineTypeOK
    <2>3. QED BY <1>0, <1>3, <2>1, <2>2, RoundFrame
  <1>4. ASSUME NEW m \in Motors, engine_return(m)
        PROVE  OneEventInv' /\ LoadedInv'
    <2>1. /\ ioPc[EngineThread] = "none" /\ EndRound(m)
          /\ UNCHANGED <<mod, ioPc, ioMotor>>
      BY <1>4 DEF engine_return, driverVars
    <2>2. phase \in [Motors -> {"rest", "engine", "action", "fault"}]
      BY DEF SystemInv, MachineInv, MachineTypeOK
    <2>3. QED BY <1>0, <2>1, <2>2 DEF EndRound
  <1>5. ASSUME NEW c \in Callers, NEW m, NEW s, toy_set_motor_speed(c, m, s)
        PROVE  OneEventInv' /\ LoadedInv'
    BY <1>0, <1>5, CommandFrame DEF toy_set_motor_speed, machineVars
  <1>6. CASE driver
    BY <1>0, <1>6, DriverFrame, ThreadAssumption DEF driver, machineVars
  <1>7. CASE reload
    BY <1>0, <1>7, ReloadFrame DEF reload, machineVars
  <1>8. CASE UNCHANGED vars
    BY <1>0, <1>8 DEF vars, driverVars, machineVars
  <1>9. QED
    BY <1>1, <1>2, <1>3, <1>4, <1>5, <1>6, <1>7, <1>8 DEF Next

(* A driver step of the program alone, seen from the last command.         *)
LEMMA DriverServes ==
  ASSUME DriverInv, OneEventInv, driverStep, Callers = {EngineThread},
         UNCHANGED <<wanted, phase, currentState, newState, eventData, currentSpeed>>,
         SpeedServed
  PROVE  SpeedServed'
  <1>1. /\ ioPc \in [Callers -> IoctlStep]
        /\ ioSpeed \in [Callers -> Int]
        /\ motor_speed \in [Motors -> Int]
    BY DEF DriverInv, DriverTypeOK
  <1>2. ASSUME NEW c \in Callers, ioctlStep(c)
        PROVE  SpeedServed'
    <2> USE DEF SpeedServed, ioctl_next, ioctl_return, motorVars
    <2>1. c = EngineThread
      OBVIOUS
    <2>2. phase[LEFT] = "action" /\ ioMotor[EngineThread] = LEFT
      BY <1>2, <2>1 DEF OneEventInv, ioctlStep, start_speed, start_init, start_timer,
         set_speed, halt_cancel, halt_led_left_off, halt_led_right_off
    <2>3. CASE start_speed(c)
      BY <1>1, <2>1, <2>2, <2>3, LeftAssumption DEF start_speed
    <2>4. CASE start_init(c)
      BY <1>1, <2>1, <2>2, <2>4 DEF start_init
    <2>5. CASE start_timer(c)
      BY <1>1, <2>1, <2>2, <2>5 DEF start_timer
    <2>6. CASE set_speed(c)
      BY <1>1, <2>1, <2>2, <2>6, LeftAssumption DEF set_speed
    <2>7. CASE halt_cancel(c) \/ halt_led_left_off(c) \/ halt_led_right_off(c)
      BY <2>1, <2>2, <2>7 DEF halt_cancel, halt_led_left_off, halt_led_right_off
    <2>8. QED
      BY <1>2, <2>3, <2>4, <2>5, <2>6, <2>7 DEF ioctlStep
  <1>3. ASSUME UNCHANGED <<ioPc, ioSpeed, motor_speed>>
        PROVE  SpeedServed'
    BY <1>3 DEF SpeedServed
  <1>4. ASSUME NEW m \in Motors, timerStep(m)
        PROVE  UNCHANGED <<ioPc, ioSpeed, motor_speed>>
    BY <1>4 DEF timerStep, timer_fires, callback_left, callback_right,
                callback_restart, motorVars, ioVars
  <1>5. ASSUME buttonStep
        PROVE  UNCHANGED <<ioPc, ioSpeed, motor_speed>>
    BY <1>5 DEF buttonStep, emergency_stop, motorVars, ioVars
  <1>6. ASSUME NEW m \in Motors, isrStep(m)
        PROVE  UNCHANGED <<ioPc, ioSpeed, motor_speed>>
    BY <1>6 DEF isrStep, isr_cancel, isr_led_left_off, isr_led_right_off, motorVars, ioVars
  <1>7. QED BY <1>2, <1>3, <1>4, <1>5, <1>6 DEF driverStep

(* A round of the left machine: the state function stores the speed of its *)
(* event and makes the ioctl that carries it.                              *)
LEMMA RoundServes ==
  ASSUME SystemInv, NEW m \in Motors, engine_round(m), Alone
  PROVE  /\ HaltServed => HaltServed'
         /\ SpeedServed => SpeedServed'
  <1>1. m = LEFT /\ wanted' = wanted /\ deviceOpens
    BY RoundFrame DEF engine_round, SystemInv, LoadedInv, Alone, deviceOpens
  <1>2. /\ phase[LEFT] = "engine" /\ phase'[LEFT] = "action"
        /\ newState[LEFT] \in States
        /\ currentState'[LEFT] = newState[LEFT]
        /\ StateFunction(LEFT, newState[LEFT], eventData[LEFT])
    <2>1. currentState \in [Motors -> States]
      BY DEF SystemInv, MachineInv, MachineTypeOK
    <2>2. QED
      BY <1>1, <2>1, RoundEntersState, LeftAssumption DEF engine_round, SystemInv
  <1>3. HaltServed => HaltServed'
    BY <1>2 DEF HaltServed
  <1>4. ASSUME SpeedServed PROVE SpeedServed'
    <2>1. newState[LEFT] \in Moves /\ wanted = <<eventData[LEFT].speed>>
      BY <1>2, <1>4 DEF SpeedServed
    <2>2. currentSpeed'[LEFT] = eventData[LEFT].speed
      <3>1. currentSpeed \in [Motors -> Int]
        BY DEF SystemInv, MachineInv, MachineTypeOK
      <3>2. QED BY <1>2, <2>1, <3>1, LeftAssumption DEF StateFunction, Moves
    <2>3. /\ DriverCall(LEFT, newState[LEFT]) # "nothing"
          /\ ioctlOf(DriverCall(LEFT, newState[LEFT])) \in {"speed", "set"}
      BY <2>1 DEF Moves, DriverCall, ioctlOf
    <2>4. /\ ioPc'[EngineThread] \in {"speed", "set"}
          /\ ioSpeed'[EngineThread] = eventData[LEFT].speed
      BY <1>1, <2>3, RoundFrame
    <2>5. QED BY <1>1, <1>2, <2>1, <2>2, <2>4 DEF SpeedServed
  <1>5. QED BY <1>3, <1>4

(* The state function returns: ST_STOP goes on to ST_IDLE, the others end  *)
(* the event.                                                              *)
LEMMA ReturnServes ==
  ASSUME SystemInv, NEW m \in Motors, engine_return(m)
  PROVE  /\ HaltServed => HaltServed'
         /\ SpeedServed => SpeedServed'
  <1>1. /\ EndRound(m) /\ ioPc[EngineThread] = "none"
        /\ UNCHANGED <<ioPc, ioSpeed, motor_speed, wanted>>
    BY DEF engine_return, driverVars
  <1>2. /\ phase[m] = "action"
        /\ phase' = [phase EXCEPT ![m] = IF eventGenerated[m] THEN "engine" ELSE "rest"]
        /\ UNCHANGED <<currentState, newState, eventData, currentSpeed>>
        /\ phase \in [Motors -> {"rest", "engine", "action", "fault"}]
    BY <1>1 DEF EndRound, SystemInv, MachineInv, MachineTypeOK
  <1>3. m = LEFT
    BY <1>2 DEF SystemInv, OneEventInv
  <1>4. /\ currentState[LEFT] \in States
        /\ IF eventGenerated[LEFT]
           THEN newState[LEFT] = "ST_IDLE" /\ currentState[LEFT] = "ST_STOP"
           ELSE currentState[LEFT] # "ST_STOP"
    BY <1>2, <1>3 DEF SystemInv, MachineInv, MachineTypeOK, InAction
  <1>5. HaltServed => HaltServed'
    BY <1>2, <1>3, <1>4 DEF HaltServed, Moves, States
  <1>6. SpeedServed => SpeedServed'
    BY <1>1, <1>2, <1>3, <1>4 DEF SpeedServed, Moves
  <1>7. QED BY <1>5, <1>6

LEMMA ServedStep ==
  ASSUME SystemInv, [Next]_vars
  PROVE  ServedInv'
  <1>0. ServedInv /\ MailInv /\ LatestInv /\ DriverInv /\ OneEventInv
    BY DEF SystemInv
  <1>1. ASSUME NEW s \in Requests, SendEngineMessage(s)
        PROVE  ServedInv'
    BY <1>0, <1>1, MailSend DEF ServedInv
  <1>2. ASSUME engine_thread
        PROVE  ServedInv'
    <2> DEFINE v == Head(engine_queue).speed
    <2> SUFFICES ASSUME engine_queue' = <<>>
                 PROVE  IF wanted' = <<0>> THEN HaltServed' ELSE SpeedServed'
      BY DEF ServedInv
    <2>1. wanted' = <<v>>
      BY <1>0, <1>2, MailTake
    <2>2. CASE v = 0
      BY <1>2, <2>1, <2>2, TakeStarts DEF HaltServed, Moves
    <2>3. CASE v # 0
      BY <1>2, <2>1, <2>3, TakeStarts DEF SpeedServed
    <2>4. QED BY <2>2, <2>3
  <1>3. ASSUME NEW m \in Motors, engine_round(m)
        PROVE  ServedInv'
    BY <1>0, <1>3, RoundServes DEF engine_round, ServedInv, Alone
  <1>4. ASSUME NEW m \in Motors, engine_return(m)
        PROVE  ServedInv'
    BY <1>0, <1>4, ReturnServes DEF engine_return, ServedInv, Alone
  <1>5. ASSUME NEW c \in Callers, NEW m, NEW s, toy_set_motor_speed(c, m, s)
        PROVE  ServedInv'
    BY <1>5 DEF toy_set_motor_speed, ServedInv, Alone
  <1>6. CASE driver
    <2>1. /\ driverStep
          /\ UNCHANGED <<wanted, engine_queue, phase, currentState, newState,
                         eventData, currentSpeed>>
      BY <1>6 DEF driver, machineVars
    <2>2. HaltServed => HaltServed'
      BY <2>1 DEF HaltServed
    <2>3. Alone /\ SpeedServed => SpeedServed'
      BY <1>0, <2>1, DriverServes DEF Alone
    <2>4. QED BY <1>0, <2>1, <2>2, <2>3 DEF ServedInv, Alone
  <1>7. CASE reload
    BY <1>7 DEF reload, ServedInv, Alone
  <1>8. CASE UNCHANGED vars
    BY <1>0, <1>8
    DEF vars, driverVars, machineVars, ServedInv, HaltServed, SpeedServed, Alone
  <1>9. QED
    BY <1>1, <1>2, <1>3, <1>4, <1>5, <1>6, <1>7, <1>8 DEF Next, Requests

LEMMA SystemStep == SystemInv /\ [Next]_vars => SystemInv'
  <1> SUFFICES ASSUME SystemInv, [Next]_vars PROVE SystemInv'
    OBVIOUS
  <1>1. DriverInv'
    BY DriverSimulation, DriverStepInv DEF SystemInv
  <1>2. MachineInv'
    BY MachineSimulation, MachineStepInv DEF SystemInv
  <1>3. MailInv' /\ LatestInv'
    <2>1. ASSUME UNCHANGED <<engine_queue, wanted>>
          PROVE  MailInv' /\ LatestInv'
      BY <2>1 DEF SystemInv, MailInv, LatestInv
    <2>2. ASSUME NEW s \in Requests, SendEngineMessage(s)
          PROVE  MailInv' /\ LatestInv'
      BY <2>2, MailSend DEF SystemInv
    <2>3. ASSUME engine_thread
          PROVE  MailInv' /\ LatestInv'
      BY <2>3, MailTake DEF SystemInv
    <2>4. QED
      BY <2>1, <2>2, <2>3
      DEF Next, Requests, engine_round, engine_return, toy_set_motor_speed, driver,
          reload, vars
  <1>4. QED
    BY <1>1, <1>2, <1>3, OneEventStep, ServedStep DEF SystemInv

-----------------------------------------------------------------------------
(* The inductive invariant of the composition.                             *)
THEOREM SystemInvariant == Spec => []SystemInv
  BY SystemInit, SystemStep, PTL DEF Spec

(* Type correctness of the queue, the state machines and the driver; the   *)
(* queue never holds more than mq_maxmsg messages (main.c:57, 121-124).    *)
THEOREM SystemTypeCorrect == Spec => []TypeOK
  <1>1. SystemInv => TypeOK
    BY DEF SystemInv, DriverInv, MachineInv, MailInv, TypeOK, Message, Requests
  <1>2. QED BY <1>1, SystemInvariant, PTL

(* The last command of the GUI wins, for any speeds and any length of the  *)
(* queue (system_server.c:429-454, LeftMotor.cpp:79-139,                   *)
(* engine.c:203-228).                                                      *)
THEOREM LastCommandIsServed == Spec => []LastCommandWins
  <1>1. ASSUME SystemInv PROVE LastCommandWins
    <2> SUFFICES ASSUME Alone, Settled, wanted # <<>>
                 PROVE  IF wanted = <<0>>
                        THEN currentState[LEFT] = "ST_IDLE"
                        ELSE /\ currentState[LEFT] \in {"ST_START", "ST_CHANGE_SPEED"}
                             /\ wanted = <<currentSpeed[LEFT]>>
                             /\ wanted = <<motor_speed[LEFT]>>
      BY DEF LastCommandWins, Alone
    <2>1. phase[LEFT] = "rest" /\ engine_queue = <<>>
      BY LeftAssumption DEF Settled
    <2>2. ioPc[EngineThread] = "none"
      BY <1>1, <2>1 DEF SystemInv, OneEventInv
    <2>3. IF wanted = <<0>> THEN HaltServed ELSE SpeedServed
      BY <1>1, <2>1 DEF SystemInv, ServedInv
    <2>4. QED BY <2>1, <2>2, <2>3 DEF HaltServed, SpeedServed, Moves
  <1>2. QED BY <1>1, SystemInvariant, PTL

(* Inside the composition the driver does only what it does alone: every   *)
(* ioctl of the engine thread and of m1/m2 is one of its commands, on a    *)
(* motor it has, with a speed its callers may ask for.                     *)
THEOREM CompositionImplementsDriver == Spec => DriverSpec
  <1>1. Init => DriverInit
    BY DEF Init
  <1>2. SystemInv /\ [Next]_vars => [DriverNext]_driverVars
    BY DriverSimulation DEF SystemInv
  <1>3. QED
    BY <1>1, <1>2, SystemInvariant, PTL DEF Spec, DriverSpec

(* And so do the state machines: every message of the queue is one of      *)
(* their events, given to them while they are at rest.                     *)
THEOREM CompositionImplementsMachines == Spec => ImplementsMachines
  <1>1. Init => MachineInit
    BY DEF Init
  <1>2. SystemInv /\ [Next]_vars => [MachineNext]_machineVars
    BY MachineSimulation DEF SystemInv
  <1>3. QED
    BY <1>1, <1>2, SystemInvariant, PTL DEF Spec, ImplementsMachines, MachineSpec

(* What is proved of the components therefore holds of the whole: a        *)
(* stopped motor is dark, an uninitialised timer is used only while the    *)
(* module loads, nothing runs in an unloaded module, and no message drives *)
(* a state machine into FaultHandler or leaks its event data.              *)
THEOREM ComponentsKeepTheirPromises ==
  Spec => [](/\ DarkWhenStopped
             /\ UninitOnlyWhileLoading
             /\ QuietWhenUnloaded
             /\ NeverFaults
             /\ EventDataFreed)
  BY CompositionImplementsDriver, CompositionImplementsMachines,
     StoppedMotorIsDark, UninitialisedTimerOnlyWhileLoading,
     UnloadedDriverIsQuiet, MachinesNeverFault, EventDataIsFreed, PTL
  DEF ImplementsMachines

(* Through the queue and the engine thread the program keeps the contract  *)
(* of MotorControl, and with no other caller of the driver it never        *)
(* re-initialises an active timer (engine.c:206-207).                      *)
THEOREM ProgramKeepsContract ==
  Spec => ImplementsMotorControl /\ []OneCallerNeverReinits
  BY CompositionImplementsDriver, CompositionImplementsMachines,
     MachinesImplementControl, OneCallerIsSafe, PTL
  DEF ImplementsMachines

=============================================================================
