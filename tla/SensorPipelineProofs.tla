------------------------ MODULE SensorPipelineProofs ------------------------
(***************************************************************************)
(* The way of a reading to the web GUI, for any number of clients and      *)
(* readings, any temperatures and any lengths of the queues: displays only *)
(* go forward, and when the pipeline is empty they are current.            *)
(***************************************************************************)
EXTENDS SensorPipeline, SequenceTheorems, TLAPS

-----------------------------------------------------------------------------
(* The inductive invariant, one part per stage.  A part says what its      *)
(* variables are, that a stage is never ahead of the one before it, and    *)
(* that it is behind only while something is on its way to tell it.        *)
Types == {"SENSOR_DATA", "DUMP_STATE"}
InfoSeqs == {<<>>} \cup {<<i>> : i \in Infos}

Flags == workPending \in BOOLEAN /\ notified \in BOOLEAN

(* A reader of the attribute will be woken.                                *)
DriverInv == value = buff \/ notified \/ notifying # {}

SensorInv ==
  /\ notifying \subseteq {"work", "store"}
  /\ value \in 0..Readings /\ buff \in 0..Readings /\ shm \in 0..Readings
  /\ sensorPc \in {"poll", "read", "shm", "send"}
  /\ shmid \in ShmStates
  /\ shm <= buff /\ buff <= value
  /\ shmid = "attached" => shm = buff \/ sensorPc = "shm"

hasData == \E i \in 1..Len(monitor_queue) : monitor_queue[i] = "SENSOR_DATA"

MonitorInv ==
  /\ monitor_queue \in Seq(Types) /\ Len(monitor_queue) <= MonitorMax
  /\ server \in {"up", "crashed"}
  /\ robot_msg \in Infos
  /\ robot_msg.reading <= shm
  /\ shmid = "attached" =>
       \/ robot_msg = Info(shm)
       \/ sensorPc = "send" \/ hasData \/ monitorPc = "attached"

BackendInv ==
  /\ backend_queue \in Seq(Infos) /\ Len(backend_queue) <= BackendMax
  /\ monitorPc \in {"receive", "attached", "send"}
  /\ robot_msg \in Infos /\ robot \in Infos
  /\ robot.reading <= robot_msg.reading
  /\ \A i \in 1..Len(backend_queue) :
       /\ robot.reading <= backend_queue[i].reading
       /\ backend_queue[i].reading <= robot_msg.reading
  /\ \A i, j \in 1..Len(backend_queue) :
       i < j => backend_queue[i].reading <= backend_queue[j].reading
  /\ \/ monitorPc = "send"
     \/ backend_queue = <<>> /\ robot = robot_msg
     \/ backend_queue # <<>> /\ backend_queue[Len(backend_queue)] = robot_msg

RecvInv ==
  /\ toy_be \in {"up", "crashed"}
  /\ recvPc \in {"receive", "get", "update", "broadcast"}
  /\ db \in InfoSeqs
  /\ robot \in Infos /\ hubMessage \in Infos
  /\ hubMessage.reading <= robot.reading
  /\ hubMessage = robot \/ recvPc # "receive"

ConnStates == {"none", "register", "open", "lost", "unregister", "closing"}

HubInv ==
  /\ hubMessage \in Infos
  /\ hubTodo \subseteq Clients /\ hubClient \subseteq Clients
  /\ clients \subseteq Clients /\ stalled \subseteq Clients
  /\ conn \in [Clients -> ConnStates]
  /\ shown \in [Clients -> InfoSeqs]
  /\ HubWritesOpenSockets
  /\ \A c, d \in hubClient : c = d
  /\ \A c \in Clients :
       /\ c \notin clients => shown[c] = <<>> \/ conn[c] = "closing"
       /\ shown[c] # <<>> => shown[c][1].reading <= hubMessage.reading
       /\ conn[c] = "open" => \/ shown[c] = <<>>
                              \/ shown[c] = <<hubMessage>>
                              \/ c \in hubTodo \cup hubClient

PipelineInv ==
  /\ DriverInv /\ SensorInv /\ MonitorInv /\ BackendInv /\ RecvInv /\ HubInv

LEMMA TypeParts == Flags /\ PipelineInv => TypeOK
  BY DEF TypeOK, Flags, PipelineInv, SensorInv, MonitorInv, BackendInv, RecvInv,
         HubInv, Types, InfoSeqs, ConnStates

-----------------------------------------------------------------------------
LEMMA InfoFacts ==
  /\ \A n \in 0..Readings : Info(n) \in Infos /\ Info(n).reading = n
  /\ \A i \in Infos : i.reading \in 0..Readings /\ i = Info(i.reading)
  /\ <<>> \in InfoSeqs
  /\ \A i \in Infos : <<i>> \in InfoSeqs
  /\ Readings \in Nat /\ MonitorMax \in Nat \ {0} /\ BackendMax \in Nat \ {0}
  BY ReadingsAssumption, QueuesAssumption DEF Infos, Info, InfoSeqs

LEMMA InitInv == Init => PipelineInv
  <1> SUFFICES ASSUME Init PROVE PipelineInv
    OBVIOUS
  <1>0. 0 \in 0..Readings BY InfoFacts
  <1>1. DriverInv /\ SensorInv BY <1>0 DEF Init, DriverInv, SensorInv
  <1>2. MonitorInv BY <1>0, InfoFacts DEF Init, MonitorInv
  <1>3. BackendInv BY <1>0, InfoFacts DEF Init, BackendInv
  <1>4. RecvInv BY <1>0, InfoFacts DEF Init, RecvInv
  <1>5. HubInv
    BY <1>0, InfoFacts DEF Init, HubInv, HubWritesOpenSockets, ConnStates
  <1>6. QED BY <1>1, <1>2, <1>3, <1>4, <1>5 DEF PipelineInv

(* A stage whose variables do not change.                                  *)
sensorParts == <<notifying, value, sensorPc, buff, shm, shmid>>
monitorParts == <<sensorPc, shm, shmid, monitor_queue, server, monitorPc, robot_msg>>
backendParts == <<backend_queue, monitorPc, robot_msg, robot>>
recvParts == <<toy_be, recvPc, robot, db, hubMessage>>
hubParts == <<hubMessage, hubTodo, hubClient, clients, conn, stalled, shown>>

LEMMA Frame ==
  /\ SensorInv /\ UNCHANGED sensorParts => SensorInv'
  /\ MonitorInv /\ UNCHANGED monitorParts => MonitorInv'
  /\ BackendInv /\ UNCHANGED backendParts => BackendInv'
  /\ RecvInv /\ UNCHANGED recvParts => RecvInv'
  /\ HubInv /\ UNCHANGED hubParts => HubInv'
  <1>1. SensorInv /\ UNCHANGED sensorParts => SensorInv'
    BY DEF SensorInv, sensorParts
  <1>2. MonitorInv /\ UNCHANGED monitorParts => MonitorInv'
    <2>1. ASSUME UNCHANGED monitorParts PROVE hasData' = hasData
      BY <2>1 DEF hasData, monitorParts
    <2>2. QED BY <2>1 DEF MonitorInv, monitorParts, Info
  <1>3. BackendInv /\ UNCHANGED backendParts => BackendInv'
    BY DEF BackendInv, backendParts
  <1>4. RecvInv /\ UNCHANGED recvParts => RecvInv'
    BY DEF RecvInv, recvParts
  <1>5. HubInv /\ UNCHANGED hubParts => HubInv'
    BY DEF HubInv, HubWritesOpenSockets, hubParts
  <1>6. QED BY <1>1, <1>2, <1>3, <1>4, <1>5

-----------------------------------------------------------------------------
(* The driver and sensor_thread.                                           *)
DriverStep ==
  \/ sensor_timer_callback \/ workqueue_fn \/ store
  \/ \E w \in {"work", "store"} : sysfs_notify(w)

LEMMA DriverStepInv ==
  ASSUME PipelineInv, DriverStep
  PROVE  PipelineInv'
  <1>1. SensorInv /\ MonitorInv /\ BackendInv /\ RecvInv /\ HubInv /\ DriverInv
    BY DEF PipelineInv
  <1>2. /\ UNCHANGED monitorParts /\ UNCHANGED backendParts
        /\ UNCHANGED recvParts /\ UNCHANGED hubParts
        /\ UNCHANGED <<sensorPc, buff, shm, shmid>>
    <2>1. UNCHANGED <<sensorVars, monitorVars, recvVars, hubVars, clientVars,
                      monitor_queue, backend_queue>>
      BY DEF DriverStep, sensor_timer_callback, workqueue_fn, store, sysfs_notify
    <2>2. QED
      BY <2>1 DEF sensorVars, monitorVars, recvVars, hubVars, clientVars,
                  monitorParts, backendParts, recvParts, hubParts
  <1>3. /\ notifying' \subseteq {"work", "store"}
        /\ value' \in {value, value + 1} /\ value' \in 0..Readings
    <2>1. notifying \subseteq {"work", "store"} /\ value \in 0..Readings
      BY <1>1 DEF SensorInv
    <2>2. CASE sensor_timer_callback
      <3>1. UNCHANGED <<notifying, value>> BY <2>2 DEF sensor_timer_callback
      <3>2. QED BY <2>1, <3>1
    <2>3. CASE workqueue_fn \/ store
      <3>1. /\ value < Readings /\ value' = value + 1
            /\ notifying' \subseteq notifying \cup {"work", "store"}
        BY <2>3 DEF workqueue_fn, store
      <3>2. QED BY <2>1, <3>1, InfoFacts
    <2>4. CASE \E w \in {"work", "store"} : sysfs_notify(w)
      <3>1. UNCHANGED value /\ notifying' \subseteq notifying
        BY <2>4 DEF sysfs_notify
      <3>2. QED BY <2>1, <3>1
    <2>5. QED BY <2>2, <2>3, <2>4 DEF DriverStep
  <1>4. SensorInv'
    BY <1>1, <1>2, <1>3 DEF SensorInv
  <1>5. DriverInv'
    <2>1. CASE sensor_timer_callback
      BY <1>1, <1>2, <2>1 DEF DriverInv, sensor_timer_callback
    <2>2. CASE workqueue_fn \/ store
      BY <2>2 DEF DriverInv, workqueue_fn, store
    <2>3. CASE \E w \in {"work", "store"} : sysfs_notify(w)
      BY <2>3 DEF DriverInv, sysfs_notify
    <2>4. QED BY <2>1, <2>2, <2>3 DEF DriverStep
  <1>6. QED BY <1>1, <1>2, <1>4, <1>5, Frame DEF PipelineInv

(* A message at the end of monitor_queue.                                  *)
LEMMA AppendData ==
  ASSUME MonitorInv, Len(monitor_queue) < MonitorMax, NEW m \in Types,
         monitor_queue' = Append(monitor_queue, m)
  PROVE  /\ monitor_queue' \in Seq(Types) /\ Len(monitor_queue') <= MonitorMax
         /\ hasData => hasData'
         /\ m = "SENSOR_DATA" => hasData'
  <1>1. monitor_queue \in Seq(Types) /\ Len(monitor_queue) \in Nat
    BY DEF MonitorInv
  <1>2. /\ monitor_queue' \in Seq(Types)
        /\ Len(monitor_queue') = Len(monitor_queue) + 1
        /\ \A i \in 1..Len(monitor_queue) : monitor_queue'[i] = monitor_queue[i]
        /\ monitor_queue'[Len(monitor_queue) + 1] = m
    BY <1>1, AppendProperties
  <1>3. Len(monitor_queue') <= MonitorMax BY <1>1, <1>2, InfoFacts
  <1>4. \A i \in 1..Len(monitor_queue) : i \in 1..Len(monitor_queue')
    BY <1>1, <1>2
  <1>5. Len(monitor_queue) + 1 \in 1..Len(monitor_queue') BY <1>1, <1>2
  <1>6. QED BY <1>2, <1>3, <1>4, <1>5 DEF hasData

LEMMA SensorStepInv ==
  ASSUME PipelineInv, sensorStep
  PROVE  PipelineInv'
  <1>1. SensorInv /\ MonitorInv /\ BackendInv /\ RecvInv /\ HubInv /\ DriverInv
    BY DEF PipelineInv
  <1>2. /\ UNCHANGED backendParts /\ UNCHANGED recvParts /\ UNCHANGED hubParts
        /\ UNCHANGED <<shmid, value, notifying, server, monitorPc, robot_msg>>
    BY DEF sensorStep, sensor_poll, sensor_read, sensor_write_shm, sensor_send,
           driverVars, monitorVars, recvVars, hubVars, clientVars, backendParts,
           recvParts, hubParts
  <1>3. CASE sensor_poll \/ sensor_read
    <2>1. /\ sensorPc \in {"poll", "read"} /\ sensorPc' \in {"read", "shm"}
          /\ UNCHANGED <<shm, monitor_queue>>
          /\ buff' = buff \/ (buff' = value /\ sensorPc' = "shm")
      BY <1>3 DEF sensor_poll, sensor_read
    <2>2. SensorInv' BY <1>1, <1>2, <2>1 DEF SensorInv
    <2>3. MonitorInv'
      <3>1. hasData' = hasData BY <2>1 DEF hasData
      <3>2. QED BY <1>1, <1>2, <2>1, <3>1 DEF MonitorInv, Info
    <2>4. DriverInv'
      <3>1. CASE sensor_read BY <3>1, <1>2 DEF sensor_read, DriverInv
      <3>2. CASE sensor_poll
        BY <1>1, <3>2 DEF sensor_poll, DriverInv, driverVars
      <3>3. QED BY <1>3, <3>1, <3>2
    <2>5. QED BY <1>1, <1>2, <2>2, <2>3, <2>4, Frame DEF PipelineInv
  <1>4. CASE sensor_write_shm
    <2>1. /\ sensorPc = "shm" /\ sensorPc' = "send"
          /\ UNCHANGED <<buff, monitor_queue>> /\ shm' \in {buff, shm}
          /\ shmid = "attached" => shm' = buff
      BY <1>4 DEF sensor_write_shm
    <2>2. SensorInv' BY <1>1, <1>2, <2>1 DEF SensorInv
    <2>3. MonitorInv'
      <3>1. robot_msg.reading <= shm'
        <4>1. robot_msg.reading \in Int /\ shm \in Int /\ buff \in Int
              /\ shm <= buff /\ robot_msg.reading <= shm
          BY <1>1, InfoFacts DEF MonitorInv, SensorInv
        <4>2. QED BY <2>1, <4>1
      <3>2. QED BY <1>1, <1>2, <2>1, <3>1 DEF MonitorInv
    <2>4. DriverInv'
      BY <1>1, <1>4 DEF sensor_write_shm, DriverInv, driverVars
    <2>5. QED BY <1>1, <1>2, <2>2, <2>3, <2>4, Frame DEF PipelineInv
  <1>5. CASE sensor_send
    <2>1. /\ sensorPc = "send" /\ sensorPc' = "poll"
          /\ UNCHANGED <<buff, shm>>
          /\ Len(monitor_queue) < MonitorMax
          /\ monitor_queue' = Append(monitor_queue, "SENSOR_DATA")
      BY <1>5 DEF sensor_send
    <2>2. SensorInv' BY <1>1, <1>2, <2>1 DEF SensorInv
    <2>3. MonitorInv'
      <3>1. /\ monitor_queue' \in Seq(Types) /\ Len(monitor_queue') <= MonitorMax
            /\ hasData'
        BY <1>1, <2>1, AppendData DEF Types
      <3>2. QED BY <1>1, <1>2, <2>1, <3>1 DEF MonitorInv
    <2>4. DriverInv'
      BY <1>1, <1>5 DEF sensor_send, DriverInv, driverVars
    <2>5. QED BY <1>1, <1>2, <2>2, <2>3, <2>4, Frame DEF PipelineInv
  <1>6. QED BY <1>3, <1>4, <1>5 DEF sensorStep

LEMMA DumpStepInv ==
  ASSUME PipelineInv, toy_dump_state
  PROVE  PipelineInv'
  <1>1. SensorInv /\ MonitorInv /\ BackendInv /\ RecvInv /\ HubInv /\ DriverInv
    BY DEF PipelineInv
  <1>2. /\ UNCHANGED backendParts /\ UNCHANGED recvParts /\ UNCHANGED hubParts
        /\ UNCHANGED sensorParts /\ UNCHANGED <<server, monitorPc, robot_msg>>
        /\ Len(monitor_queue) < MonitorMax
        /\ monitor_queue' = Append(monitor_queue, "DUMP_STATE")
    BY DEF toy_dump_state, driverVars, sensorVars, monitorVars, recvVars, hubVars,
           clientVars, backendParts, recvParts, hubParts, sensorParts
  <1>3. MonitorInv'
    <2>1. /\ monitor_queue' \in Seq(Types) /\ Len(monitor_queue') <= MonitorMax
          /\ hasData => hasData'
      BY <1>1, <1>2, AppendData DEF Types
    <2>2. QED BY <1>1, <1>2, <2>1 DEF MonitorInv, sensorParts, Info
  <1>4. DriverInv'
    BY <1>1 DEF toy_dump_state, DriverInv, driverVars, sensorVars
  <1>5. QED BY <1>1, <1>2, <1>3, <1>4, Frame DEF PipelineInv

-----------------------------------------------------------------------------
(* monitor_thread and RecvMessageQ.                                        *)
LEMMA ReadingsAreInts ==
  \A i \in Infos : i.reading \in Int
  BY InfoFacts

LEMMA MonitorStepInv ==
  ASSUME PipelineInv, monitorStep
  PROVE  PipelineInv'
  <1>1. SensorInv /\ MonitorInv /\ BackendInv /\ RecvInv /\ HubInv /\ DriverInv
    BY DEF PipelineInv
  <1>2. /\ UNCHANGED sensorParts /\ UNCHANGED recvParts /\ UNCHANGED hubParts
        /\ UNCHANGED driverVars
    BY DEF monitorStep, monitor_receive, monitor_read_shm, monitor_send,
           driverVars, sensorVars, recvVars, hubVars, clientVars, sensorParts,
           recvParts, hubParts
  <1>3. DriverInv'
    BY <1>1, <1>2 DEF DriverInv, driverVars, sensorParts
  <1>4. UNCHANGED <<sensorPc, shm, shmid, robot>>
    BY <1>2 DEF sensorParts, recvParts
  <1>5. CASE monitor_receive
    <2>1. /\ monitor_queue # <<>> /\ monitor_queue' = Tail(monitor_queue)
          /\ monitorPc = "receive" /\ monitorPc' \in {"receive", "attached"}
          /\ server' \in {"up", "crashed"}
          /\ UNCHANGED robot_msg /\ UNCHANGED backend_queue
          /\ shmid = "attached" /\ Head(monitor_queue) = "SENSOR_DATA"
             => monitorPc' = "attached"
      BY <1>5 DEF monitor_receive
    <2>2. monitor_queue \in Seq(Types) /\ Len(monitor_queue) \in Nat \ {0}
      BY <1>1, <2>1, EmptySeq DEF MonitorInv
    <2>3. /\ Tail(monitor_queue) \in Seq(Types)
          /\ Len(Tail(monitor_queue)) = Len(monitor_queue) - 1
          /\ \A i \in 1..Len(Tail(monitor_queue)) :
               Tail(monitor_queue)[i] = monitor_queue[i + 1]
          /\ Head(monitor_queue) = monitor_queue[1]
      BY <2>1, <2>2, HeadTailProperties
    <2>4. hasData => hasData' \/ Head(monitor_queue) = "SENSOR_DATA"
      <3>1. ASSUME NEW i \in 1..Len(monitor_queue), i # 1
            PROVE  /\ i - 1 \in 1..Len(monitor_queue')
                   /\ monitor_queue'[i - 1] = monitor_queue[i]
        BY <2>1, <2>2, <2>3, <3>1
      <3>2. QED BY <2>3, <3>1 DEF hasData
    <2>5. Len(monitor_queue') <= MonitorMax
      BY <1>1, <2>1, <2>2, <2>3, InfoFacts DEF MonitorInv
    <2>6. MonitorInv'
      BY <1>1, <1>4, <2>1, <2>3, <2>4, <2>5 DEF MonitorInv, Info
    <2>7. BackendInv'
      BY <1>1, <1>4, <2>1 DEF BackendInv
    <2>8. QED BY <1>1, <1>2, <1>3, <2>6, <2>7, Frame DEF PipelineInv
  <1>6. CASE monitor_read_shm
    <2>1. /\ robot_msg' = Info(shm) /\ monitorPc' = "send"
          /\ UNCHANGED server /\ UNCHANGED monitor_queue /\ UNCHANGED backend_queue
      BY <1>6 DEF monitor_read_shm
    <2>2. /\ Info(shm) \in Infos /\ Info(shm).reading = shm /\ shm \in Int
          /\ robot_msg.reading <= shm
      BY <1>1, InfoFacts DEF SensorInv, MonitorInv
    <2>3. MonitorInv'
      BY <1>1, <1>4, <2>1, <2>2 DEF MonitorInv, Info
    <2>4. BackendInv'
      <3>1. /\ robot \in Infos /\ robot_msg \in Infos
            /\ backend_queue \in Seq(Infos)
            /\ \A i \in 1..Len(backend_queue) : backend_queue[i] \in Infos
        BY <1>1 DEF BackendInv
      <3>2. \A x \in Int : x <= robot_msg.reading => x <= shm
        BY <2>2, <3>1, ReadingsAreInts
      <3>3. /\ robot.reading <= shm
            /\ \A i \in 1..Len(backend_queue) : backend_queue[i].reading <= shm
        BY <1>1, <3>1, <3>2, ReadingsAreInts DEF BackendInv
      <3>4. QED BY <1>1, <1>4, <2>1, <2>2, <3>3 DEF BackendInv
    <2>5. QED BY <1>1, <1>2, <1>3, <2>3, <2>4, Frame DEF PipelineInv
  <1>7. CASE monitor_send
    <2>1. /\ monitorPc = "send" /\ monitorPc' = "receive"
          /\ Len(backend_queue) < BackendMax
          /\ backend_queue' = Append(backend_queue, robot_msg)
          /\ UNCHANGED robot_msg /\ UNCHANGED server /\ UNCHANGED monitor_queue
      BY <1>7 DEF monitor_send, monitorVars
    <2>2. MonitorInv'
      <3>1. hasData' = hasData BY <2>1 DEF hasData
      <3>2. QED BY <1>1, <1>4, <2>1, <3>1 DEF MonitorInv, Info
    <2>3. /\ backend_queue \in Seq(Infos) /\ Len(backend_queue) \in Nat
          /\ robot_msg \in Infos /\ robot \in Infos
      BY <1>1 DEF BackendInv
    <2>4. /\ backend_queue' \in Seq(Infos)
          /\ backend_queue' # <<>>
          /\ Len(backend_queue') = Len(backend_queue) + 1
          /\ \A i \in 1..Len(backend_queue) : backend_queue'[i] = backend_queue[i]
          /\ backend_queue'[Len(backend_queue) + 1] = robot_msg
      BY <2>1, <2>3, AppendProperties
    <2>5. Len(backend_queue') <= BackendMax BY <2>1, <2>3, <2>4, InfoFacts
    <2>6. \A i \in 1..Len(backend_queue') :
            i \in 1..Len(backend_queue) \/ i = Len(backend_queue) + 1
      BY <2>3, <2>4
    <2>7. robot_msg.reading <= robot_msg.reading
      BY <2>3, ReadingsAreInts
    <2>8. \A i \in 1..Len(backend_queue') :
            /\ robot.reading <= backend_queue'[i].reading
            /\ backend_queue'[i].reading <= robot_msg.reading
      BY <1>1, <2>4, <2>6, <2>7 DEF BackendInv
    <2>9. ASSUME NEW i \in 1..Len(backend_queue'), NEW j \in 1..Len(backend_queue'),
                 i < j
          PROVE  backend_queue'[i].reading <= backend_queue'[j].reading
      <3>1. i \in 1..Len(backend_queue) BY <2>3, <2>4, <2>9
      <3>2. CASE j = Len(backend_queue) + 1
        BY <2>4, <2>8, <3>2
      <3>3. CASE j \in 1..Len(backend_queue)
        BY <1>1, <2>4, <2>9, <3>1, <3>3 DEF BackendInv
      <3>4. QED BY <2>6, <3>2, <3>3
    <2>10. BackendInv'
      BY <1>1, <1>4, <2>1, <2>3, <2>4, <2>5, <2>8, <2>9 DEF BackendInv
    <2>11. QED BY <1>1, <1>2, <1>3, <2>2, <2>10, Frame DEF PipelineInv
  <1>8. QED BY <1>5, <1>6, <1>7 DEF monitorStep

LEMMA RecvStepInv ==
  ASSUME PipelineInv, recvStep
  PROVE  PipelineInv'
  <1>1. SensorInv /\ MonitorInv /\ BackendInv /\ RecvInv /\ HubInv /\ DriverInv
    BY DEF PipelineInv
  <1>2. UNCHANGED <<driverVars, sensorVars, monitorVars, clientVars, monitor_queue>>
    BY DEF recvStep, recv_receive, recv_get, recv_update, BroadcastRobot
  <1>3. /\ UNCHANGED sensorParts /\ UNCHANGED monitorParts
        /\ UNCHANGED <<monitorPc, robot_msg>>
    BY <1>2 DEF driverVars, sensorVars, monitorVars, sensorParts, monitorParts
  <1>4. DriverInv'
    BY <1>1, <1>2 DEF DriverInv, driverVars, sensorVars
  <1>5. CASE recv_receive
    <2>1. /\ recvPc = "receive" /\ recvPc' = "get" /\ backend_queue # <<>>
          /\ robot' = Head(backend_queue) /\ backend_queue' = Tail(backend_queue)
          /\ UNCHANGED <<toy_be, db, hubMessage>> /\ UNCHANGED hubParts
      BY <1>5, <1>2 DEF recv_receive, hubVars, hubParts, clientVars
    <2>2. /\ backend_queue \in Seq(Infos) /\ Len(backend_queue) \in Nat \ {0}
          /\ robot \in Infos /\ robot_msg \in Infos /\ hubMessage \in Infos
      BY <1>1, <2>1, EmptySeq DEF BackendInv, RecvInv
    <2>3. /\ backend_queue' \in Seq(Infos)
          /\ Len(backend_queue') = Len(backend_queue) - 1
          /\ \A i \in 1..Len(backend_queue') :
               backend_queue'[i] = backend_queue[i + 1]
          /\ robot' = backend_queue[1] /\ robot' \in Infos
      BY <2>1, <2>2, HeadTailProperties
    <2>4. ASSUME NEW i \in 1..Len(backend_queue')
          PROVE  /\ i + 1 \in 1..Len(backend_queue) /\ 1 \in 1..Len(backend_queue)
                 /\ 1 < i + 1 /\ backend_queue'[i] = backend_queue[i + 1]
      BY <2>2, <2>3
    <2>5. 1 \in 1..Len(backend_queue) BY <2>2
    <2>6. robot.reading <= robot'.reading /\ robot'.reading <= robot_msg.reading
      BY <1>1, <2>3, <2>5 DEF BackendInv
    <2>7. \A i \in 1..Len(backend_queue') :
            /\ robot'.reading <= backend_queue'[i].reading
            /\ backend_queue'[i].reading <= robot_msg.reading
      BY <1>1, <2>3, <2>4 DEF BackendInv
    <2>8. ASSUME NEW i \in 1..Len(backend_queue'), NEW j \in 1..Len(backend_queue'),
                 i < j
          PROVE  backend_queue'[i].reading <= backend_queue'[j].reading
      <3>1. i + 1 < j + 1 BY <2>2, <2>3, <2>8
      <3>2. QED BY <1>1, <2>4, <3>1 DEF BackendInv
    <2>9. monitorPc = "send" \/ backend_queue[Len(backend_queue)] = robot_msg
      BY <1>1, <2>1 DEF BackendInv
    <2>10. \/ monitorPc = "send"
           \/ backend_queue' = <<>> /\ robot' = robot_msg
           \/ backend_queue' # <<>> /\ backend_queue'[Len(backend_queue')] = robot_msg
      <3>1. CASE Len(backend_queue) = 1
        <4>1. Len(backend_queue') = 0 BY <2>3, <3>1
        <4>2. backend_queue' = <<>> BY <2>3, <4>1, EmptySeq
        <4>3. QED BY <2>3, <2>9, <3>1, <4>2
      <3>2. CASE Len(backend_queue) # 1
        <4>1. /\ Len(backend_queue') \in 1..Len(backend_queue')
              /\ Len(backend_queue') + 1 = Len(backend_queue)
          BY <2>2, <2>3, <3>2
        <4>2. backend_queue' # <<>> BY <4>1
        <4>3. QED BY <2>3, <2>9, <4>1, <4>2
      <3>3. QED BY <3>1, <3>2
    <2>11. Len(backend_queue') <= BackendMax
      BY <1>1, <2>2, <2>3, InfoFacts DEF BackendInv
    <2>12. BackendInv'
      BY <1>1, <1>3, <2>2, <2>3, <2>6, <2>7, <2>8, <2>10, <2>11 DEF BackendInv
    <2>13. hubMessage.reading <= robot'.reading
      <3>1. hubMessage.reading <= robot.reading BY <1>1 DEF RecvInv
      <3>2. /\ hubMessage.reading \in Int /\ robot.reading \in Int
            /\ robot'.reading \in Int
        BY <2>2, <2>3, ReadingsAreInts
      <3>3. QED BY <2>6, <3>1, <3>2
    <2>14. RecvInv'
      BY <1>1, <2>1, <2>3, <2>13 DEF RecvInv
    <2>15. QED BY <1>1, <1>3, <1>4, <2>1, <2>12, <2>14, Frame DEF PipelineInv
  <1>6. CASE recv_get \/ recv_update
    <2>1. /\ recvPc' \in {"update", "broadcast"} /\ toy_be' \in {"up", "crashed"}
          /\ db' \in {db, <<robot>>}
          /\ UNCHANGED <<robot, hubMessage>> /\ UNCHANGED hubParts
          /\ UNCHANGED backendParts
      BY <1>6, <1>2 DEF recv_get, recv_update, hubVars, hubParts, clientVars,
                        backendParts, monitorVars
    <2>2. db' \in InfoSeqs
      BY <1>1, <2>1, InfoFacts DEF RecvInv
    <2>3. RecvInv' BY <1>1, <2>1, <2>2 DEF RecvInv
    <2>4. QED BY <1>1, <1>3, <1>4, <2>1, <2>3, Frame DEF PipelineInv
  <1>7. CASE BroadcastRobot
    <2>1. /\ recvPc = "broadcast" /\ recvPc' = "receive"
          /\ hubClient = {} /\ hubMessage' = robot /\ hubTodo' = clients
          /\ UNCHANGED <<toy_be, robot, db, hubClient, clients, conn, stalled, shown>>
          /\ UNCHANGED backendParts
      BY <1>7, <1>2 DEF BroadcastRobot, hubSelects, clientVars, backendParts,
                        monitorVars
    <2>2. /\ robot \in Infos /\ hubMessage \in Infos
          /\ hubMessage.reading <= robot.reading
          /\ robot.reading \in Int /\ hubMessage.reading \in Int
      BY <1>1, ReadingsAreInts DEF RecvInv
    <2>3. RecvInv' BY <1>1, <2>1, <2>2 DEF RecvInv
    <2>4. \A c \in Clients : shown[c] # <<>> => shown[c][1].reading <= robot.reading
      <3>1. ASSUME NEW c \in Clients, shown[c] # <<>>
            PROVE  shown[c][1].reading <= robot.reading
        <4>1. shown[c][1].reading <= hubMessage.reading BY <1>1, <3>1 DEF HubInv
        <4>2. shown[c][1] \in Infos BY <1>1, <3>1 DEF HubInv, InfoSeqs
        <4>3. shown[c][1].reading \in Int BY <4>2, ReadingsAreInts
        <4>4. QED BY <2>2, <4>1, <4>3
      <3>2. QED BY <3>1
    <2>5. HubInv'
      BY <1>1, <2>1, <2>2, <2>4 DEF HubInv, HubWritesOpenSockets
    <2>6. QED BY <1>1, <1>3, <1>4, <2>1, <2>3, <2>5, Frame DEF PipelineInv
  <1>8. QED BY <1>5, <1>6, <1>7 DEF recvStep

-----------------------------------------------------------------------------
(* HubStart, the connections, and the handlers that edit the record.       *)
ClientStep(c) ==
  \/ hub_next(c) \/ client_Write(c) \/ client_Write_error(c) \/ ServeHTTP(c)
  \/ hub_register(c) \/ client_Read_error(c) \/ hub_unregister(c)
  \/ socket_Close(c) \/ peer_stalls(c)

LEMMA HubStepInv ==
  ASSUME HubInv, NEW c \in Clients, ClientStep(c)
  PROVE  HubInv'
  <1>1. /\ conn \in [Clients -> ConnStates]
        /\ shown \in [Clients -> InfoSeqs]
        /\ hubMessage \in Infos /\ hubMessage.reading \in Int
    BY ReadingsAreInts DEF HubInv
  <1>2. CASE hub_next(c)
    <2>1. /\ hubClient = {} /\ c \in hubTodo /\ hubClient' = {c}
          /\ hubTodo' = hubTodo \ {c}
          /\ UNCHANGED <<hubMessage, clients, conn, stalled, shown>>
      BY <1>2 DEF hub_next, clientVars
    <2>2. QED BY <2>1 DEF HubInv, HubWritesOpenSockets
  <1>3. CASE client_Write(c)
    <2>1. /\ c \in hubClient /\ hubClient' = {}
          /\ shown' = [shown EXCEPT ![c] = <<hubMessage>>]
          /\ UNCHANGED <<hubMessage, hubTodo, clients, conn, stalled>>
      BY <1>3 DEF client_Write
    <2>2. /\ shown' \in [Clients -> InfoSeqs]
          /\ shown'[c] = <<hubMessage>>
          /\ \A d \in Clients : d # c => shown'[d] = shown[d]
      BY <1>1, <2>1, InfoFacts
    <2>3. c \in clients BY <2>1 DEF HubInv, HubWritesOpenSockets
    <2>4. \A d \in hubClient : d = c BY <2>1 DEF HubInv
    <2>5. shown'[c][1].reading <= hubMessage.reading
      BY <1>1, <2>2
    <2>6. QED BY <2>1, <2>2, <2>3, <2>4, <2>5 DEF HubInv, HubWritesOpenSockets
  <1>4. CASE client_Write_error(c)
    <2>1. /\ c \in hubClient /\ hubClient' = {}
          /\ conn' = [conn EXCEPT ![c] = IF @ = "open" THEN "lost" ELSE @]
          /\ UNCHANGED <<hubMessage, hubTodo, clients, stalled, shown>>
      BY <1>4 DEF client_Write_error
    <2>2. \A d \in hubClient : d = c BY <2>1 DEF HubInv
    <2>3. /\ conn' \in [Clients -> ConnStates]
          /\ conn'[c] = IF conn[c] = "open" THEN "lost" ELSE conn[c]
          /\ \A d \in Clients : d # c => conn'[d] = conn[d]
      BY <1>1, <2>1 DEF ConnStates
    <2>4. QED BY <2>1, <2>2, <2>3 DEF HubInv, HubWritesOpenSockets
  <1>5. CASE ServeHTTP(c) \/ client_Read_error(c)
    <2>1. PICK to \in {"register", "unregister"} :
            /\ conn' = [conn EXCEPT ![c] = to]
            /\ conn[c] \in (IF to = "register" THEN {"none"} ELSE {"open", "lost"})
            /\ UNCHANGED <<hubMessage, hubTodo, hubClient, clients, stalled, shown>>
      BY <1>5 DEF ServeHTTP, client_Read_error, hubVars
    <2>2. /\ conn' \in [Clients -> ConnStates]
          /\ conn'[c] = to
          /\ \A d \in Clients : d # c => conn'[d] = conn[d]
      BY <1>1, <2>1 DEF ConnStates
    <2>3. QED BY <2>1, <2>2 DEF HubInv, HubWritesOpenSockets
  <1>6. CASE hub_register(c)
    <2>1. /\ conn' = [conn EXCEPT ![c] = "open"] /\ clients' = clients \cup {c}
          /\ conn[c] = "register"
          /\ UNCHANGED <<hubMessage, hubTodo, hubClient, stalled, shown>>
      BY <1>6 DEF hub_register, hubVars
    <2>2. /\ conn' \in [Clients -> ConnStates]
          /\ conn'[c] = "open"
          /\ \A d \in Clients : d # c => conn'[d] = conn[d]
      BY <1>1, <2>1 DEF ConnStates
    <2>3. c \notin clients /\ shown[c] = <<>>
      BY <2>1 DEF HubInv, HubWritesOpenSockets
    <2>4. QED BY <2>1, <2>2, <2>3 DEF HubInv, HubWritesOpenSockets
  <1>7. CASE hub_unregister(c)
    <2>1. /\ conn' = [conn EXCEPT ![c] = "closing"] /\ clients' = clients \ {c}
          /\ hubTodo = {} /\ hubClient = {}
          /\ UNCHANGED <<hubMessage, hubTodo, hubClient, stalled, shown>>
      BY <1>7 DEF hub_unregister, hubVars, hubSelects
    <2>2. /\ conn' \in [Clients -> ConnStates]
          /\ conn'[c] = "closing"
          /\ \A d \in Clients : d # c => conn'[d] = conn[d]
      BY <1>1, <2>1 DEF ConnStates
    <2>3. QED BY <2>1, <2>2 DEF HubInv, HubWritesOpenSockets
  <1>8. CASE socket_Close(c)
    <2>1. /\ conn' = [conn EXCEPT ![c] = "none"] /\ conn[c] = "closing"
          /\ stalled' = stalled \ {c} /\ shown' = [shown EXCEPT ![c] = <<>>]
          /\ UNCHANGED <<hubMessage, hubTodo, hubClient, clients>>
      BY <1>8 DEF socket_Close, hubVars
    <2>2. /\ conn' \in [Clients -> ConnStates]
          /\ conn'[c] = "none"
          /\ \A d \in Clients : d # c => conn'[d] = conn[d]
      BY <1>1, <2>1 DEF ConnStates
    <2>3. /\ shown' \in [Clients -> InfoSeqs]
          /\ shown'[c] = <<>>
          /\ \A d \in Clients : d # c => shown'[d] = shown[d]
      BY <1>1, <2>1, InfoFacts
    <2>4. QED BY <2>1, <2>2, <2>3 DEF HubInv, HubWritesOpenSockets
  <1>9. CASE peer_stalls(c)
    <2>1. /\ stalled' = stalled \cup {c}
          /\ UNCHANGED <<hubMessage, hubTodo, hubClient, clients, conn, shown>>
      BY <1>9 DEF peer_stalls, hubVars
    <2>2. QED BY <2>1 DEF HubInv, HubWritesOpenSockets
  <1>10. QED BY <1>2, <1>3, <1>4, <1>5, <1>6, <1>7, <1>8, <1>9 DEF ClientStep

LEMMA ClientStepInv ==
  ASSUME PipelineInv, NEW c \in Clients, ClientStep(c)
  PROVE  PipelineInv'
  <1>1. UNCHANGED <<driverVars, sensorVars, monitorVars, recvVars, hubMessage,
                    monitor_queue, backend_queue>>
    BY DEF ClientStep, hub_next, client_Write, client_Write_error, ServeHTTP,
           hub_register, client_Read_error, hub_unregister, socket_Close, peer_stalls,
           hubVars
  <1>2. /\ UNCHANGED sensorParts /\ UNCHANGED monitorParts
        /\ UNCHANGED backendParts /\ UNCHANGED recvParts
    BY <1>1 DEF driverVars, sensorVars, monitorVars, recvVars, sensorParts,
                monitorParts, backendParts, recvParts
  <1>3. DriverInv'
    BY <1>1 DEF PipelineInv, DriverInv, driverVars, sensorVars
  <1>4. HubInv' BY HubStepInv DEF PipelineInv
  <1>5. QED BY <1>2, <1>3, <1>4, Frame DEF PipelineInv

LEMMA EditStepInv ==
  ASSUME PipelineInv, robotDelete \/ \E n \in 0..Readings : robotPut(n)
  PROVE  PipelineInv'
  <1>1. /\ UNCHANGED <<driverVars, sensorVars, monitorVars, toy_be, recvPc, robot,
                       hubVars, clientVars, monitor_queue, backend_queue>>
        /\ db' = <<>> \/ \E n \in 0..Readings : db' = <<Info(n)>>
    BY DEF robotDelete, robotPut
  <1>2. db' \in InfoSeqs BY <1>1, InfoFacts
  <1>3. /\ UNCHANGED sensorParts /\ UNCHANGED monitorParts
        /\ UNCHANGED backendParts /\ UNCHANGED hubParts
        /\ UNCHANGED <<toy_be, recvPc, robot, hubMessage>>
    BY <1>1 DEF driverVars, sensorVars, monitorVars, hubVars, clientVars,
                sensorParts, monitorParts, backendParts, hubParts
  <1>4. RecvInv' BY <1>2, <1>3 DEF PipelineInv, RecvInv
  <1>5. DriverInv'
    BY <1>1 DEF PipelineInv, DriverInv, driverVars, sensorVars
  <1>6. QED BY <1>3, <1>4, <1>5, Frame DEF PipelineInv

LEMMA StepInv ==
  ASSUME PipelineInv, [Next]_vars
  PROVE  PipelineInv'
  <1>1. CASE UNCHANGED vars
    <2>1. /\ UNCHANGED sensorParts /\ UNCHANGED monitorParts /\ UNCHANGED driverVars
          /\ UNCHANGED backendParts /\ UNCHANGED recvParts /\ UNCHANGED hubParts
      BY <1>1 DEF vars, driverVars, sensorVars, monitorVars, recvVars, hubVars,
                  clientVars, sensorParts, monitorParts, backendParts, recvParts,
                  hubParts
    <2>2. DriverInv'
      BY <2>1 DEF PipelineInv, DriverInv, driverVars, sensorParts
    <2>3. QED BY <2>1, <2>2, Frame DEF PipelineInv
  <1>2. CASE Next
    <2>1. CASE DriverStep BY <2>1, DriverStepInv
    <2>2. CASE \E c \in Clients : ClientStep(c) BY <2>2, ClientStepInv
    <2>3. CASE sensorStep \/ toy_dump_state \/ monitorStep \/ recvStep
      BY <2>3, SensorStepInv, DumpStepInv, MonitorStepInv, RecvStepInv
    <2>4. CASE robotDelete \/ \E n \in 0..Readings : robotPut(n)
      BY <2>4, EditStepInv
    <2>5. QED
      BY <1>2, <2>1, <2>2, <2>3, <2>4 DEF Next, DriverStep, ClientStep, hubStep
  <1>3. QED BY <1>1, <1>2

LEMMA FlagsStep ==
  ASSUME Flags, [Next]_vars
  PROVE  Flags'
  <1>1. CASE DriverStep \/ sensorStep
    BY <1>1 DEF Flags, DriverStep, sensor_timer_callback, workqueue_fn, store,
       sysfs_notify, sensorStep, sensor_poll, sensor_read, sensor_write_shm,
       sensor_send, driverVars
  <1>2. ASSUME UNCHANGED driverVars PROVE Flags'
    BY <1>2 DEF Flags, driverVars
  <1>3. CASE toy_dump_state \/ monitorStep \/ recvStep
    BY <1>2, <1>3 DEF toy_dump_state, monitorStep, monitor_receive,
       monitor_read_shm, monitor_send, recvStep, recv_receive, recv_get,
       recv_update, BroadcastRobot
  <1>4. CASE \E c \in Clients : ClientStep(c)
    BY <1>2, <1>4 DEF ClientStep, hub_next, client_Write, client_Write_error,
       ServeHTTP, hub_register, client_Read_error, hub_unregister, socket_Close,
       peer_stalls
  <1>5. CASE robotDelete \/ \E n \in 0..Readings : robotPut(n)
    BY <1>2, <1>5 DEF robotDelete, robotPut
  <1>6. CASE UNCHANGED vars
    BY <1>2, <1>6 DEF vars
  <1>7. QED
    BY <1>1, <1>3, <1>4, <1>5, <1>6 DEF Next, DriverStep, ClientStep, hubStep

-----------------------------------------------------------------------------
(* What the clients see.                                                   *)
seen(c) == IF shown[c] = <<>> THEN -1 ELSE shown[c][1].reading
DisplayStep == [Display!Next]_(Display!vars)

LEMMA SameDisplay ==
  ASSUME UNCHANGED <<value, shown>>
  PROVE  DisplayStep
  BY DEF DisplayStep, Display!vars

LEMMA MeasureStep ==
  ASSUME workqueue_fn \/ store
  PROVE  DisplayStep
  <1>1. value < Readings /\ value' = value + 1 /\ UNCHANGED shown
    BY DEF workqueue_fn, store, clientVars
  <1>2. Display!Measure BY <1>1 DEF Display!Measure
  <1>3. QED BY <1>2 DEF DisplayStep, Display!Next

LEMMA ShowStep ==
  ASSUME PipelineInv, NEW c \in Clients, client_Write(c)
  PROVE  DisplayStep
  <1>1. /\ shown' = [shown EXCEPT ![c] = <<hubMessage>>] /\ UNCHANGED value
        /\ shown \in [Clients -> InfoSeqs]
    BY DEF client_Write, driverVars, PipelineInv, HubInv
  <1>2. PICK n \in 0..Readings : n = hubMessage.reading /\ n <= value
    <2>1. /\ hubMessage \in Infos /\ robot \in Infos /\ robot_msg \in Infos
          /\ shm \in Int /\ buff \in Int /\ value \in Int
      BY DEF PipelineInv, RecvInv, BackendInv, SensorInv
    <2>2. /\ hubMessage.reading \in 0..Readings
          /\ robot.reading \in Int /\ robot_msg.reading \in Int
      BY <2>1, InfoFacts
    <2>3. /\ hubMessage.reading <= robot.reading /\ robot.reading <= robot_msg.reading
          /\ robot_msg.reading <= shm /\ shm <= buff /\ buff <= value
      BY DEF PipelineInv, RecvInv, BackendInv, MonitorInv, SensorInv
    <2>4. QED BY <2>1, <2>2, <2>3
  <1>3. seen(c) <= n
    <2>1. shown[c] # <<>> => shown[c][1].reading <= n
      BY <1>2 DEF PipelineInv, HubInv
    <2>2. QED BY <1>2, <2>1 DEF seen
  <1>4. /\ seen(c)' = n
        /\ \A d \in Clients : d # c => seen(d)' = seen(d)
    BY <1>1, <1>2 DEF seen
  <1>5. [d \in Clients |-> seen(d)]' = [[d \in Clients |-> seen(d)] EXCEPT ![c] = n]
    BY <1>4
  <1>6. Display!Show(c, n)
    BY <1>1, <1>2, <1>3, <1>5 DEF Display!Show, seen
  <1>7. QED BY <1>6 DEF DisplayStep, Display!Next

LEMMA LeaveStep ==
  ASSUME PipelineInv, NEW c \in Clients, socket_Close(c)
  PROVE  DisplayStep
  <1>1. /\ shown' = [shown EXCEPT ![c] = <<>>] /\ UNCHANGED value
        /\ shown \in [Clients -> InfoSeqs]
    BY DEF socket_Close, driverVars, PipelineInv, HubInv
  <1>2. /\ seen(c)' = -1
        /\ \A d \in Clients : d # c => seen(d)' = seen(d)
    BY <1>1 DEF seen
  <1>3. [d \in Clients |-> seen(d)]' = [[d \in Clients |-> seen(d)] EXCEPT ![c] = -1]
    BY <1>2
  <1>4. Display!Leave(c) BY <1>1, <1>3 DEF Display!Leave, seen
  <1>5. QED BY <1>4 DEF DisplayStep, Display!Next

LEMMA StepDisplay ==
  ASSUME PipelineInv, [Next]_vars
  PROVE  DisplayStep
  <1>1. CASE workqueue_fn \/ store BY <1>1, MeasureStep
  <1>2. CASE \E c \in Clients : client_Write(c) \/ socket_Close(c)
    BY <1>2, ShowStep, LeaveStep
  <1>3. CASE sensor_timer_callback \/ \E w \in {"work", "store"} : sysfs_notify(w)
    BY <1>3, SameDisplay DEF sensor_timer_callback, sysfs_notify, clientVars
  <1>4. CASE sensorStep \/ toy_dump_state \/ monitorStep
    BY <1>4, SameDisplay DEF sensorStep, sensor_poll, sensor_read,
       sensor_write_shm, sensor_send, toy_dump_state, monitorStep,
       monitor_receive, monitor_read_shm, monitor_send, driverVars, clientVars
  <1>5. CASE recvStep \/ robotDelete \/ \E n \in 0..Readings : robotPut(n)
    BY <1>5, SameDisplay DEF recvStep, recv_receive, recv_get, recv_update,
       BroadcastRobot, robotDelete, robotPut, driverVars, clientVars
  <1>6. ASSUME NEW c \in Clients,
               hub_next(c) \/ client_Write_error(c) \/ ServeHTTP(c)
               \/ hub_register(c) \/ client_Read_error(c) \/ hub_unregister(c)
               \/ peer_stalls(c)
        PROVE  DisplayStep
    BY <1>6, SameDisplay DEF hub_next, client_Write_error, ServeHTTP,
       hub_register, client_Read_error, hub_unregister, peer_stalls, driverVars,
       clientVars
  <1>7. CASE UNCHANGED vars
    BY <1>7, SameDisplay DEF vars, driverVars, clientVars
  <1>8. CASE \E c \in Clients : ClientStep(c)
    BY <1>2, <1>6, <1>8 DEF ClientStep
  <1>9. CASE Next
    BY <1>1, <1>3, <1>4, <1>5, <1>8, <1>9 DEF Next, hubStep, ClientStep
  <1>10. QED BY <1>7, <1>9

-----------------------------------------------------------------------------
(* The strengthening is an invariant of the pipeline (sensor.c:144-195,    *)
(* input.c:113-150, system_server.c:262-316, hub.go:28-50).                *)
THEOREM PipelineInvariant == Spec => []PipelineInv
  <1>1. PipelineInv /\ [Next]_vars => PipelineInv'
    BY StepInv
  <1>2. QED BY <1>1, InitInv, PTL DEF Spec

(* Every stage of the pipeline holds readings, and its queues keep their   *)
(* bounds (input.c:113-150, system_server.c:262-316).                      *)
THEOREM PipelineTypeCorrect == Spec => []TypeOK
  <1>1. Init => Flags
    BY DEF Init, Flags
  <1>2. Flags /\ [Next]_vars => Flags'
    BY FlagsStep
  <1>3. QED BY <1>1, <1>2, TypeParts, PipelineInvariant, PTL DEF Spec

(* The range loop of HubStart visits registered, open sockets only         *)
(* (hub.go:28-50, client.go:79-95).                                        *)
THEOREM HubVisitsOpenSockets == Spec => []HubWritesOpenSockets
  <1>1. PipelineInv => HubWritesOpenSockets
    BY DEF PipelineInv, HubInv
  <1>2. QED BY <1>1, PipelineInvariant, PTL

(* When nothing is on its way, every open client that shows a reading      *)
(* shows the driver's last one (input.c:137-146, system_server.c:281-297). *)
THEOREM QuietMeansCurrent == Spec => []CurrentWhenQuiet
  <1>1. ASSUME PipelineInv, Quiet, shmid = "attached", NEW c \in Clients,
               conn[c] = "open"
        PROVE  shown[c] \in {<<>>, <<Info(value)>>}
    <2>1. value = buff
      BY <1>1 DEF PipelineInv, DriverInv, Quiet
    <2>2. shm = buff
      BY <1>1 DEF PipelineInv, SensorInv, Quiet
    <2>3. robot_msg = Info(shm)
      <3>1. sensorPc = "poll" /\ monitor_queue = <<>> /\ monitorPc = "receive"
        BY <1>1 DEF Quiet
      <3>2. ~hasData BY <3>1 DEF hasData
      <3>3. QED BY <1>1, <3>1, <3>2 DEF PipelineInv, MonitorInv
    <2>4. robot = robot_msg
      BY <1>1 DEF PipelineInv, BackendInv, Quiet
    <2>5. hubMessage = robot
      BY <1>1 DEF PipelineInv, RecvInv, Quiet
    <2>6. shown[c] = <<>> \/ shown[c] = <<hubMessage>>
      BY <1>1 DEF PipelineInv, HubInv, Quiet
    <2>7. QED BY <2>1, <2>2, <2>3, <2>4, <2>5, <2>6
  <1>2. PipelineInv => CurrentWhenQuiet
    <2>1. PipelineInv /\ Quiet /\ shmid = "attached" =>
            \A c \in Clients : conn[c] = "open" => shown[c] \in {<<>>, <<Info(value)>>}
      BY <1>1
    <2>2. QED BY <2>1 DEF CurrentWhenQuiet
  <1>3. QED BY <1>2, PipelineInvariant, PTL

(* The pipeline implements Telemetry: whatever the interleaving and        *)
(* whoever edits the record, no display goes back to an older reading      *)
(* (input.c:113-150, system_server.c:262-316, hub.go:28-50).               *)
THEOREM PipelineImplementsTelemetry == Spec => ImplementsTelemetry
  <1>1. Init => Display!Init
    BY DEF Init, Display!Init
  <1>2. PipelineInv /\ [Next]_vars => [Display!Next]_(Display!vars)
    BY StepDisplay DEF DisplayStep
  <1>3. QED
    BY <1>1, <1>2, PipelineInvariant, PTL
       DEF Spec, ImplementsTelemetry, Display!Spec

=============================================================================
