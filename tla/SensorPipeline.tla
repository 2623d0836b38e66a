--------------------------- MODULE SensorPipeline ---------------------------
(***************************************************************************)
(* The way of a temperature reading from the sensor to the web GUI, and of *)
(* the dump command that shares a part of it:                              *)
(*                                                                         *)
(*   sensor driver    drivers/sensor/sensor.c: a timer queues work, which  *)
(*                    reads the sensor, stores the attribute notify and    *)
(*                    wakes its readers                                    *)
(*   sensor thread    ui/input.c: polls the attribute, writes the value to *)
(*                    shared memory, sends SENSOR_DATA to monitor_queue    *)
(*   command thread   ui/input.c: dump sends DUMP_STATE to monitor_queue   *)
(*   monitor thread   system/system_server.c: reads the shared memory and  *)
(*                    sends the temperature to backend_queue               *)
(*   RecvMessageQ     toy-be/pkg/robots: stores it and broadcasts it       *)
(*   HubStart         toy-be/pkg/robots: writes it to every web client     *)
(*                                                                         *)
(* All of them run concurrently.  A queue send blocks while the queue is   *)
(* full, a Go channel operation until the other side takes part.  A value  *)
(* is known by the number n of its reading: reading n is Temperature[n] in *)
(* hundredths of a degree; reading 0 is the driver's initial value 0.      *)
(***************************************************************************)
EXTENDS Integers, Sequences

CONSTANTS
  Clients,       (* web socket connections                                 *)
  Readings,      (* how many readings are taken: a bound                   *)
  Temperature,   (* what they are                                          *)
  UintModulus,   (* 2^32 for the unsigned int of robot_info_t; smaller for
                    TLC, whose integers are 32 bits                        *)
  MonitorMax,    (* mq_maxmsg of monitor_queue: NUM_MESSAGES = 100         *)
  BackendMax,    (* ... of backend_queue                                   *)
  Environment    (* what the world around the pipeline does: "dump" (the
                    dump command is typed), "store" (a user writes the
                    driver's attribute), "edit" (HTTP clients write the
                    robot's record), "full" (the data base cannot be
                    written), "stall" (a connected peer stops reading its
                    socket)                                                *)

ASSUME ReadingsAssumption ==
  Readings \in Nat /\ Temperature \in [0..Readings -> Int] /\ Temperature[0] = 0
ASSUME QueuesAssumption ==
  {MonitorMax, BackendMax} \subseteq Nat \ {0}
ASSUME ModulusAssumption == UintModulus \in Nat \ {0}
ASSUME EnvironmentAssumption ==
  Environment \subseteq {"dump", "store", "edit", "full", "stall"}

VARIABLES
  workPending,    (* the work item is queued                               *)
  notifying,      (* writers of notify that have not yet called
                     sysfs_notify: "work" and "store"                      *)
  value,          (* notify.value                                          *)
  notified,       (* poll of the attribute would return                    *)
  sensorPc,       (* sensor_thread: "poll", "read", "shm", "send"          *)
  buff,           (* sensor_thread's buff                                  *)
  shm,            (* the_sensor_info -> temp                               *)
  shmid,          (* what toy_shm_create in input() achieved: "attached",
                     "created" (shmget only) or "none" (the id is -1)      *)
  monitor_queue,
  server,         (* system_server: "up" or "crashed"                      *)
  monitorPc,      (* monitor_thread: "receive", "attached", "send"         *)
  robot_msg,      (* monitor_thread's message                              *)
  backend_queue,
  toy_be,         (* the Go back end: "up" or "crashed"                    *)
  recvPc,         (* RecvMessageQ: "receive", "get", "update", "broadcast" *)
  robot,          (* RecvMessageQ's message                                *)
  db,             (* the robot's record: <<>> or <<info>>                  *)
  hubMessage,     (* what HubStart is broadcasting                         *)
  hubTodo,        (* clients its range loop has still to visit             *)
  hubClient,      (* clients, at most one, it is writing to                *)
  clients,        (* Hub.clients                                           *)
  conn,           (* connection: "none", "register", "open", "lost" (a
                     write has failed), "unregister", "closing"            *)
  stalled,        (* connected peers that do not read                      *)
  shown           (* what each peer received last: <<>> or <<info>>        *)

driverVars  == <<workPending, notifying, value, notified>>
sensorVars  == <<sensorPc, buff, shm, shmid>>
monitorVars == <<server, monitorPc, robot_msg>>
recvVars    == <<toy_be, recvPc, robot, db>>
hubVars     == <<hubMessage, hubTodo, hubClient>>
clientVars  == <<clients, conn, stalled, shown>>
vars == <<driverVars, sensorVars, monitorVars, recvVars, hubVars,
          clientVars, monitor_queue, backend_queue>>

(* C's temp / 100.                                                         *)
wholeDegrees(t) == IF t >= 0 THEN t \div 100 ELSE -((-t) \div 100)

(* robot_msg.data.info.temperature = (int)(temp / 100), an unsigned int.   *)
degrees(t) == wholeDegrees(t) % UintModulus

Info(n) == [reading |-> n, temperature |-> degrees(Temperature[n])]
Infos == {Info(n) : n \in 0..Readings}

(* What toy_shm_create can achieve: shmget and shmat, shmget alone, none.  *)
ShmStates == {"attached", "created", "none"}

-----------------------------------------------------------------------------
(* Every process has started; InitRobots has put the robot's record into   *)
(* the data base with temperature 0.0.  A first poll of the attribute      *)
(* returns at once.                                                        *)
Init ==
  /\ workPending = FALSE /\ notifying = {} /\ value = 0 /\ notified = TRUE
  /\ sensorPc = "poll" /\ buff = 0 /\ shm = 0 /\ shmid \in ShmStates
  /\ monitor_queue = <<>>
  /\ server = "up" /\ monitorPc = "receive" /\ robot_msg = Info(0)
  /\ backend_queue = <<>>
  /\ toy_be = "up" /\ recvPc = "receive" /\ robot = Info(0) /\ db = <<Info(0)>>
  /\ hubMessage = Info(0) /\ hubTodo = {} /\ hubClient = {}
  /\ clients = {} /\ stalled = {}
  /\ conn = [c \in Clients |-> "none"]
  /\ shown = [c \in Clients |-> <<>>]

-----------------------------------------------------------------------------
(* The sensor driver.                                                      *)

(* queue_work does nothing when the item is already queued.                *)
sensor_timer_callback ==
  /\ value < Readings
  /\ workPending' = TRUE
  /\ UNCHANGED <<notifying, value, notified, sensorVars,
                 monitorVars, recvVars, hubVars, clientVars, monitor_queue,
                 backend_queue>>

(* workqueue_fn: read_temperature, notify.value = temperature.             *)
workqueue_fn ==
  /\ workPending
  /\ "work" \notin notifying
  /\ value < Readings
  /\ workPending' = FALSE
  /\ value' = value + 1
  /\ notifying' = notifying \cup {"work"}
  /\ UNCHANGED <<notified, sensorVars, monitorVars, recvVars,
                 hubVars, clientVars, monitor_queue, backend_queue>>

(* store: a user writes /sys/toy/notify.                                   *)
store ==
  /\ "store" \in Environment \ notifying
  /\ value < Readings
  /\ value' = value + 1
  /\ notifying' = notifying \cup {"store"}
  /\ UNCHANGED <<workPending, notified, sensorVars, monitorVars,
                 recvVars, hubVars, clientVars, monitor_queue, backend_queue>>

sysfs_notify(w) ==
  /\ w \in notifying
  /\ notifying' = notifying \ {w}
  /\ notified' = TRUE
  /\ UNCHANGED <<workPending, value, sensorVars, monitorVars,
                 recvVars, hubVars, clientVars, monitor_queue, backend_queue>>

-----------------------------------------------------------------------------
(* sensor_thread.  A poll that times out goes on to read as well.          *)
sensor_poll ==
  /\ sensorPc = "poll"
  /\ sensorPc' = "read"
  /\ UNCHANGED <<driverVars, buff, shm, shmid, monitorVars,
                 recvVars, hubVars, clientVars, monitor_queue, backend_queue>>

(* read of the attribute: the event is consumed, show; lseek.  It does not *)
(* fail while the driver is loaded.                                        *)
sensor_read ==
  /\ sensorPc = "read"
  /\ sensorPc' = "shm"
  /\ buff' = value
  /\ notified' = FALSE
  /\ UNCHANGED <<workPending, notifying, value, shm, shmid,
                 monitorVars, recvVars, hubVars, clientVars, monitor_queue,
                 backend_queue>>

sensor_write_shm ==
  /\ sensorPc = "shm"
  /\ sensorPc' = "send"
  /\ shm' = IF shmid = "attached" THEN buff ELSE shm
  /\ UNCHANGED <<driverVars, buff, shmid, monitorVars,
                 recvVars, hubVars, clientVars, monitor_queue, backend_queue>>

(* Mutant: the queue takes one message more than mq_maxmsg.                *)
sensor_send_overfills ==
  /\ sensorPc = "send"
  /\ Len(monitor_queue) <= MonitorMax
  /\ monitor_queue' = Append(monitor_queue, "SENSOR_DATA")
  /\ sensorPc' = "poll"
  /\ UNCHANGED <<driverVars, buff, shm, shmid, monitorVars,
                 recvVars, hubVars, clientVars, backend_queue>>

sensor_send ==
  /\ sensorPc = "send"
  /\ Len(monitor_queue) < MonitorMax
  /\ monitor_queue' = Append(monitor_queue, "SENSOR_DATA")
  /\ sensorPc' = "poll"
  /\ UNCHANGED <<driverVars, buff, shm, shmid, monitorVars,
                 recvVars, hubVars, clientVars, backend_queue>>

-----------------------------------------------------------------------------
(* toy_dump_state of the command thread sends DUMP_STATE to monitor_queue, *)
(* after it has sent it to camera_queue, which is not part of this module. *)
toy_dump_state ==
  /\ "dump" \in Environment
  /\ Len(monitor_queue) < MonitorMax
  /\ monitor_queue' = Append(monitor_queue, "DUMP_STATE")
  /\ UNCHANGED <<driverVars, sensorVars, monitorVars, recvVars, hubVars,
                 clientVars, backend_queue>>

-----------------------------------------------------------------------------
(* monitor_thread.                                                         *)

(* mq_receive.  DUMP_STATE: dump_state prints.  SENSOR_DATA: attach the    *)
(* shared memory the message names; without one the thread dereferences    *)
(* (void * )-1 and system_server dies.                                     *)
monitor_receive ==
  LET msg == Head(monitor_queue) IN
  /\ server = "up"
  /\ monitorPc = "receive"
  /\ monitor_queue # <<>>
  /\ monitor_queue' = Tail(monitor_queue)
  /\ \/ /\ msg = "SENSOR_DATA" /\ shmid # "none"
        /\ monitorPc' = "attached"
        /\ UNCHANGED server
     \/ /\ msg = "SENSOR_DATA" /\ shmid = "none"
        /\ server' = "crashed"
        /\ UNCHANGED monitorPc
     \/ /\ msg = "DUMP_STATE"
        /\ UNCHANGED <<server, monitorPc>>
  /\ UNCHANGED <<driverVars, sensorVars, robot_msg, recvVars,
                 hubVars, clientVars, backend_queue>>

monitor_read_shm ==
  /\ monitorPc = "attached"
  /\ robot_msg' = Info(shm)
  /\ monitorPc' = "send"
  /\ UNCHANGED <<driverVars, sensorVars, server, recvVars, hubVars,
                 clientVars, monitor_queue, backend_queue>>

(* Mutant: the queue is opened with O_NONBLOCK and the error ignored.      *)
monitor_send_nonblocking ==
  /\ monitorPc = "send"
  /\ backend_queue' = IF Len(backend_queue) < BackendMax
                      THEN Append(backend_queue, robot_msg) ELSE backend_queue
  /\ monitorPc' = "receive"
  /\ UNCHANGED <<driverVars, sensorVars, server, robot_msg,
                 recvVars, hubVars, clientVars, monitor_queue>>

monitor_send ==
  /\ monitorPc = "send"
  /\ Len(backend_queue) < BackendMax
  /\ backend_queue' = Append(backend_queue, robot_msg)
  /\ monitorPc' = "receive"
  /\ UNCHANGED <<driverVars, sensorVars, server, robot_msg,
                 recvVars, hubVars, clientVars, monitor_queue>>

-----------------------------------------------------------------------------
(* RecvMessageQ and UpdateRobot of toy-be.                                 *)
recv_receive ==
  /\ toy_be = "up"
  /\ recvPc = "receive"
  /\ backend_queue # <<>>
  /\ robot' = Head(backend_queue)
  /\ backend_queue' = Tail(backend_queue)
  /\ recvPc' = "get"
  /\ UNCHANGED <<driverVars, sensorVars, monitorVars, toy_be, db,
                 hubVars, clientVars, monitor_queue>>

(* s.Get: of a record that was deleted it returns nil, the error is        *)
(* logged through a nil logger: a panic.                                   *)
recv_get ==
  /\ toy_be = "up"
  /\ recvPc = "get"
  /\ recvPc' = "update"
  /\ toy_be' = IF db = <<>> THEN "crashed" ELSE "up"
  /\ UNCHANGED <<driverVars, sensorVars, monitorVars, robot, db,
                 hubVars, clientVars, monitor_queue, backend_queue>>

(* s.Update: saves the whole record, or fails and the nil logger panics.   *)
recv_update ==
  /\ toy_be = "up"
  /\ recvPc = "update"
  /\ recvPc' = "broadcast"
  /\ \/ db' = <<robot>> /\ UNCHANGED toy_be
     \/ "full" \in Environment /\ toy_be' = "crashed" /\ UNCHANGED db
  /\ UNCHANGED <<driverVars, sensorVars, monitorVars, robot,
                 hubVars, clientVars, monitor_queue, backend_queue>>

(* HubStart is in its select.                                              *)
hubSelects == toy_be = "up" /\ hubTodo = {} /\ hubClient = {}

(* Mutant: what is broadcast is read back from the data base.              *)
BroadcastRobot_from_db ==
  /\ recvPc = "broadcast"
  /\ hubSelects
  /\ recvPc' = "receive"
  /\ hubMessage' = IF db = <<>> THEN robot ELSE db[1]
  /\ hubTodo' = clients
  /\ UNCHANGED <<driverVars, sensorVars, monitorVars, toy_be, robot,
                 db, hubClient, clientVars, monitor_queue, backend_queue>>

(* Mutant: a select with a default drops the message of a busy hub.        *)
BroadcastRobot_drops ==
  /\ recvPc = "broadcast"
  /\ toy_be = "up"
  /\ recvPc' = "receive"
  /\ hubMessage' = IF hubSelects THEN robot ELSE hubMessage
  /\ hubTodo' = IF hubSelects THEN clients ELSE hubTodo
  /\ UNCHANGED <<driverVars, sensorVars, monitorVars, toy_be, robot,
                 db, hubClient, clientVars, monitor_queue, backend_queue>>

(* BroadcastRobot hands the message to HubStart.                           *)
BroadcastRobot ==
  /\ recvPc = "broadcast"
  /\ hubSelects
  /\ recvPc' = "receive"
  /\ hubMessage' = robot
  /\ hubTodo' = clients
  /\ UNCHANGED <<driverVars, sensorVars, monitorVars, toy_be, robot,
                 db, hubClient, clientVars, monitor_queue, backend_queue>>

-----------------------------------------------------------------------------
(* HubStart: the range over h.clients, in any order.                       *)
hub_next(c) ==
  /\ toy_be = "up"
  /\ hubClient = {}
  /\ c \in hubTodo
  /\ hubClient' = {c}
  /\ hubTodo' = hubTodo \ {c}
  /\ UNCHANGED <<driverVars, sensorVars, monitorVars, recvVars,
                 hubMessage, clientVars, monitor_queue, backend_queue>>

(* client.Write returns: the peer took the message.  No write deadline is  *)
(* set, so it blocks while the peer is stalled.                            *)
client_Write(c) ==
  /\ toy_be = "up"
  /\ c \in hubClient \ stalled
  /\ conn[c] # "lost"
  /\ hubClient' = {}
  /\ shown' = [shown EXCEPT ![c] = <<hubMessage>>]
  /\ UNCHANGED <<driverVars, sensorVars, monitorVars, recvVars,
                 hubMessage, hubTodo, clients, conn, stalled, monitor_queue,
                 backend_queue>>

(* WriteJSON fails: the peer has gone, whether Read knows yet or not.  So  *)
(* does every later write to it.                                           *)
client_Write_error(c) ==
  /\ toy_be = "up"
  /\ c \in hubClient
  /\ hubClient' = {}
  /\ conn' = [conn EXCEPT ![c] = IF @ = "open" THEN "lost" ELSE @]
  /\ UNCHANGED <<driverVars, sensorVars, monitorVars, recvVars, hubMessage,
                 hubTodo, clients, stalled, shown, monitor_queue, backend_queue>>

(* ServeHTTP upgrades a connection and waits for the hub to register it.   *)
ServeHTTP(c) ==
  /\ toy_be = "up"
  /\ conn[c] = "none"
  /\ conn' = [conn EXCEPT ![c] = "register"]
  /\ UNCHANGED <<driverVars, sensorVars, monitorVars, recvVars,
                 hubVars, clients, stalled, shown, monitor_queue, backend_queue>>

hub_register(c) ==
  /\ hubSelects
  /\ conn[c] = "register"
  /\ conn' = [conn EXCEPT ![c] = "open"]
  /\ clients' = clients \cup {c}
  /\ UNCHANGED <<driverVars, sensorVars, monitorVars, recvVars,
                 hubVars, stalled, shown, monitor_queue, backend_queue>>

(* Mutant: the socket is closed and the hub never told.                    *)
client_Read_error_closes(c) ==
  /\ toy_be = "up"
  /\ conn[c] \in {"open", "lost"}
  /\ conn' = [conn EXCEPT ![c] = "closing"]
  /\ UNCHANGED <<driverVars, sensorVars, monitorVars, recvVars,
                 hubVars, clients, stalled, shown, monitor_queue, backend_queue>>

(* client.Read fails: the peer has gone or sent no JSON.  No handler is    *)
(* registered for the messages that do arrive.                             *)
client_Read_error(c) ==
  /\ toy_be = "up"
  /\ conn[c] \in {"open", "lost"}
  /\ conn' = [conn EXCEPT ![c] = "unregister"]
  /\ UNCHANGED <<driverVars, sensorVars, monitorVars, recvVars,
                 hubVars, clients, stalled, shown, monitor_queue, backend_queue>>

(* The hub takes c.hub.unregister <- c;                                    *)
hub_unregister(c) ==
  /\ hubSelects
  /\ conn[c] = "unregister"
  /\ clients' = clients \ {c}
  /\ conn' = [conn EXCEPT ![c] = "closing"]
  /\ UNCHANGED <<driverVars, sensorVars, monitorVars, recvVars,
                 hubVars, stalled, shown, monitor_queue, backend_queue>>

(* then c.socket.Close().                                                  *)
socket_Close(c) ==
  /\ toy_be = "up"
  /\ conn[c] = "closing"
  /\ conn' = [conn EXCEPT ![c] = "none"]
  /\ stalled' = stalled \ {c}
  /\ shown' = [shown EXCEPT ![c] = <<>>]
  /\ UNCHANGED <<driverVars, sensorVars, monitorVars, recvVars,
                 hubVars, clients, monitor_queue, backend_queue>>

(* The peer stops reading its socket.                                      *)
peer_stalls(c) ==
  /\ "stall" \in Environment
  /\ conn[c] \in {"open", "lost", "unregister"}
  /\ stalled' = stalled \cup {c}
  /\ UNCHANGED <<driverVars, sensorVars, monitorVars, recvVars,
                 hubVars, clients, conn, shown, monitor_queue, backend_queue>>

-----------------------------------------------------------------------------
(* The HTTP handlers that write the robot's record: PUT and POST store a   *)
(* record with a temperature the client read before, DELETE removes it.    *)
robotPut(n) ==
  /\ "edit" \in Environment
  /\ toy_be = "up"
  /\ n <= value
  /\ db' = <<Info(n)>>
  /\ UNCHANGED <<driverVars, sensorVars, monitorVars, toy_be,
                 recvPc, robot, hubVars, clientVars, monitor_queue,
                 backend_queue>>

robotDelete ==
  /\ "edit" \in Environment
  /\ toy_be = "up"
  /\ db' = <<>>
  /\ UNCHANGED <<driverVars, sensorVars, monitorVars, toy_be,
                 recvPc, robot, hubVars, clientVars, monitor_queue,
                 backend_queue>>

-----------------------------------------------------------------------------
sensorStep == sensor_poll \/ sensor_read \/ sensor_write_shm \/ sensor_send
monitorStep == monitor_receive \/ monitor_read_shm \/ monitor_send
recvStep == recv_receive \/ recv_get \/ recv_update \/ BroadcastRobot
hubStep == \E c \in Clients : hub_next(c) \/ client_Write(c)

Next ==
  \/ sensor_timer_callback
  \/ workqueue_fn
  \/ store
  \/ \E w \in {"work", "store"} : sysfs_notify(w)
  \/ sensorStep
  \/ toy_dump_state
  \/ monitorStep
  \/ recvStep
  \/ hubStep
  \/ \E c \in Clients : client_Write_error(c)
  \/ \E c \in Clients : ServeHTTP(c)
  \/ \E c \in Clients : hub_register(c)
  \/ \E c \in Clients : client_Read_error(c)
  \/ \E c \in Clients : hub_unregister(c)
  \/ \E c \in Clients : socket_Close(c)
  \/ \E c \in Clients : peer_stalls(c)
  \/ \E n \in 0..Readings : robotPut(n)
  \/ robotDelete

Spec == Init /\ [][Next]_vars

(* Threads and goroutines that can run do run.  poll returns when the      *)
(* attribute was notified.  Senders on a full queue are served in turn,    *)
(* and the hub's select picks among ready channels at random: strong       *)
(* fairness for each.  A write to a peer that is not stalled returns, in   *)
(* one way or the other.                                                   *)
Fairness ==
  /\ \A w \in {"work", "store"} : WF_vars(sysfs_notify(w))
  /\ WF_vars(notified /\ sensor_poll)
  /\ WF_vars(sensor_read) /\ WF_vars(sensor_write_shm)
  /\ SF_vars(sensor_send)
  /\ WF_vars(monitorStep)
  /\ WF_vars(recv_receive) /\ WF_vars(recv_get) /\ WF_vars(recv_update)
  /\ SF_vars(BroadcastRobot)
  /\ WF_vars(hubStep \/ \E c \in Clients \ stalled : client_Write_error(c))

FairSpec == Spec /\ Fairness

-----------------------------------------------------------------------------
TypeOK ==
  /\ workPending \in BOOLEAN
  /\ notifying \subseteq {"work", "store"}
  /\ value \in 0..Readings
  /\ notified \in BOOLEAN
  /\ sensorPc \in {"poll", "read", "shm", "send"}
  /\ buff \in 0..Readings
  /\ shm \in 0..Readings
  /\ shmid \in ShmStates
  /\ monitor_queue \in Seq({"SENSOR_DATA", "DUMP_STATE"})
  /\ Len(monitor_queue) <= MonitorMax
  /\ server \in {"up", "crashed"}
  /\ monitorPc \in {"receive", "attached", "send"}
  /\ robot_msg \in Infos
  /\ backend_queue \in Seq(Infos)
  /\ Len(backend_queue) <= BackendMax
  /\ toy_be \in {"up", "crashed"}
  /\ recvPc \in {"receive", "get", "update", "broadcast"}
  /\ robot \in Infos
  /\ db \in {<<>>} \cup {<<i>> : i \in Infos}
  /\ hubMessage \in Infos
  /\ hubTodo \subseteq Clients
  /\ hubClient \subseteq Clients
  /\ clients \subseteq Clients
  /\ conn \in [Clients -> {"none", "register", "open", "lost", "unregister",
                           "closing"}]
  /\ stalled \subseteq Clients
  /\ shown \in [Clients -> {<<>>} \cup {<<i>> : i \in Infos}]

(* HubStart writes only to registered clients, whose sockets are open:     *)
(* Read closes a socket only after the hub has unregistered it             *)
(* (client.go:93-94), so the range loop (hub.go:39-45) never visits a      *)
(* closed one and no connection stays in the map without its reader.       *)
HubWritesOpenSockets ==
  /\ hubTodo \cup hubClient \subseteq clients
  /\ \A c \in Clients :
       c \in clients <=> conn[c] \in {"open", "lost", "unregister"}

(* The pipeline is empty: nothing on its way from the driver to a client.  *)
Quiet ==
  /\ ~notified /\ notifying = {}
  /\ sensorPc = "poll"
  /\ monitor_queue = <<>> /\ monitorPc = "receive"
  /\ backend_queue = <<>> /\ recvPc = "receive"
  /\ hubTodo = {} /\ hubClient = {}

(* No reading is lost for good: although the value goes through shared     *)
(* memory and the message only says that there is one, once everything has *)
(* been handled every connected client that shows anything shows the       *)
(* driver's last value.  This needs the sensor thread to write the shared  *)
(* memory before it sends (input.c:137-146), the monitor thread to read it *)
(* after it receives (system_server.c:281-297), read to consume the event  *)
(* before the value is fetched, and every send to wait for a full queue.   *)
(* It does not depend on what HTTP clients do to the record.  (Stated for  *)
(* a system that could attach its shared memory and whose back end lives.) *)
CurrentWhenQuiet ==
  Quiet /\ shmid = "attached" /\ toy_be = "up" =>
    \A c \in Clients : conn[c] = "open" => shown[c] \in {<<>>, <<Info(value)>>}

(* What clients see is what Telemetry allows, whatever the interleaving    *)
(* and also while HTTP clients edit the record: a display never goes back  *)
(* to an older reading.                                                    *)
Display == INSTANCE Telemetry WITH
  latest  <- value,
  display <- [c \in Clients |-> IF shown[c] = <<>> THEN -1
                                ELSE shown[c][1].reading]

ImplementsTelemetry == Display!Spec

(* README.md:41: the "real-time temperature data read by the BMP280 sensor *)
(* is displayed on the web GUI".  A registered client gets to see the      *)
(* current reading, or a later one, as long as it stays and input() could  *)
(* attach the shared memory (hub.go:37-46).                                *)
ReadingReachesClients ==
  \A c \in Clients, n \in 0..Readings :
    value = n /\ notified /\ conn[c] = "open"
    ~> \/ shown[c] # <<>> /\ shown[c][1].reading >= n
       \/ conn[c] # "open"
       \/ shmid # "attached"

=============================================================================
