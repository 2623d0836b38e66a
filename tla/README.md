# Verification of the toy robot system

This directory holds a TLA+ model of the program in this repository: a Linux system project in which
kernel drivers, a group of C and C++ processes and a Go back end let a web page drive two motors
(LEDs on GPIO pins) and watch a temperature sensor. TLC checks the model on small instances, TLAPS
proves every safety invariant and every refinement the runs check for all values of the constants. `PROJECT.json` lists
components, runs, mutants, theorems, hazards and the source lines each definition stands for.

## 1. The system

`main.c` creates six POSIX message queues (100 messages each) and starts three processes:
`system_server`, `web_server` (which execs the Go back end `toy-be`) and `input`, the command line.

| Component | State | Operations | Talks to |
|---|---|---|---|
| engine driver (`drivers/engine`) | two high-resolution timers, toggle, speed, LEDs | ioctl START, SET, HALT; timer callback; emergency-stop interrupt; load and unload | called by state machines and by `m1`/`m2` |
| motor state machines (`engine/`) | current and pending state, event data, current speed | `SetSpeed`, `Halt`, `StateEngine`, four state functions, `FaultHandler` | called by the engine thread, call the driver |
| engine thread (`system/system_server.c`) | none of its own | takes a message, calls the machine | `/mq_be_to_sys` |
| sensor driver (`drivers/sensor`) | work item, attribute `notify` | timer, work item, show, store; load and unload | `sysfs_notify` wakes `poll` |
| sensor thread (`ui/input.c`) | buffer | poll, read, write shared memory, send | shared memory, `monitor_queue` |
| monitor thread (`system/system_server.c`) | message | receive, read shared memory, send | `monitor_queue`, `/mq_sys_to_be` |
| receiver and hub (`toy-be/pkg/robots`) | record, registered clients | receive, update, broadcast, register, unregister | web sockets, the record store |
| HTTP handlers (`toy-be/pkg/api`) | - | speed request, edit and delete of the record | `/mq_be_to_sys`, the record store |
| camera HAL (`hal/`) | control and callback threads, message queues, callbacks | load, open, take picture, set callbacks, dump | camera thread of `system_server` |
| click driver (`drivers/state_machine`) | click count, timers, state table | button interrupt, click timer, LED timers | - |
| simple_io driver | flag, kernel thread | write, six LED loops, unload | command `n` |
| process launcher (`main.c`, `web_server/`) | queues, children | create, fork, clone, SIGCHLD, waitpid | all processes |
| command line (`ui/input.c`) | command thread | `mq`, `dump`, `n`, `m1`, `m2`, `be`, `mincore`, `exit`, ... | queues, drivers |
| system server's own threads (`system/system_server.c`) | semaphore, tick count, descriptors, inotify | create threads, `SIGALRM` tick, directory size, camera commands | their queues, camera HAL |
| allocator (`engine/xallocator.cpp`) | free lists | allocate, free | nobody: its use is commented out |
| back end services (`toy-be`) | users, settings, tokens | authentication, store, command runner | HTTP |
| front end (`toy-fe`), mock API (`toy-api`) | reducers | actions | HTTP, web socket |

### What is hard about it

* The driver has no lock. Its callback runs on one CPU while ioctls of two processes and the interrupt
  handler run on others; all of them write the same LEDs, timers and speeds.
* The state machine keeps its own idea of the motor. The interrupt, `m1`/`m2` and a module reload change
  the driver behind its back.
* A reading crosses three processes and five threads. The message says only that there is a value; the
  value itself is fetched from shared memory later.
* Every hand-over blocks: queue sends when full, Go channels until the other side is there, web-socket
  writes while the peer does not read.
* Processes die on failed assertions, bad pointers or nil values, and nobody restarts them; when the program is
  started again, the queues and the orphans of the last run are still there.
* The two LED drivers and the button interrupt share lines, timers and flags without a lock, and a failed load
  of one takes the lines of the other.
* A signal every second hits whichever thread does not block it, and interrupts its system call.

The complete list, with lines, is under `hazards` in `PROJECT.json`.

### What correctness means, per component

* driver: a stopped motor is dark; HALT stops; nothing runs in an unloaded module; unload ends; timers are
  initialised before use and never while active.
* machines: no event reaches `FaultHandler`; event data is freed exactly once; every event ends; the driver
  is told START, SET and HALT in a sensible order.
* command path: the last request is in force when the queue is empty; a full queue drains.
* pipeline: the last reading is never lost; displays never go back; readings arrive; one client does not
  stop the others; what is shown is what was measured.
* LED drivers: interrupt and timer find the clicks they were called for as long as they take turns; the count of clicks is always
  cleared again; the right LEDs show the state; the thread misses no command it listens for.
* camera HAL: a picture is answered once, in order, and always if its threads started; no wake-up is lost.
* system server: every tick is counted once; the camera queue drains; a size includes every file of every directory that could be opened.
* launcher: `main` ends when its children are dead and not before; no server acts on a message of an earlier run; a
  blocked command returns if the camera thread of a living server serves its queue.

## 2. Modules

| Module | Models | Uses |
|---|---|---|
| `EngineParams` | motors and speeds common to the engine modules | |
| `EngineDriver` | `drivers/engine/engine.c` | `EngineParams` |
| `MotorControl` | abstract: what the machines promise | `EngineParams` |
| `MotorStateMachine` | `engine/` | `EngineParams`, `MotorControl` (refinement) |
| `EngineSystem` | GUI request, queue, engine thread, machines, driver, `m1`/`m2` | `EngineDriver`, `MotorStateMachine` |
| `Telemetry` | abstract: what a display may show | |
| `SensorPipeline` | driver's work item to web client | `Telemetry` (refinement) |
| `Gpio` | the lines, LEDs and button both LED drivers use | |
| `ClickDriver` | `drivers/state_machine/state_machine.c` | `Gpio` |
| `SimpleIo` | `drivers/simple_io/simple_io.c`, command `n` | `Gpio` |
| `IoDrivers` | both drivers on one board | `ClickDriver`, `SimpleIo` |
| `PictureService` | abstract: what a camera promises | |
| `CameraHal` | `hal/` | `PictureService` (refinement) |
| `SystemServer` | threads and signals of `system_server` | |
| `Processes` | `main.c`, `web_server/`, `create_*`, the command thread | |
| `MC...` | values of the constants for TLC | the module named |
| `EngineDriverProofs`, `MotorStateMachineProofs`, `SensorPipelineProofs`, `IoDriversProofs`, `CameraHalProofs`, `SystemServerProofs`, `ProcessesProofs` | theorems | the module named, `TLAPS` |
| `EngineSystemProofs` | theorems on the composition | `EngineSystem`, `EngineDriverProofs`, `MotorStateMachineProofs` |

### EngineDriver

Both motors are the same code in two copies, so every variable is a function of the motor. `mod` and `ready`
say how far loading or unloading has got; `enqueued` and `callback` are the kernel's view of a timer;
`motor_toggle` and `motor_speed` are the driver's globals, `period` the interval a timer was last armed with;
`ledLeft`, `ledRight` are the GPIO levels (one bit for each LED pair, which is written by one macro).
`isrCancel`, `isrLeft`, `isrRight` hold the motors the interrupt handler has still to treat; `ioPc`,
`ioMotor`, `ioSpeed` place each caller inside `toy_ioctl`.

A step is one access to shared state: a callback is `timer_fires`, `callback_left`, `callback_right`,
`callback_restart`; HALT is `halt_cancel`, `halt_led_left_off`, `halt_led_right_off`; START is `start_speed`
(which also evaluates `hrtimer_active`), `start_init`, `start_timer`. `hrtimer_try_to_cancel`,
`hrtimer_active` and `hrtimer_forward_now` are kernel functions, modelled from their use: a try does nothing
while the callback runs. `fault` records a kernel state that must not be reached (`reinit`: a timer in use is
initialised; `uninit`: a timer is used before it is initialised; `unloaded`: code runs in a module that is
gone); such a step is the last one, as the kernel's behaviour afterwards is unknown. Time is abstracted to the order of events. `read`
and `write` of the device change nothing and are left out. Loading is `module_init` (up to `cdev_add`, when the device can be opened),
`register_gpio_outputs`, `request_irq` and an `init_timer` per motor. A speed is any 32-bit int: nobody on the way from the request to the ioctl checks it, so
`timeout` wraps around (`wrap`) as the kernel's int arithmetic does. The speeds of the runs are too small to wrap; the theorems cover those that do.

### MotorStateMachine and MotorControl

One machine per motor. `phase` places the thread: at `rest`, in the loop of `StateEngine` (`engine`), inside
a state function (`action`), or in `FaultHandler`'s endless loop (`fault`). `eventData`, `dataTemp` and
`liveData` follow the heap objects: the pending data, the data in use, and how many are allocated. The two
transition maps are functions on states; a state accepts the event data its `dynamic_cast` accepts (`StateData`: ST_IDLE and ST_STOP take any,
since `NoEventData` is `EventData`); a state function updates the speed, generates the internal event of
ST_STOP and names the driver command in `told`. `ExternalEvent` includes the deletion of the data of an ignored event.

`MotorControl` sees a motor that is idle or running, and the last command the driver was told. The mapping
takes ST_START and ST_CHANGE_SPEED to running; going through ST_STOP to ST_IDLE is one `Halt`.

### EngineSystem

`SendEngineMessage` is the GUI's speed request (the handler sends for the left motor only) and blocks when
the queue is full; `engine_thread` takes a message and calls `SetSpeed` or `Halt`; `engine_round` runs a
state function and enters its ioctl, if the device opens; `engine_return` goes on when the ioctl has returned.
`toy_set_motor_speed` is `m1`/`m2`, whose SET_SPEED number is the driver's START_SPEED. `wanted` remembers
the last request and is read by properties only.

### SensorPipeline and Telemetry

A reading is known by its number; `Temperature` gives its value. Each thread has a program counter and one
action per blocking call or access to shared state: the sensor thread's `sensor_poll`, `sensor_read`,
`sensor_write_shm`, `sensor_send`; the monitor thread's `monitor_receive`, `monitor_read_shm`, `monitor_send`; the
back end's `recv_receive`, `recv_get`, `recv_update`, `BroadcastRobot`; the hub's `hub_next`, `client_Write`,
`hub_register`, `hub_unregister`; a connection's `ServeHTTP`, `client_Read_error` and `socket_Close`. A write may fail before the
read does: `client_Write_error`, after which the client is `lost` but registered until `client_Read_error`. `degrees` is the conversion
to whole degrees and to unsigned int. `shmid` is what creating the shared memory achieved; with no segment the
monitor thread dereferences `(void *)-1` and `system_server` dies. A reading that finds the record deleted,
or that the data base does not save, kills `toy-be` (the error is logged through a nil logger). `Environment` says what users do in a run.

A poll may return at any time (its time-out is 10^8 ms; the code reads and sends then, too). `sysfs_notify` is a
step of its own, so that a value can be read before its notification. A dump message stands for the
`monitor_queue` half of the dump command; its `camera_queue` half is not in this module.

`Telemetry` allows a display to show any reading taken that is not older than the one it shows.

### Gpio, ClickDriver, SimpleIo and IoDrivers

Both drivers request the same nine lines, so the lines have one owner, `pins`. Both name their class
`toy_simple_io_class` and take the error pointer of `class_create` for a class: loading the second driver ends in `gpio_error`,
which frees the first one's lines and destroys a device of the error pointer; `fault` becomes `class`. As in `EngineDriver` a fault
is the last step.

`ClickDriver`: `click_timer_callback` runs in the timer and in the interrupt (`pc`, by actor). `click_count++`, the test, the table
lookup (`state_machine_lookup`), the assignment of `state`, the action and `click_count = 0` are steps of their own. `overlap` records that both were in
`state_machine` at once, `clash` that both were running at once; each is read by a property only. With `clash` the code does lose clicks (the callback
clears a count that the interrupt has just stored), so that what it finds is promised only without. Of the right LEDs the inner and the outer pair are told apart, since
LEFT_6_ON lights only the inner one. Faults: `uninit` (a click before `timer_setup`), `reinit` (LED timers set up while queued),
`unloaded` (timers that outlive the module).

`SimpleIo`: `example` and `at` place the kernel thread; each example is built from `toggle`, `arm` (the flag set back), `wait_event`, `test_flag`
(the flag is read twice) and the return, which reads it once more. `toy_driver_write` sets the flag, `write_wakes` wakes. Command `n`
writes 1, `n exit` writes 2, which is NEXT although the driver logs it as EXIT; 0 comes from other programs.

### CameraHal and PictureService

`library` is what `libcamera.so` turned out to be. Control threads are numbered by the open that made them, the callback thread is 0; `mList`,
`held` and `at` are its queue, the message it works on and its place. `send` and `receive` hold the queue's mutex and are atomic but for the wait, which
may return without a signal. Failing to create the callback thread deletes the singletons an older control thread points to (`dangling`);
failing to create the control thread goes unnoticed. `died` says what ended the process.

`PictureService` knows the set of pictures that are still to be answered, each with its camera, and the number of answers: only the oldest
picture of a camera may leave the set. The mapping collects what any thread holds or has queued; `answered` counts the messages the callback
thread is done with, a history variable, so that a picture cannot vanish unanswered. A send without reply is all the program uses of `MessageQueue`.

### SystemServer

`system_server` creates the threads in order; a thread that could not be created goes unnoticed, except the engine's. The kernel gives SIGALRM to
the main thread unless that has it blocked; then any thread may take it (`other_takes`), and `interrupt` says what becomes of one that was in a
system call. The tick goes through the semaphore to `timer_thread`. `get_directory_size` walks the tree `within`:
`calls` is its recursion, with the files each call has added up; an entry is counted, entered or, if `lstat` or `opendir` fails for any reason, skipped. Every
directory costs a descriptor that is never closed. File sizes are left out: a sum is the set of files in it. The camera was never opened, so that `take_picture` of the toy library ends the process. The monitor and the engine thread are only created here.

### Processes

`main` unlinks and creates the queue (one stands for the six), creates three children, any of which may fail, and waits three times for any child:
the create functions return 0. `sigchldHandler` and `waitpid_reaps` compete for zombies. `restart` is the SA_RESTART bit, which `main` leaves
uninitialised. Children end at any time. `start_again` starts the program once more; living children of the first run go on, with the
queue they opened. A message is the run it was sent in. `camera` is the camera thread of a system server, which may not have been created
(`pthread_create` is tested for -1, which it never returns); nobody else takes from the queue.

## 3. Runs

Deadlock checking is off only where the system may stop: after a kernel fault or a crash, or when the program has ended.

| Run | Instance | Shows |
|---|---|---|
| `driver` | both motors, no speeds (START and SET carry 0), one caller, reloads | nothing runs after unload; no timer in use is initialised again; unload ends |
| `machines` | both machines, speeds 1, 50, 100 | no fault, no leak or double delete, refinement of `MotorControl`, every event ends |
| `system_gui` | left motor, two speeds, queue of 2 | last command wins; a full queue drains |
| `system_shared` | left motor, engine thread and a command thread, reloads | stopped motors are dark under every interleaving of callback, interrupt and two ioctls; uninitialised timers are used only in the load window; every message is an event the machines allow, at rest |
| `halt_race` | left motor, one speed | **violated**: a HALT that meets the running callback does not stop the motor |
| `after_stop` | left motor, two speeds, fairness | **violated**: after an emergency stop a new speed is sent as SET and the motor stays still |
| `pipeline_safety` | one client, one reading (below zero) after the initial value, queues of 1, all of `Environment` | the last reading is not lost; displays never go back, whatever HTTP clients do to the record; only open sockets are written |
| `pipeline_reading` | one client, one reading, dump messages, fairness | a reading, or a later one, reaches a client that stays connected |
| `gpio_drivers` | both LED drivers, two left LEDs | interrupt and timer find their clicks while they take turns; the count is cleared again; right LEDs show the state; one side is lit in examples 3 to 6; NEXT and EXIT are obeyed |
| `camera` | two opens, four pictures | refinement of `PictureService`; no lost wake-up; every picture of a started camera is answered |
| `server` | 3 ticks, 2 directories with a file each, 3 descriptors, queue of 1 | ticks counted once; sizes include all that could be opened; the camera queue drains |
| `processes` | two starts, queue of 1 | `main` ends, and with SA_RESTART not before its children; no stale messages; blocked commands return if a camera thread serves their queue |

Every property of a passing run has a mutant: a changed definition, kept next to the original, under which
TLC finds the property violated.

Why the bounds are enough. The motors share only the interrupt handler and the module's life, so one motor with two callers
and two motors with one caller cover the interactions of a caller with another and of a motor with the other. The driver never looks
at a speed except in `timeout`, so one non-zero speed suffices for the interleavings; the machine only asks whether it is 0. A queue of 1
is full after one message, which is where blocking happens; a queue of 2 can hold messages in order. Two readings (the initial value
and one more) are enough for one to overtake or overwrite the other; the second is below zero, so that the conversion is not the identity. `UintModulus` is 2^16 since TLC's integers have
32 bits. One client is enough for the order of a display.
The left LEDs are only ever used together or each by its own timer: two suffice for one timer to be late. Two opens give an old and a
current camera on one callback thread; with four pictures each queue can hold two. Three descriptors and two directories let a complete
size come first, the limit fall inside the second walk and the third walk fail at once. Three ticks let one be pending, one be taken elsewhere and one be counted. Two starts give an
old run and a new one; a third would meet the second as the second meets the first.

### Fairness

* Driver: ioctls, callbacks and the interrupt handler run to their end (weak fairness of each step).
  `hrtimer_cancel` retries in a loop while the callback is idle for a whole period between two runs: strong
  fairness of `exit_cancel`.
* Engine thread and machines: the thread is scheduled (weak fairness). GUI, command line, button, insmod and
  rmmod are the user's choice and get none.
* Pipeline: threads, goroutines and the work item's notification run (weak fairness); poll returns when the
  attribute was notified. Senders on a full queue are woken in turn, and `select` picks among ready channels
  at random: strong fairness for `sensor_send` and `BroadcastRobot`. A write to a peer that reads returns, with success or an error. Timer ticks,
  users and peers get none.
* LED drivers: a handler that runs goes on, a queued timer expires, the kernel thread is scheduled (weak fairness);
  button, writers, insmod and rmmod get none.
* Camera, system server, processes: threads that can run do (weak fairness). Senders blocked on a queue are served in
  order by the kernel: strong fairness of `mq_send`. A camera thread that was created receives (weak fairness of `mq_receive`, which is not
  enabled without one). Opens, pictures, commands, crashes and restarts get none.

## 4. Proofs

Every invariant and every refinement a passing run checks is a theorem, for all values of the constants. The assumptions are those the
modules declare: `Motors` is a subset of the two numbers; `Speeds` are non-zero 32-bit ints,
and hold 100 if they hold more (`m1`/`m2` cut there); limits of queues, ticks, descriptors, opens, pictures, readings and starts are natural
numbers, positive where the code's are; the names of left and right LEDs differ; entries of the directory tree have a
directory they are in. `Callers`, `Clients`, temperatures and LEDs are
arbitrary. Each proof follows one scheme: an inductive invariant as a conjunction of named parts, checked with TLC before it was proved; one lemma per action or
group of actions; frame lemmas for parts whose variables an action leaves alone; the theorem by temporal logic.

`EngineDriverProofs`: `DriverInv`. `DarkWhenStopped` is not inductive: when a HALT
is about to switch off the LEDs it says nothing. `LitIsPending` says instead that a lit LED of an idle timer has somebody
who will switch it off; the handler's order (`IsrOrder`) keeps that somebody until the LED is dark. `UnreadyIdle`,
`LoadOrder`, `IsrLoaded` and `ClosedIdle` tie timers, interrupt and callers to the phases of loading and unloading and
give `QuietWhenUnloaded`; `StartReady` is needed for START, whose check and use are separate steps. `OneCallerIsSafe` has its own
invariant `OneCallerInv`: with a single caller nothing can activate a timer between check and initialisation.

`MotorStateMachineProofs`: `MachineInv` says for each phase what is pending and how much data is alive. `AtRest` holds
the point of `NeverFaults`: a machine at rest is never in ST_STOP, so CANNOT_HAPPEN is never looked up. `InEngine` ties the pending state
to the type of its data and to the state it is entered from, which the refinement of `MotorControl` needs:
START is sent only from ST_IDLE. `Stopped` makes the step from ST_STOP to ST_IDLE a stutter.

`EngineSystemProofs`: every step of the composition is a step of the driver or leaves it alone (`DriverSimulation`: the commands and speeds of
state functions and of `m1`/`m2` are ones the driver knows), and the same for the machines (`MachineSimulation`: a queued message is an
event). The two refinements carry all theorems of the components over to the whole (`ComponentsKeepTheirPromises`,
`ProgramKeepsContract`). `LastCommandWins` needs `SystemInv`: the last queued message is the last request (`LatestInv`); only the left machine is ever busy,
and the engine thread is inside the driver only for it (`OneEventInv`); and, from the moment the last message leaves the queue, `ServedInv`
follows it: into the pending event, from there into `m_currentSpeed` and the ioctl's argument, from there into the driver's speed, or through ST_STOP to ST_IDLE for a halt.

`SensorPipelineProofs`: `PipelineInv` has a part per stage. Each says that the stage is never ahead of the one before (shown <= hub message <= record <=
queue <= message <= shared memory <= buffer <= attribute, with queues in order), which gives `ImplementsTelemetry`, and that it is behind only while
something is on its way to tell it, which gives `CurrentWhenQuiet`. `HubInv` includes that the hub goes over open sockets.

`IoDriversProofs`: `CountInv` says who may see a count of 2, the handler that stored it, so that the table is never looked up beyond its
columns; `ClickOut` and `IoOut` say that a module that is out has left nothing running; `MachineInv` says that a row that was looked up is
still that of the state, and that the LEDs lag behind only while its action is to be done, unless interrupt and timer overlapped.
`CallbackFindsClicks` needs `TurnsInv`: while interrupt and timer take turns, a queued timer has exactly its one click, and the count is two only while
the interrupt that stored it is about to delete the timer. That no other driver interferes with the lines is `PinsHeld`.

`CameraHalProofs`: `SleepersHaveNothing` is inductive with the types. The refinement needs the order of pictures: a control thread has only its own
(`Own`), queues are sorted and what a thread works on is older than what it has queued (`Sorted`), and what has reached the callback thread is older than what
the control thread still has (`Ahead`). Hence the message the callback thread finishes is the oldest of its camera.

`SystemServerProofs`: `TicksCounted` is an account: handled signals are in the semaphore, in the hand of `timer_thread` or in the count. `SizesAddUp` needs
`WalkInv`: during a walk every directory that was opened has a call in progress or has been read to its end, and the files counted so far are just those in the
totals of the calls in progress; a return hands its total to the call below, so that nothing is lost when the last call prints.

`ProcessesProofs`: `WaitInv` counts children gone against waits done, with the handler reaping any number in between; `LinkInv`, `OpenInv` and
`QueueInv` date queues, the processes that hold them and their messages: a process never holds a queue older than itself, so a queue holds no
message older than the queue.

Only model-checked: liveness (`UnloadTerminates`, `EventsEnd`, `FullQueueDrains`, `ReadingReachesClients`, `ClickCountClears`, `NextObeyed`, `ExitObeyed`,
`PicturesAreAnswered`, `CameraQueueDrains`, `MainEnds`, `CommandReturns`), since the prover does not reason about fairness and ENABLED here; and the two
violated properties, which have counterexamples. Induction over data is out of the prover's reach as well; no property needs it.

## 5. Not modelled

`PROJECT.json` gives the reason for each part. In short: rendering, splitting of command lines, HTTP and data-base plumbing are
I/O; `toy-api` is a development stand-in; the state engine with guards and the fixed-block allocator are used by nobody; the containers of the HAL
are library code, as is the file-browser code around the robot service; `create_gui` is not called.
Within modelled parts: the size of files and the `int` that cuts the sum of them (`total_size`); failures of `gpio_request` that `register_gpio_output` reports and nobody looks at; the record's fields other than the
temperature; the `press` and `humidity` constants; the sensor's arithmetic; loading and unloading of the sensor driver.

Seen while modelling, without a run of their own: speed 100 re-arms the timer with 0 ms (`timeout`); a temperature below zero is
displayed as a large number (`degrees`); `client.Write` has no deadline, so that a peer that stops reading stops the hub and all behind it; the command
`n exit` does not end the kernel thread; the toy camera is never opened before a picture is taken; LED timers are initialised while queued.

## 6. Plan

1. Done: all modules of section 2; theorems for every invariant and refinement of the runs.
2. If room is left: `SensorDriver`, load and unload with the timer that starts before and outlives its work queue; safety parts of the
   liveness properties (what a blocked thread waits for exists) as theorems.
