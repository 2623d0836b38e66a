---------------------------- MODULE EngineDriver ----------------------------
(***************************************************************************)
(* The kernel module drivers/engine/engine.c: two virtual motors, each an  *)
(* hrtimer whose callback blinks two groups of LEDs.  The module is driven *)
(* by ioctl calls of several processes at once (system_server's engine     *)
(* thread, the m1/m2 commands of the input process), by the emergency-stop *)
(* button interrupt, and by its own timer callbacks.  The Raspberry Pi 4   *)
(* has four cores, so an ioctl, the interrupt handler and the callbacks    *)
(* run in parallel; the driver takes no lock.  Each of them is a sequence  *)
(* of steps here, one per access to state the others also use.             *)
(*                                                                         *)
(* Kernel services (hrtimer_*, request_irq, free_irq, the module loader)   *)
(* are modelled by what they do to the state this driver can observe:      *)
(*  - a timer is enqueued or not, and its callback is running or not;      *)
(*    hrtimer_active() is true in either case;                             *)
(*  - hrtimer_try_to_cancel() dequeues the timer unless its callback is    *)
(*    running, in which case it changes nothing and returns -1;            *)
(*  - when a callback returns HRTIMER_RESTART the timer is enqueued again; *)
(*  - hrtimer_init() of an enqueued or running timer, and any use of a     *)
(*    timer that was never initialised, is a kernel fault; what the kernel *)
(*    does after a fault is not modelled.                                  *)
(***************************************************************************)
EXTENDS EngineParams

CONSTANT
  Callers   (* threads that may be inside toy_ioctl at the same time *)

MAX_TIMEOUT_MSEC == 2000

VARIABLES
  mod,            (* life of the module: see ModPhase                       *)
  ready,          (* timers set up by toy_module_init and not yet cancelled
                     by toy_module_exit                                     *)
  enqueued,       (* timer is on the hrtimer queue                          *)
  callback,       (* step of the running timer callback, "none" if idle     *)
  motor_toggle,   (* motor_N_toggle                                         *)
  motor_speed,    (* motor_N_speed                                          *)
  period,         (* interval the timer was last armed with, in ms          *)
  ledLeft,        (* MOTOR_N_LED_LEFT: two GPIOs written together           *)
  ledRight,       (* MOTOR_N_LED_RIGHT                                      *)
  isrCancel,      (* motors whose timer the interrupt handler will cancel   *)
  isrLeft,        (* motors whose left LEDs it will switch off              *)
  isrRight,       (* motors whose right LEDs it will switch off             *)
  ioPc,           (* step of each caller inside toy_ioctl, "none" outside   *)
  ioMotor,        (* the motor its command names, 0 outside toy_ioctl       *)
  ioSpeed,        (* user_speed, 0 outside toy_ioctl                        *)
  fault           (* kernel fault met, "none" so far                        *)

modVars    == <<mod, ready>>
timerVars  == <<enqueued, callback>>
motorVars  == <<motor_toggle, motor_speed, period>>
ledVars    == <<ledLeft, ledRight>>
isrVars    == <<isrCancel, isrLeft, isrRight>>
ioVars     == <<ioPc, ioMotor, ioSpeed>>
driverVars == <<mod, ready, enqueued, callback, motor_toggle, motor_speed,
                period, ledLeft, ledRight, isrCancel, isrLeft, isrRight,
                ioPc, ioMotor, ioSpeed, fault>>

(* "out": not loaded.  "cdev": toy_module_init has registered the device   *)
(* file, so that it can be opened.  "gpio": the LEDs are set to 0.  "irq": *)
(* the button interrupt is requested; the timers are started next, then    *)
(* the module is in use.  "exit": toy_module_exit has freed the interrupt  *)
(* and cancels the timers.                                                 *)
ModPhase == {"out", "cdev", "gpio", "irq", "exit"}
CallbackStep == {"none", "left", "right", "forward"}
IoctlStep == {"none", "speed", "init", "start", "set", "cancel", "left", "right"}
Faults == {"none", "reinit", "uninit", "unloaded"}

(* Where toy_ioctl goes for a START_SPEED, SET_SPEED or HALT command.      *)
Command == {"speed", "set", "cancel"}

hrtimer_active(m) == enqueued[m] \/ callback[m] # "none"

(* An int wraps around: the kernel is compiled with -fno-strict-overflow.  *)
wrap(n) ==
  IF INT_MIN <= n /\ n <= INT_MAX THEN n
  ELSE ((n - INT_MIN) % (2 * (INT_MAX + 1))) + INT_MIN

(* int timeout = MAX_TIMEOUT_MSEC * (100 - speed) / 100, C division.       *)
timeout(s) ==
  LET p == wrap(MAX_TIMEOUT_MSEC * (100 - s))
  IN  IF p >= 0 THEN p \div 100 ELSE -((-p) \div 100)

(* hrtimer_forward_now raises an interval below the clock resolution to    *)
(* the resolution, less than a millisecond: 0 here.                        *)
forward(s) == IF timeout(s) < 0 THEN 0 ELSE timeout(s)

isrRunning == isrCancel # {} \/ isrLeft # {} \/ isrRight # {}

-----------------------------------------------------------------------------
(* The module as insmod leaves it: both timers started at speed 1.         *)
DriverInit ==
  /\ mod = "irq"
  /\ ready = [m \in Motors |-> TRUE]
  /\ enqueued = [m \in Motors |-> TRUE]
  /\ callback = [m \in Motors |-> "none"]
  /\ motor_toggle = [m \in Motors |-> FALSE]
  /\ motor_speed = [m \in Motors |-> 1]
  /\ period = [m \in Motors |-> MAX_TIMEOUT_MSEC]
  /\ ledLeft = [m \in Motors |-> FALSE]
  /\ ledRight = [m \in Motors |-> FALSE]
  /\ isrCancel = {} /\ isrLeft = {} /\ isrRight = {}
  /\ ioPc = [c \in Callers |-> "none"]
  /\ ioMotor = [c \in Callers |-> 0]
  /\ ioSpeed = [c \in Callers |-> 0]
  /\ fault = "none"

-----------------------------------------------------------------------------
(* toy_module_init and toy_module_exit, as insmod and rmmod run them.      *)

(* toy_module_init up to cdev_add, when the device file can be opened: the *)
(* module's memory is fresh, the LEDs are as they were left.  A failure    *)
(* before this point undoes everything and is not a step.                  *)
module_init ==
  /\ mod = "out"
  /\ mod' = "cdev"
  /\ motor_toggle' = [m \in Motors |-> FALSE]
  /\ motor_speed' = [m \in Motors |-> 1]
  /\ period' = [m \in Motors |-> MAX_TIMEOUT_MSEC]
  /\ UNCHANGED <<ready, timerVars, ledVars, isrVars, ioVars, fault>>

(* register_gpio_output of every LED line, which sets it to 0.  A failure  *)
(* is ignored and leaves the LED of that line as it was; with the lines    *)
(* free, as in this module, gpio_request does not fail.                    *)
register_gpio_outputs ==
  /\ mod = "cdev"
  /\ mod' = "gpio"
  /\ ledLeft' = [m \in Motors |-> FALSE]
  /\ ledRight' = [m \in Motors |-> FALSE]
  /\ UNCHANGED <<ready, timerVars, motorVars, isrVars, ioVars, fault>>

(* goto gpio_error: the GPIO or the interrupt cannot be had.  The loader   *)
(* frees the module without waiting for callers that opened the device.    *)
module_init_fails ==
  /\ mod = "gpio"
  /\ mod' = "out"
  /\ fault' = IF \E c \in Callers : ioPc[c] # "none" THEN "unloaded" ELSE fault
  /\ UNCHANGED <<ready, timerVars, motorVars, ledVars, isrVars, ioVars>>

(* request_irq, before the timers are initialised.                         *)
request_irq ==
  /\ mod = "gpio"
  /\ mod' = "irq"
  /\ UNCHANGED <<ready, timerVars, motorVars, ledVars, isrVars, ioVars, fault>>

(* hrtimer_init, .function =, hrtimer_start: motor 1 first.                *)
init_timer(m) ==
  /\ mod = "irq"
  /\ ~ready[m]
  /\ \A k \in Motors : ~ready[k] => m <= k
  /\ ready' = [ready EXCEPT ![m] = TRUE]
  /\ enqueued' = [enqueued EXCEPT ![m] = TRUE]
  /\ UNCHANGED <<mod, callback, motorVars, ledVars, isrVars, ioVars, fault>>

(* Mutant of module_exit: the timers are cancelled before free_irq.        *)
module_exit_keeps_irq ==
  /\ mod = "irq"
  /\ \A m \in Motors : ready[m]
  /\ \A c \in Callers : ioPc[c] = "none"
  /\ mod' = "exit"
  /\ UNCHANGED <<ready, timerVars, motorVars, ledVars, isrVars, ioVars, fault>>

(* rmmod: refused while the device file is open.  free_irq waits for a     *)
(* running handler.                                                        *)
module_exit ==
  /\ mod = "irq"
  /\ \A m \in Motors : ready[m]
  /\ \A c \in Callers : ioPc[c] = "none"
  /\ ~isrRunning
  /\ mod' = "exit"
  /\ UNCHANGED <<ready, timerVars, motorVars, ledVars, isrVars, ioVars, fault>>

(* Mutants of exit_cancel: hrtimer_try_to_cancel, which does not wait for  *)
(* the callback; and a wait for the timer to become idle by itself.        *)
exit_cancel_tries(m) ==
  /\ mod = "exit"
  /\ ready[m]
  /\ \A k \in Motors : ready[k] => m <= k
  /\ ready' = [ready EXCEPT ![m] = FALSE]
  /\ enqueued' = [enqueued EXCEPT ![m] = @ /\ callback[m] # "none"]
  /\ UNCHANGED <<mod, callback, motorVars, ledVars, isrVars, ioVars, fault>>

exit_cancel_waits(m) ==
  /\ mod = "exit"
  /\ ready[m]
  /\ \A k \in Motors : ready[k] => m <= k
  /\ ~hrtimer_active(m)
  /\ ready' = [ready EXCEPT ![m] = FALSE]
  /\ UNCHANGED <<mod, timerVars, motorVars, ledVars, isrVars, ioVars, fault>>

(* hrtimer_cancel, motor 1 first: waits for a running callback, which      *)
(* enqueues the timer again, and dequeues it.                              *)
exit_cancel(m) ==
  /\ mod = "exit"
  /\ ready[m]
  /\ \A k \in Motors : ready[k] => m <= k
  /\ callback[m] = "none"
  /\ ready' = [ready EXCEPT ![m] = FALSE]
  /\ enqueued' = [enqueued EXCEPT ![m] = FALSE]
  /\ UNCHANGED <<mod, callback, motorVars, ledVars, isrVars, ioVars, fault>>

(* gpio_free ... unregister_chrdev_region: the GPIOs keep their levels and *)
(* the module's memory goes away.                                          *)
exit_done ==
  /\ mod = "exit"
  /\ \A m \in Motors : ~ready[m]
  /\ mod' = "out"
  /\ UNCHANGED <<ready, timerVars, motorVars, ledVars, isrVars, ioVars, fault>>

-----------------------------------------------------------------------------
(* motor_N_timer_callback, on the CPU that runs the timer.                 *)

(* The timer expires: it leaves the queue and its callback starts.         *)
timer_fires(m) ==
  /\ enqueued[m]
  /\ callback[m] = "none"
  /\ enqueued' = [enqueued EXCEPT ![m] = FALSE]
  /\ callback' = [callback EXCEPT ![m] = "left"]
  /\ motor_toggle' = [motor_toggle EXCEPT ![m] = ~@]
  /\ UNCHANGED <<modVars, motor_speed, period, ledVars, isrVars, ioVars, fault>>

callback_left(m) ==
  /\ callback[m] = "left"
  /\ callback' = [callback EXCEPT ![m] = "right"]
  /\ ledLeft' = [ledLeft EXCEPT ![m] = motor_toggle[m]]
  /\ UNCHANGED <<modVars, enqueued, motorVars, ledRight, isrVars, ioVars, fault>>

callback_right(m) ==
  /\ callback[m] = "right"
  /\ callback' = [callback EXCEPT ![m] = "forward"]
  /\ ledRight' = [ledRight EXCEPT ![m] = ~motor_toggle[m]]
  /\ UNCHANGED <<modVars, enqueued, motorVars, ledLeft, isrVars, ioVars, fault>>

(* hrtimer_forward_now(timeout); return HRTIMER_RESTART.  A timer that     *)
(* START queued again meanwhile keeps the interval START gave it.          *)
callback_restart(m) ==
  /\ callback[m] = "forward"
  /\ callback' = [callback EXCEPT ![m] = "none"]
  /\ period' = [period EXCEPT ![m] = IF enqueued[m] THEN @
                                     ELSE forward(motor_speed[m])]
  /\ enqueued' = [enqueued EXCEPT ![m] = TRUE]
  /\ UNCHANGED <<modVars, motor_toggle, motor_speed, ledVars, isrVars, ioVars,
                 fault>>

-----------------------------------------------------------------------------
(* hrtimer_try_to_cancel(&motor_N_hrtimer).                                *)
hrtimer_try_to_cancel(m) ==
  /\ fault' = IF ready[m] THEN fault ELSE "uninit"
  /\ enqueued' = [enqueued EXCEPT ![m] = @ /\ callback[m] # "none"]

(* k_gpio_irq_signal_handler: the button is pressed.  A handler does not   *)
(* interrupt itself.                                                       *)
emergency_stop ==
  /\ mod = "irq"
  /\ ~isrRunning
  /\ isrCancel' = Motors /\ isrLeft' = Motors /\ isrRight' = Motors
  /\ UNCHANGED <<modVars, timerVars, motorVars, ledVars, ioVars, fault>>

isr_cancel(m) ==
  /\ m \in isrCancel
  /\ \A k \in isrCancel : m <= k
  /\ hrtimer_try_to_cancel(m)
  /\ isrCancel' = isrCancel \ {m}
  /\ UNCHANGED <<modVars, callback, motorVars, ledVars, isrLeft, isrRight,
                 ioVars>>

isr_led_left_off(m) ==
  /\ isrCancel = {}
  /\ m \in isrLeft
  /\ \A k \in isrLeft \cup isrRight : m <= k
  /\ ledLeft' = [ledLeft EXCEPT ![m] = FALSE]
  /\ isrLeft' = isrLeft \ {m}
  /\ UNCHANGED <<modVars, timerVars, motorVars, ledRight, isrCancel, isrRight,
                 ioVars, fault>>

isr_led_right_off(m) ==
  /\ isrCancel = {}
  /\ m \in isrRight \ isrLeft
  /\ \A k \in isrLeft \cup isrRight : m <= k
  /\ ledRight' = [ledRight EXCEPT ![m] = FALSE]
  /\ isrRight' = isrRight \ {m}
  /\ UNCHANGED <<modVars, timerVars, motorVars, ledLeft, isrCancel, isrLeft,
                 ioVars, fault>>

-----------------------------------------------------------------------------
(* toy_ioctl, called between open and close of the device file.            *)

(* open() of /dev/toy_engine_driver succeeds.                              *)
deviceOpens == mod \in {"cdev", "gpio", "irq"}

(* Mutant of ioctl_enter: the motor number of the command is one too high. *)
ioctl_enter_other_motor(c, cmd, m, s) ==
  /\ deviceOpens
  /\ ioPc[c] = "none"
  /\ ioPc' = [ioPc EXCEPT ![c] = cmd]
  /\ ioMotor' = [ioMotor EXCEPT ![c] = m + 1]
  /\ ioSpeed' = [ioSpeed EXCEPT ![c] = s]
  /\ UNCHANGED <<modVars, timerVars, motorVars, ledVars, isrVars, fault>>

ioctl_enter(c, cmd, m, s) ==
  /\ deviceOpens
  /\ ioPc[c] = "none"
  /\ ioPc' = [ioPc EXCEPT ![c] = cmd]
  /\ ioMotor' = [ioMotor EXCEPT ![c] = m]
  /\ ioSpeed' = [ioSpeed EXCEPT ![c] = s]
  /\ UNCHANGED <<modVars, timerVars, motorVars, ledVars, isrVars, fault>>

(* The call returns; the caller closes the device.                         *)
ioctl_return(c) ==
  /\ ioPc' = [ioPc EXCEPT ![c] = "none"]
  /\ ioMotor' = [ioMotor EXCEPT ![c] = 0]
  /\ ioSpeed' = [ioSpeed EXCEPT ![c] = 0]

ioctl_next(c, step) ==
  /\ ioPc' = [ioPc EXCEPT ![c] = step]
  /\ UNCHANGED <<ioMotor, ioSpeed>>

(* Mutant of start_speed: no hrtimer_active check.                         *)
start_speed_unchecked(c) ==
  LET m == ioMotor[c] IN
  /\ ioPc[c] = "speed"
  /\ motor_speed' = [motor_speed EXCEPT ![m] = ioSpeed[c]]
  /\ fault' = IF ready[m] THEN fault ELSE "uninit"
  /\ ioctl_next(c, "init")
  /\ UNCHANGED <<modVars, timerVars, motor_toggle, period, ledVars, isrVars>>

(* START_SPEED: motor_N_speed = user_speed; if(!hrtimer_active) ...        *)
start_speed(c) ==
  LET m == ioMotor[c] IN
  /\ ioPc[c] = "speed"
  /\ motor_speed' = [motor_speed EXCEPT ![m] = ioSpeed[c]]
  /\ fault' = IF ready[m] THEN fault ELSE "uninit"
  /\ ioctl_next(c, IF hrtimer_active(m) THEN "start" ELSE "init")
  /\ UNCHANGED <<modVars, timerVars, motor_toggle, period, ledVars, isrVars>>

(* ... hrtimer_init; .function = motor_N_timer_callback                    *)
start_init(c) ==
  LET m == ioMotor[c] IN
  /\ ioPc[c] = "init"
  /\ fault' = IF hrtimer_active(m) THEN "reinit" ELSE fault
  /\ ioctl_next(c, "start")
  /\ UNCHANGED <<modVars, timerVars, motorVars, ledVars, isrVars>>

(* hrtimer_start                                                           *)
start_timer(c) ==
  /\ ioPc[c] = "start"
  /\ enqueued' = [enqueued EXCEPT ![ioMotor[c]] = TRUE]
  /\ period' = [period EXCEPT ![ioMotor[c]] = MAX_TIMEOUT_MSEC]
  /\ ioctl_return(c)
  /\ UNCHANGED <<modVars, callback, motor_toggle, motor_speed, ledVars, isrVars,
                 fault>>

(* SET_SPEED                                                               *)
set_speed(c) ==
  /\ ioPc[c] = "set"
  /\ motor_speed' = [motor_speed EXCEPT ![ioMotor[c]] = ioSpeed[c]]
  /\ ioctl_return(c)
  /\ UNCHANGED <<modVars, timerVars, motor_toggle, period, ledVars, isrVars,
                 fault>>

(* Mutant of halt_cancel: the left LEDs are forgotten.                     *)
halt_cancel_skips_left(c) ==
  /\ ioPc[c] = "cancel"
  /\ hrtimer_try_to_cancel(ioMotor[c])
  /\ ioctl_next(c, "right")
  /\ UNCHANGED <<modVars, callback, motorVars, ledVars, isrVars>>

(* HALT: hrtimer_try_to_cancel, then the LEDs off.                         *)
halt_cancel(c) ==
  /\ ioPc[c] = "cancel"
  /\ hrtimer_try_to_cancel(ioMotor[c])
  /\ ioctl_next(c, "left")
  /\ UNCHANGED <<modVars, callback, motorVars, ledVars, isrVars>>

halt_led_left_off(c) ==
  /\ ioPc[c] = "left"
  /\ ledLeft' = [ledLeft EXCEPT ![ioMotor[c]] = FALSE]
  /\ ioctl_next(c, "right")
  /\ UNCHANGED <<modVars, timerVars, motorVars, ledRight, isrVars, fault>>

halt_led_right_off(c) ==
  /\ ioPc[c] = "right"
  /\ ledRight' = [ledRight EXCEPT ![ioMotor[c]] = FALSE]
  /\ ioctl_return(c)
  /\ UNCHANGED <<modVars, timerVars, motorVars, ledLeft, isrVars, fault>>

-----------------------------------------------------------------------------
(* A kernel fault stops everything.                                        *)
kernelUp == fault = "none"

ioctlStep(c) ==
  /\ kernelUp
  /\ \/ start_speed(c) \/ start_init(c) \/ start_timer(c)
     \/ set_speed(c)
     \/ halt_cancel(c) \/ halt_led_left_off(c) \/ halt_led_right_off(c)

timerStep(m) ==
  /\ kernelUp
  /\ timer_fires(m) \/ callback_left(m) \/ callback_right(m) \/ callback_restart(m)

buttonStep == kernelUp /\ emergency_stop

isrStep(m) ==
  /\ kernelUp
  /\ isr_cancel(m) \/ isr_led_left_off(m) \/ isr_led_right_off(m)

(* What the driver does by itself, whoever calls it.                       *)
driverStep ==
  \/ \E c \in Callers : ioctlStep(c)
  \/ \E m \in Motors : timerStep(m)
  \/ buttonStep
  \/ \E m \in Motors : isrStep(m)

(* What the user does with insmod and rmmod.                               *)
reloadStep ==
  /\ kernelUp
  /\ \/ module_init \/ register_gpio_outputs \/ module_init_fails \/ request_irq
     \/ module_exit \/ exit_done
     \/ \E m \in Motors : init_timer(m) \/ exit_cancel(m)

DriverNext ==
  \/ driverStep
  \/ reloadStep
  \/ \E c \in Callers, cmd \in Command, m \in Motors, s \in Speeds \cup {0} :
       kernelUp /\ ioctl_enter(c, cmd, m, s)

DriverSpec == DriverInit /\ [][DriverNext]_driverVars

-----------------------------------------------------------------------------
DriverTypeOK ==
  /\ mod \in ModPhase
  /\ ready \in [Motors -> BOOLEAN]
  /\ enqueued \in [Motors -> BOOLEAN]
  /\ callback \in [Motors -> CallbackStep]
  /\ motor_toggle \in [Motors -> BOOLEAN]
  /\ motor_speed \in [Motors -> Int]
  /\ period \in [Motors -> Int]
  /\ ledLeft \in [Motors -> BOOLEAN]
  /\ ledRight \in [Motors -> BOOLEAN]
  /\ isrCancel \subseteq Motors
  /\ isrLeft \subseteq Motors
  /\ isrRight \subseteq Motors
  /\ ioPc \in [Callers -> IoctlStep]
  /\ ioMotor \in [Callers -> Motors \cup {0}]
  /\ \A c \in Callers : ioPc[c] # "none" => ioMotor[c] \in Motors
  /\ ioSpeed \in [Callers -> Int]
  /\ fault \in Faults

(* The interrupt handler or a HALT command has still to switch off the     *)
(* left (right) LEDs of motor m.                                           *)
leftOffPending(m) ==
  \/ m \in isrLeft
  \/ \E c \in Callers : ioMotor[c] = m /\ ioPc[c] \in {"cancel", "left"}

rightOffPending(m) ==
  \/ m \in isrRight
  \/ \E c \in Callers : ioMotor[c] = m /\ ioPc[c] \in {"cancel", "left", "right"}

(* A stopped motor is dark.  HALT and the emergency stop cancel the timer  *)
(* and then switch the LEDs off, both without a lock, while the callback   *)
(* may be writing the same LEDs on another CPU (engine.c:122-129,          *)
(* 139-146, 229-240).  Whatever the interleaving, once the timer is        *)
(* neither queued nor running and nobody is still switching LEDs off, no   *)
(* LED of the motor is lit, from the moment on the module has requested    *)
(* the lines (305-313).                                                    *)
DarkWhenStopped ==
  \A m \in Motors :
    /\ mod \in {"gpio", "irq"}
    /\ ~hrtimer_active(m)
    /\ ~leftOffPending(m)
    /\ ~rightOffPending(m)
    => ~ledLeft[m] /\ ~ledRight[m]

(* When the module's memory is gone nothing runs in it or will: no timer   *)
(* is queued, no callback, interrupt handler or ioctl is in progress.      *)
(* toy_module_exit (engine.c:376-381) relies on its order for this:        *)
(* free_irq first, then hrtimer_cancel of both timers, with the device     *)
(* file held open by every ioctl.                                          *)
QuietWhenUnloaded ==
  mod = "out" /\ fault = "none" =>
    /\ \A m \in Motors : ~hrtimer_active(m)
    /\ ~isrRunning
    /\ \A c \in Callers : ioPc[c] = "none"

(* A timer is used before it is initialised only in the window of          *)
(* toy_module_init between cdev_add/request_irq and hrtimer_init           *)
(* (engine.c:299-340); never once the module is loaded, and never while it *)
(* is being removed.                                                       *)
UninitOnlyWhileLoading ==
  fault = "uninit" => deviceOpens /\ \E m \in Motors : ~ready[m]

(* With a single thread issuing ioctls, START never re-initialises a timer *)
(* that is queued or running: nothing but START itself can activate the    *)
(* timer between its hrtimer_active check and its hrtimer_init             *)
(* (engine.c:206-207).                                                     *)
OneCallerNeverReinits ==
  (\A c, d \in Callers : c = d) => fault # "reinit"

(* rmmod ends: hrtimer_cancel cannot wait forever for a callback that      *)
(* keeps restarting its timer (engine.c:377-381).                          *)
UnloadTerminates == mod = "exit" ~> mod = "out"

(* Handlers run to completion, and hrtimer_cancel retries in a loop while  *)
(* the callback is idle for a whole blink period between two runs.         *)
DriverFairness ==
  /\ \A c \in Callers : WF_driverVars(ioctlStep(c))
  /\ \A m \in Motors : WF_driverVars(timerStep(m))
  /\ \A m \in Motors : WF_driverVars(isrStep(m))
  /\ \A m \in Motors : SF_driverVars(kernelUp /\ exit_cancel(m))
  /\ WF_driverVars(kernelUp /\ exit_done)

FairDriverSpec == DriverSpec /\ DriverFairness

=============================================================================
