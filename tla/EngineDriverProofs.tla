------------------------- MODULE EngineDriverProofs -------------------------
(***************************************************************************)
(* The engine driver's safety properties for any set of callers and        *)
(* speeds.                                                                 *)
(***************************************************************************)
EXTENDS EngineDriver, TLAPS

(* A timer the module has not set up, or has cancelled on exit, is idle.   *)
UnreadyIdle == \A m \in Motors : ~ready[m] => ~hrtimer_active(m)

(* Past its hrtimer_active check, START works on a timer that is set up.   *)
StartReady ==
  kernelUp => \A c \in Callers : ioPc[c] \in {"init", "start"} => ready[ioMotor[c]]

(* Nobody is inside toy_ioctl while the module leaves or is gone.          *)
ClosedIdle ==
  kernelUp /\ mod \in {"exit", "out"} => \A c \in Callers : ioPc[c] = "none"

(* The interrupt handler runs only between request_irq and free_irq.       *)
IsrLoaded == isrRunning => mod = "irq"

(* The timers are set up after request_irq.                                *)
LoadOrder == mod \in {"out", "cdev", "gpio"} => \A m \in Motors : ~ready[m]

(* The handler cancels before it switches LEDs off, left before right.     *)
IsrOrder == isrCancel \subseteq isrLeft /\ isrLeft \subseteq isrRight

(* A lit LED of an idle timer is about to be switched off: the             *)
(* strengthening that makes DarkWhenStopped inductive.                     *)
LitIsPending ==
  mod \in {"gpio", "irq"} =>
    \A m \in Motors :
      ~hrtimer_active(m) =>
        /\ ledLeft[m] => leftOffPending(m)
        /\ ledRight[m] => rightOffPending(m)

DriverInv ==
  /\ DriverTypeOK
  /\ UnreadyIdle
  /\ StartReady
  /\ ClosedIdle
  /\ IsrLoaded
  /\ LoadOrder
  /\ IsrOrder
  /\ LitIsPending
  /\ UninitOnlyWhileLoading


(* The abbreviations of the model, and the parts of the invariant.         *)
USE DEF kernelUp, deviceOpens, hrtimer_active, isrRunning,
        leftOffPending, rightOffPending,
        modVars, timerVars, motorVars, ledVars, isrVars, ioVars,
        DriverInv, DriverTypeOK, UnreadyIdle, StartReady, ClosedIdle, IsrLoaded,
        LoadOrder, IsrOrder, LitIsPending, UninitOnlyWhileLoading,
        ModPhase, CallbackStep, IoctlStep, Faults, MAX_TIMEOUT_MSEC

LEMMA DriverInitInv == DriverInit => DriverInv
  BY DEF DriverInit

LEMMA ModuleInv ==
  ASSUME DriverInv, kernelUp,
         \/ module_init \/ register_gpio_outputs \/ module_init_fails
         \/ request_irq \/ module_exit \/ exit_done
  PROVE  DriverInv'
  <1>1. CASE module_init
    BY <1>1 DEF module_init
  <1>2. CASE module_init_fails
    BY <1>2 DEF module_init_fails
  <1>3. CASE request_irq
    BY <1>3 DEF request_irq
  <1>4. CASE module_exit
    BY <1>4 DEF module_exit
  <1>5. CASE exit_done
    BY <1>5 DEF exit_done
  <1>6. CASE register_gpio_outputs
    BY <1>6 DEF register_gpio_outputs
  <1>7. QED BY <1>1, <1>2, <1>3, <1>4, <1>5, <1>6

(* The interval of any speed is an integer, wrapped around or not.         *)
LEMMA IntervalIsInt ==
  ASSUME NEW s \in Int
  PROVE  forward(s) \in Int
  <1>1. ASSUME NEW n \in Int PROVE wrap(n) \in Int
    BY SMT DEF wrap, INT_MAX, INT_MIN
  <1>2. MAX_TIMEOUT_MSEC * (100 - s) \in Int
    OBVIOUS
  <1>3. wrap(MAX_TIMEOUT_MSEC * (100 - s)) \in Int
    BY <1>1, <1>2
  <1>4. QED BY <1>3, SMT DEF forward, timeout

LEMMA TimerInv ==
  ASSUME DriverInv, kernelUp, NEW m \in Motors,
         \/ timer_fires(m) \/ callback_left(m) \/ callback_right(m)
         \/ callback_restart(m) \/ init_timer(m) \/ exit_cancel(m)
  PROVE  DriverInv'
  <1>1. CASE timer_fires(m)
    BY <1>1 DEF timer_fires
  <1>2. CASE callback_left(m)
    BY <1>2 DEF callback_left
  <1>3. CASE callback_right(m)
    BY <1>3 DEF callback_right
  <1>4. CASE callback_restart(m)
    <2>1. forward(motor_speed[m]) \in Int
      BY IntervalIsInt
    <2>2. QED BY <1>4, <2>1 DEF callback_restart
  <1>5. CASE init_timer(m)
    BY <1>5 DEF init_timer
  <1>6. CASE exit_cancel(m)
    BY <1>6 DEF exit_cancel
  <1>7. QED BY <1>1, <1>2, <1>3, <1>4, <1>5, <1>6

LEMMA ButtonInv ==
  ASSUME DriverInv, kernelUp, emergency_stop
  PROVE  DriverInv'
  BY DEF emergency_stop

LEMMA IsrInv ==
  ASSUME DriverInv, kernelUp, NEW m \in Motors,
         isr_cancel(m) \/ isr_led_left_off(m) \/ isr_led_right_off(m)
  PROVE  DriverInv'
  <1>1. CASE isr_cancel(m)
    BY <1>1 DEF isr_cancel, hrtimer_try_to_cancel
  <1>2. CASE isr_led_left_off(m)
    BY <1>2 DEF isr_led_left_off
  <1>3. CASE isr_led_right_off(m)
    BY <1>3 DEF isr_led_right_off
  <1>4. QED BY <1>1, <1>2, <1>3

LEMMA IoctlEnterInv ==
  ASSUME DriverInv, kernelUp, NEW c \in Callers, NEW cmd \in Command,
         NEW m \in Motors, NEW s \in Speeds \cup {0}, ioctl_enter(c, cmd, m, s)
  PROVE  DriverInv'
  <1>1. s \in Int
    BY SpeedsAssumption
  <1>2. QED
    BY <1>1 DEF ioctl_enter, Command

LEMMA IoctlInv ==
  ASSUME DriverInv, NEW c \in Callers, ioctlStep(c)
  PROVE  DriverInv'
  <1> USE DEF ioctl_next, ioctl_return
  <1>1. CASE start_speed(c)
    BY <1>1 DEF start_speed, ioctlStep
  <1>2. CASE start_init(c)
    BY <1>2 DEF start_init, ioctlStep
  <1>3. CASE start_timer(c)
    BY <1>3 DEF start_timer, ioctlStep
  <1>4. CASE set_speed(c)
    BY <1>4 DEF set_speed, ioctlStep
  <1>5. CASE halt_cancel(c)
    BY <1>5 DEF halt_cancel, hrtimer_try_to_cancel, ioctlStep
  <1>6. CASE halt_led_left_off(c)
    BY <1>6 DEF halt_led_left_off, ioctlStep
  <1>7. CASE halt_led_right_off(c)
    BY <1>7 DEF halt_led_right_off, ioctlStep
  <1>8. QED
    BY <1>1, <1>2, <1>3, <1>4, <1>5, <1>6, <1>7 DEF ioctlStep

LEMMA DriverStepInv == DriverInv /\ [DriverNext]_driverVars => DriverInv'
  <1> SUFFICES ASSUME DriverInv, [DriverNext]_driverVars PROVE DriverInv'
    OBVIOUS
  <1>1. CASE driverStep
    <2> HIDE DEF DriverInv
    <2>1. QED
      BY <1>1, IoctlInv, TimerInv, ButtonInv, IsrInv
      DEF driverStep, timerStep, buttonStep, isrStep
  <1>2. CASE reloadStep
    <2> HIDE DEF DriverInv
    <2>1. QED BY <1>2, ModuleInv, TimerInv DEF reloadStep
  <1>3. CASE \E c \in Callers, cmd \in Command, m \in Motors, s \in Speeds \cup {0} :
               kernelUp /\ ioctl_enter(c, cmd, m, s)
    <2> HIDE DEF DriverInv
    <2>1. QED BY <1>3, IoctlEnterInv
  <1>4. CASE UNCHANGED driverVars
    BY <1>4 DEF driverVars
  <1>5. QED
    BY <1>1, <1>2, <1>3, <1>4 DEF DriverNext

(* The inductive invariant of the driver.                                  *)
THEOREM DriverInvariant == DriverSpec => []DriverInv
  <1> HIDE DEF DriverInv
  <1>1. QED BY DriverInitInv, DriverStepInv, PTL DEF DriverSpec

(* Type correctness of the driver's state.                                 *)
THEOREM DriverTypeCorrect == DriverSpec => []DriverTypeOK
  <1>1. DriverInv => DriverTypeOK OBVIOUS
  <1> HIDE DEF DriverInv, DriverTypeOK
  <1>2. QED BY <1>1, DriverInvariant, PTL

(* HALT and the emergency stop leave a motor whose timer is off dark, for  *)
(* any number of processes calling the driver (engine.c:122-129, 229-240). *)
THEOREM StoppedMotorIsDark == DriverSpec => []DarkWhenStopped
  <1>1. DriverInv => DarkWhenStopped BY DEF DarkWhenStopped
  <1> HIDE DEF DriverInv
  <1>2. QED BY <1>1, DriverInvariant, PTL

(* Nothing of the driver runs after rmmod (engine.c:371-404).              *)
THEOREM UnloadedDriverIsQuiet == DriverSpec => []QuietWhenUnloaded
  <1>1. DriverInv => QuietWhenUnloaded BY DEF QuietWhenUnloaded
  <1> HIDE DEF DriverInv
  <1>2. QED BY <1>1, DriverInvariant, PTL

(* An uninitialised timer is used only while the module loads              *)
(* (engine.c:299-342).                                                     *)
THEOREM UninitialisedTimerOnlyWhileLoading == DriverSpec => []UninitOnlyWhileLoading
  <1>1. DriverInv => UninitOnlyWhileLoading OBVIOUS
  <1> HIDE DEF DriverInv, UninitOnlyWhileLoading
  <1>2. QED BY <1>1, DriverInvariant, PTL

-----------------------------------------------------------------------------
(* With one caller the timer stays idle between the hrtimer_active check   *)
(* of START and its hrtimer_init.                                          *)
OneCallerInv ==
  (\A c, d \in Callers : c = d) =>
    /\ fault # "reinit"
    /\ kernelUp => \A c \in Callers : ioPc[c] = "init" => ~hrtimer_active(ioMotor[c])

LEMMA OneCallerStep ==
  DriverInv /\ OneCallerInv /\ [DriverNext]_driverVars => OneCallerInv'
  <1> SUFFICES ASSUME DriverInv, OneCallerInv, [DriverNext]_driverVars,
                      \A c, d \in Callers : c = d
               PROVE  OneCallerInv'
    BY DEF OneCallerInv
  <1> USE DEF OneCallerInv
  <1>1. ASSUME NEW c \in Callers, ioctlStep(c) PROVE OneCallerInv'
    <2> USE DEF ioctl_next, ioctl_return
    <2>1. CASE start_speed(c)
      BY <1>1, <2>1 DEF start_speed, ioctlStep
    <2>2. CASE start_init(c)
      BY <1>1, <2>2 DEF start_init, ioctlStep
    <2>3. CASE start_timer(c)
      BY <1>1, <2>3 DEF start_timer, ioctlStep
    <2>4. CASE set_speed(c)
      BY <1>1, <2>4 DEF set_speed, ioctlStep
    <2>5. CASE halt_cancel(c)
      BY <1>1, <2>5 DEF halt_cancel, hrtimer_try_to_cancel, ioctlStep
    <2>6. CASE halt_led_left_off(c) \/ halt_led_right_off(c)
      BY <1>1, <2>6 DEF halt_led_left_off, halt_led_right_off, ioctlStep
    <2>7. QED
      BY <1>1, <2>1, <2>2, <2>3, <2>4, <2>5, <2>6 DEF ioctlStep
  <1>2. ASSUME NEW m \in Motors, timerStep(m) PROVE OneCallerInv'
    BY <1>2 DEF timerStep, timer_fires, callback_left, callback_right, callback_restart
  <1>3. CASE buttonStep
    BY <1>3 DEF buttonStep, emergency_stop
  <1>4. ASSUME NEW m \in Motors, isrStep(m) PROVE OneCallerInv'
    BY <1>4 DEF isrStep, isr_cancel, isr_led_left_off, isr_led_right_off,
                hrtimer_try_to_cancel
  <1>5. CASE reloadStep
    <2>1. CASE \/ module_init \/ register_gpio_outputs \/ module_init_fails
               \/ request_irq \/ module_exit \/ exit_done
      BY <1>5, <2>1 DEF reloadStep, module_init, register_gpio_outputs,
                        module_init_fails, request_irq, module_exit, exit_done
    <2>2. ASSUME NEW m \in Motors, init_timer(m) PROVE OneCallerInv'
      BY <1>5, <2>2 DEF reloadStep, init_timer
    <2>3. ASSUME NEW m \in Motors, exit_cancel(m) PROVE OneCallerInv'
      BY <1>5, <2>3 DEF reloadStep, exit_cancel
    <2>4. QED BY <1>5, <2>1, <2>2, <2>3 DEF reloadStep
  <1>6. ASSUME NEW c \in Callers, NEW cmd \in Command, NEW m \in Motors,
               NEW s \in Speeds \cup {0}, kernelUp, ioctl_enter(c, cmd, m, s)
        PROVE  OneCallerInv'
    BY <1>6 DEF ioctl_enter, Command
  <1>7. CASE UNCHANGED driverVars
    BY <1>7 DEF driverVars
  <1> HIDE DEF OneCallerInv, DriverInv
  <1>8. QED
    BY <1>1, <1>2, <1>3, <1>4, <1>5, <1>6, <1>7 DEF DriverNext, driverStep

(* A driver with a single calling thread never re-initialises an active    *)
(* timer (engine.c:206-207).                                               *)
THEOREM OneCallerIsSafe == DriverSpec => []OneCallerNeverReinits
  <1>1. DriverInit => OneCallerInv BY DEF DriverInit, OneCallerInv
  <1>2. OneCallerInv => OneCallerNeverReinits
    BY DEF OneCallerInv, OneCallerNeverReinits
  <1> HIDE DEF DriverInv
  <1>3. QED
    BY <1>1, <1>2, OneCallerStep, DriverInvariant, PTL DEF DriverSpec

=============================================================================
