------------------------------ MODULE SimpleIo ------------------------------
(***************************************************************************)
(* The kernel module drivers/simple_io/simple_io.c.  Its kernel thread     *)
(* runs six LED examples in turn.  A write to the device moves the thread  *)
(* on through wait_queue_flag, which the thread itself sets back to WAIT:  *)
(* 1 is KEY (switch the LEDs), 2 is NEXT (next example).  rmmod sets EXIT. *)
(* Flag and buffer have no lock; each access is a step.                    *)
(***************************************************************************)
EXTENDS Gpio, Naturals

VARIABLES
  ioMod,           (* "out", "in"; rmmod: "exit" (flag set), "woken"       *)
  wait_queue_flag,
  example,         (* the example the thread is in                         *)
  at,              (* where in it; "ended" after do_exit                   *)
  ledvalue,        (* the example's local: ON is TRUE                      *)
  writing          (* a write that set the flag has yet to wake the queue  *)

ioVars == <<ioMod, wait_queue_flag, example, at, ledvalue, writing>>

WaitQueueFlags == {"WAIT", "KEY", "NEXT", "EXIT"}
Places == {"top", "arm", "wait", "sleep", "test", "next", "held",
           "return", "ended"}

IoInit ==
  /\ ioMod = "out" /\ wait_queue_flag = "WAIT"
  /\ example = 1 /\ at = "ended" /\ ledvalue = FALSE /\ writing = FALSE

-----------------------------------------------------------------------------
(* toy_module_init.  The thread starts in example 1.  kthread_create never *)
(* returns NULL: when it fails, wake_up_process gets an error pointer.     *)
io_init ==
  /\ ioMod = "out"
  /\ pins = "free"
  /\ pins' = "simple_io"
  /\ lit' = {}
  /\ ioMod' = "in"
  /\ \/ at' = "top" /\ UNCHANGED fault
     \/ fault' = "thread" /\ UNCHANGED at
  /\ UNCHANGED <<wait_queue_flag, example, ledvalue, writing, button>>

io_init_fails ==
  /\ ioMod = "out"
  /\ gpio_error
  /\ UNCHANGED ioVars

wake_up_interruptible == at' = IF at = "sleep" THEN "wait" ELSE at

(* toy_module_exit, which the kernel runs while nobody has the device open *)
toy_module_exit ==
  /\ ioMod = "in"
  /\ ~writing
  /\ ioMod' = "exit"
  /\ wait_queue_flag' = "EXIT"
  /\ UNCHANGED <<example, at, ledvalue, writing, gpioVars>>

exit_wakes ==
  /\ ioMod = "exit"
  /\ ioMod' = "woken"
  /\ wake_up_interruptible
  /\ UNCHANGED <<wait_queue_flag, example, ledvalue, writing, gpioVars>>

(* The lines and the module's memory are freed, whether the thread has     *)
(* seen EXIT or not; the module that is loaded next starts afresh.         *)
exit_frees ==
  /\ ioMod = "woken"
  /\ ioMod' = "out"
  /\ pins' = "free"
  /\ fault' = IF at = "ended" THEN fault ELSE "unloaded"
  /\ wait_queue_flag' = "WAIT"
  /\ example' = 1 /\ at' = "ended" /\ ledvalue' = FALSE
  /\ UNCHANGED <<writing, lit, button>>

-----------------------------------------------------------------------------
(* toy_driver_write with the byte the program sent.  `n' sends 1 and       *)
(* `n exit' sends 2 (toy_simple_io in ui/input.c); other programs may send *)
(* anything.  Bytes above 2 change nothing.                                *)
toy_driver_write(byte) ==
  /\ ioMod = "in"
  /\ ~writing
  /\ wait_queue_flag' = CASE byte = 0 -> "WAIT"
                          [] byte = 1 -> "KEY"
                          [] byte = 2 -> "NEXT"
  /\ writing' = (byte # 0)
  /\ UNCHANGED <<ioMod, example, at, ledvalue, gpioVars>>

(* Mutant: NEXT does not wake the thread.                                  *)
write_wakes_key ==
  /\ writing
  /\ writing' = FALSE
  /\ IF wait_queue_flag = "KEY" THEN wake_up_interruptible ELSE UNCHANGED at
  /\ UNCHANGED <<ioMod, wait_queue_flag, example, ledvalue, gpioVars>>

write_wakes ==
  /\ writing
  /\ writing' = FALSE
  /\ wake_up_interruptible
  /\ UNCHANGED <<ioMod, wait_queue_flag, example, ledvalue, gpioVars>>

-----------------------------------------------------------------------------
(* The kernel thread.                                                      *)
LED_ON(side) == lit \cup side
LED_OFF(side) == lit \ side

threadStep(from, to) ==
  /\ example = from[1] /\ at = from[2]
  /\ example' = to[1] /\ at' = to[2]
  /\ UNCHANGED <<ioMod, writing, pins, button, fault>>

(* the loop head of an example that toggles: leds is what is lit after it  *)
toggle(e, then, leds) ==
  /\ threadStep(<<e, "top">>, <<e, then>>)
  /\ ledvalue' = ~ledvalue
  /\ lit' = leds
  /\ UNCHANGED wait_queue_flag

(* wait_queue_flag = WAIT_QUEUE_WAIT                                       *)
arm(from, to) ==
  /\ threadStep(from, to)
  /\ wait_queue_flag' = "WAIT"
  /\ UNCHANGED <<ledvalue, lit>>

(* wait_event_interruptible                                                *)
wait_event(e) ==
  /\ threadStep(<<e, "wait">>,
                <<e, IF wait_queue_flag = "WAIT" THEN "sleep" ELSE "test">>)
  /\ UNCHANGED <<wait_queue_flag, ledvalue, lit>>

(* Mutant: EXIT does not leave the example.                                *)
test_flag_next(e, loop) ==
  /\ \/ threadStep(<<e, "test">>, <<e, "next">>)
     \/ threadStep(<<e, "next">>,
                   <<e, IF wait_queue_flag = "NEXT" THEN "return" ELSE loop>>)
  /\ UNCHANGED <<wait_queue_flag, ledvalue, lit>>

(* Flag read twice: EXIT or NEXT leave the example.                        *)
test_flag(e, loop) ==
  /\ \/ threadStep(<<e, "test">>,
                   <<e, IF wait_queue_flag = "EXIT" THEN "return" ELSE "next">>)
     \/ threadStep(<<e, "next">>,
                   <<e, IF wait_queue_flag = "NEXT" THEN "return" ELSE loop>>)
  /\ UNCHANGED <<wait_queue_flag, ledvalue, lit>>

(* Mutant: the examples do not start over.                                 *)
simple_io_kthread_once(e) ==
  /\ IF wait_queue_flag = "EXIT"
     THEN threadStep(<<e, "return">>, <<e, "ended">>)
     ELSE threadStep(<<e, "return">>,
                     <<e + 1, IF e \in 3..5 THEN "arm" ELSE "top">>)
  /\ ledvalue' = FALSE
  /\ UNCHANGED <<wait_queue_flag, lit>>

(* return wait_queue_flag, read once more: simple_io_kthread stops on EXIT *)
(* and goes round the examples otherwise.  Examples 4 to 6 begin with      *)
(* their assignment of the flag.                                           *)
simple_io_kthread(e) ==
  /\ IF wait_queue_flag = "EXIT"
     THEN threadStep(<<e, "return">>, <<e, "ended">>)
     ELSE threadStep(<<e, "return">>,
                     <<(e % 6) + 1, IF e \in 3..5 THEN "arm" ELSE "top">>)
  /\ ledvalue' = FALSE
  /\ UNCHANGED <<wait_queue_flag, lit>>

waiting(e) == arm(<<e, "arm">>, <<e, "wait">>) \/ wait_event(e)
              \/ test_flag(e, "top")

(* what the two branches of the toggle light, by the side they switch      *)
leftToggled == IF ledvalue THEN LED_OFF(LeftLeds) ELSE LED_ON(LeftLeds)
rightToggled == IF ledvalue THEN LED_OFF(RightLeds) ELSE LED_ON(RightLeds)
sidesToggled == IF ledvalue THEN LeftLeds ELSE RightLeds

toy_simple_io_example_1 == toggle(1, "arm", leftToggled) \/ waiting(1)
toy_simple_io_example_2 == toggle(2, "arm", rightToggled) \/ waiting(2)

(* Mutant: the left LEDs stay on.                                          *)
toy_simple_io_example_3_left == toggle(3, "arm", rightToggled) \/ waiting(3)
toy_simple_io_example_3 == toggle(3, "arm", sidesToggled) \/ waiting(3)

(* Example 4 does not wait: usleep_range between toggle and test.          *)
toy_simple_io_example_4 ==
  \/ arm(<<4, "arm">>, <<4, "top">>)
  \/ toggle(4, "test", sidesToggled)
  \/ test_flag(4, "top")

(* Example 5 shows the button.                                             *)
toy_simple_io_example_5 ==
  \/ arm(<<5, "arm">>, <<5, "top">>)
  \/ /\ threadStep(<<5, "top">>, <<5, "test">>)
     /\ lit' = IF button = 1 THEN LeftLeds ELSE RightLeds
     /\ UNCHANGED <<wait_queue_flag, ledvalue>>
  \/ test_flag(5, "top")

(* Example 6 switches sides when the button goes down and then waits       *)
(* until it is up again.                                                   *)
toy_simple_io_example_6 ==
  \/ arm(<<6, "arm">>, <<6, "test">>)
  \/ test_flag(6, "top")
  \/ /\ button = 1
     /\ threadStep(<<6, "top">>, <<6, "test">>)
     /\ UNCHANGED <<wait_queue_flag, ledvalue, lit>>
  \/ /\ button = 0
     /\ toggle(6, "held", sidesToggled)
  \/ /\ threadStep(<<6, "held">>, <<6, IF button = 1 THEN "test" ELSE "held">>)
     /\ UNCHANGED <<wait_queue_flag, ledvalue, lit>>

kthreadStep ==
  \/ toy_simple_io_example_1 \/ toy_simple_io_example_2
  \/ toy_simple_io_example_3 \/ toy_simple_io_example_4
  \/ toy_simple_io_example_5 \/ toy_simple_io_example_6
  \/ \E e \in 1..6 : simple_io_kthread(e)

ioNext ==
  \/ io_init \/ io_init_fails \/ toy_module_exit \/ exit_wakes \/ exit_frees
  \/ \E byte \in 0..2 : toy_driver_write(byte)
  \/ write_wakes
  \/ kthreadStep

(* The scheduler runs the thread and lets a system call finish.            *)
ioFairness ==
  /\ WF_ioVars(kernelUp /\ kthreadStep)
  /\ WF_ioVars(kernelUp /\ write_wakes)
  /\ WF_ioVars(kernelUp /\ exit_wakes)

-----------------------------------------------------------------------------
IoTypeOK ==
  /\ ioMod \in {"out", "in", "exit", "woken"}
  /\ wait_queue_flag \in WaitQueueFlags
  /\ example \in 1..6
  /\ at \in Places
  /\ ledvalue \in BOOLEAN
  /\ writing \in BOOLEAN

(* From the first switch of example 3 to the end of example 6 exactly one  *)
(* side is lit.  Example 6 switches nothing when it starts: it relies on   *)
(* what example 5 left, and that on a command having come in time          *)
(* (simple_io.c:208-331).                                                  *)
OneSideLit ==
  ioMod # "out" /\ (example \in 4..6 \/ (example = 3 /\ at # "top"))
  => lit \in {LeftLeds, RightLeds}

(* The thread has reset the flag and has still to look at it.              *)
listening ==
  \/ at \in {"wait", "sleep", "test", "return", "held"}
  \/ example \in 4..6 /\ at # "arm"

(* A NEXT that is written while the thread listens moves it on to another  *)
(* example: the thread neither sleeps through it (simple_io.c:107-111,     *)
(* 170) nor polls past it (261), unless another command replaces it or the *)
(* button is held down in example 6.                                       *)
NextObeyed ==
  \A e \in 1..6 :
    ioMod = "in" /\ wait_queue_flag = "NEXT" /\ example = e /\ listening
    ~> example # e \/ wait_queue_flag # "NEXT" \/ button = 0 \/ ~kernelUp

(* An EXIT that rmmod sets while the thread listens ends the thread, or    *)
(* the memory is freed under it first (simple_io.c:461-482 waits for       *)
(* nothing).                                                               *)
ExitObeyed ==
  ioMod = "exit" /\ wait_queue_flag = "EXIT" /\ listening
  ~> at = "ended" \/ button = 0 \/ ~kernelUp

=============================================================================
