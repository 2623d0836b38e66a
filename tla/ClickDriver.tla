----------------------------- MODULE ClickDriver -----------------------------
(***************************************************************************)
(* The kernel module drivers/state_machine/state_machine.c.  A button      *)
(* interrupt counts clicks; a second click within half a second is a       *)
(* double click, otherwise the click timer reports a single click.  Both   *)
(* feed a table-driven state machine that switches LEDs, some of them one  *)
(* by one through timers of their own.                                     *)
(*                                                                         *)
(* click_timer_callback runs as a timer, and inside button_isr when a      *)
(* second click is seen.  The two run on different CPUs, or the interrupt  *)
(* nests in the timer, and nothing locks click_count or the state: each    *)
(* access is a step of its own.  Time is left out: a timer that is queued  *)
(* may expire at any later step.                                           *)
(***************************************************************************)
EXTENDS Gpio, Naturals

VARIABLES
  clickMod,     (* "out"; "irq": request_irq done, click_timer not set up;
                   "in"; "exit": toy_driver_exit has deleted click_timer   *)
  click_count,
  clickPending, (* click_timer is queued                                   *)
  ledTimers,    (* <<"on", l>>, <<"off", l>>: led_on_timers and
                   led_off_timers that are queued                          *)
  state,        (* state_machine's static state                            *)
  pc,           (* step of "timer" and "isr" in the code below, or "none"  *)
  reg,          (* the value button_isr holds in a register                *)
  sm,           (* what each found in state_machine_table                  *)
  overlap,      (* both were in state_machine at the same time: history    *)
  clash         (* handler and callback were running at the same time since
                   the module was loaded: history                          *)

clickVars == <<clickMod, click_count, clickPending, ledTimers, state, pc, reg,
               sm, overlap, clash>>

Actors == {"timer", "isr"}
Steps == {"none", "store", "decide", "test", "single", "double", "lookup",
          "act", "zero"}

(* state_machine_table: the row of a state, by input.                      *)
element(s, a) == [next_state |-> s, action |-> a]
state_machine_table ==
  [s \in 0..6 |->
     CASE s = 0 -> [SW_ON  |-> element(1, "LEFT_ON"),
                    SW_OFF |-> element(0, "NOP"),
                    T_OUT  |-> element(0, "NOP")]
       [] s = 1 -> [SW_ON  |-> element(1, "LEFT_ON"),
                    SW_OFF |-> element(2, "LEFT_OFF"),
                    T_OUT  |-> element(3, "LEFT_6_ON")]
       [] s = 2 -> [SW_ON  |-> element(2, "LEFT_OFF"),
                    SW_OFF |-> element(0, "NOP"),
                    T_OUT  |-> element(4, "ALL_ON")]
       [] s = 3 -> [SW_ON  |-> element(3, "LEFT_6_ON"),
                    SW_OFF |-> element(4, "ALL_ON"),
                    T_OUT  |-> element(4, "ALL_ON")]
       [] s = 4 -> [SW_ON  |-> element(4, "ALL_ON"),
                    SW_OFF |-> element(5, "LEFT_4_ON"),
                    T_OUT  |-> element(6, "ALL_OFF")]
       [] s = 5 -> [SW_ON  |-> element(5, "LEFT_4_ON"),
                    SW_OFF |-> element(6, "ALL_OFF"),
                    T_OUT  |-> element(0, "RESET_TIMER")]
       [] s = 6 -> [SW_ON  |-> element(0, "ALL_OFF"),
                    SW_OFF |-> element(0, "RESET_TIMER"),
                    T_OUT  |-> element(0, "RESET_TIMER")]]

Inputs == {"SW_ON", "SW_OFF", "T_OUT"}
Elements == {state_machine_table[s][i] : s \in 0..6, i \in Inputs}
NoElement == element(0, "NOP")
goto(a, step) == pc' = [pc EXCEPT ![a] = step]
otherInMachine(a) == \E b \in Actors \ {a} : pc[b] \in {"lookup", "act"}

(* The static storage of a module that is loaded next is zero again.       *)
clickFresh ==
  /\ click_count' = 0 /\ clickPending' = FALSE /\ ledTimers' = {}
  /\ state' = 0 /\ overlap' = FALSE /\ clash' = FALSE
  /\ pc' = [a \in Actors |-> "none"] /\ reg' = 0
  /\ sm' = [a \in Actors |-> NoElement]

ClickInit ==
  /\ clickMod = "out"
  /\ click_count = 0 /\ clickPending = FALSE /\ ledTimers = {}
  /\ state = 0 /\ overlap = FALSE /\ clash = FALSE
  /\ pc = [a \in Actors |-> "none"] /\ reg = 0
  /\ sm = [a \in Actors |-> NoElement]

-----------------------------------------------------------------------------
(* toy_driver_init and toy_driver_exit.                                    *)

(* Up to request_irq: test_led leaves every LED off.                       *)
click_init ==
  /\ clickMod = "out"
  /\ pins = "free"
  /\ pins' = "click"
  /\ lit' = {}
  /\ clickMod' = "irq"
  /\ UNCHANGED <<click_count, clickPending, ledTimers, state, pc, reg, sm,
                 overlap, clash, button, fault>>

(* request_irq fails: toy_driver_init returns and undoes nothing.          *)
click_init_no_irq ==
  /\ clickMod = "out"
  /\ pins = "free"
  /\ pins' = "click"
  /\ lit' = {}
  /\ UNCHANGED <<button, fault, clickVars>>

(* Somebody has the lines.                                                 *)
click_init_fails ==
  /\ clickMod = "out"
  /\ gpio_error
  /\ UNCHANGED clickVars

(* timer_setup(&click_timer), after the interrupt is live.                 *)
click_timer_setup ==
  /\ clickMod = "irq"
  /\ clickMod' = "in"
  /\ UNCHANGED <<click_count, clickPending, ledTimers, state, pc, reg, sm,
                 overlap, clash, gpioVars>>

(* rmmod: del_timer comes before free_irq and does not wait.               *)
click_exit ==
  /\ clickMod = "in"
  /\ clickMod' = "exit"
  /\ clickPending' = FALSE
  /\ UNCHANGED <<click_count, ledTimers, state, pc, reg, sm, overlap,
                 clash, gpioVars>>

(* free_irq waits for the handler; gpio_free and the rest follow.  A timer *)
(* that is still queued or running now lies in freed memory.               *)
click_exit_free ==
  /\ clickMod = "exit"
  /\ pc["isr"] = "none"
  /\ clickMod' = "out"
  /\ pins' = "free"
  /\ fault' = IF clickPending \/ ledTimers # {} \/ pc["timer"] # "none"
              THEN "unloaded" ELSE fault
  /\ clickFresh
  /\ UNCHANGED <<lit, button>>

-----------------------------------------------------------------------------
(* button_isr: a falling edge on line 16, which comes once the handler of  *)
(* the edge before is done.  click_count++ is a load and a store.          *)
button_isr ==
  /\ clickMod \in {"irq", "in", "exit"}
  /\ button = 1
  /\ pc["isr"] = "none"
  /\ button' = 0
  /\ reg' = click_count + 1
  /\ clash' = (clash \/ pc["timer"] # "none")
  /\ goto("isr", "store")
  /\ UNCHANGED <<clickMod, click_count, clickPending, ledTimers, state, sm,
                 overlap, lit, pins, fault>>

isr_store ==
  /\ pc["isr"] = "store"
  /\ click_count' = reg
  /\ goto("isr", "decide")
  /\ UNCHANGED <<clickMod, clickPending, ledTimers, state, reg, sm, overlap,
                 clash, gpioVars>>

(* Mutant: the second click does not delete the timer of the first.        *)
isr_decide_keeps_timer ==
  /\ pc["isr"] = "decide"
  /\ clickPending' = (reg = 1 \/ clickPending)
  /\ fault' = IF reg = 1 /\ clickMod = "irq" THEN "uninit" ELSE fault
  /\ goto("isr", IF reg = 2 THEN "test" ELSE "none")
  /\ reg' = 0
  /\ UNCHANGED <<clickMod, click_count, ledTimers, state, sm, overlap, clash,
                 lit, pins, button>>

(* First click: mod_timer.  Second click: del_timer, which does not stop a *)
(* callback that already runs, and click_timer_callback.                   *)
isr_decide ==
  /\ pc["isr"] = "decide"
  /\ clickPending' = CASE reg = 1 -> TRUE
                       [] reg = 2 -> FALSE
                       [] OTHER   -> clickPending
  /\ fault' = IF reg = 1 /\ clickMod = "irq" THEN "uninit" ELSE fault
  /\ goto("isr", IF reg = 2 THEN "test" ELSE "none")
  /\ reg' = 0
  /\ UNCHANGED <<clickMod, click_count, ledTimers, state, sm, overlap, clash,
                 lit, pins, button>>

(* click_timer expires.                                                    *)
click_timer_fires ==
  /\ clickPending
  /\ pc["timer"] = "none"
  /\ clickPending' = FALSE
  /\ clash' = (clash \/ pc["isr"] # "none")
  /\ goto("timer", "test")
  /\ UNCHANGED <<clickMod, click_count, ledTimers, state, reg, sm, overlap,
                 gpioVars>>

-----------------------------------------------------------------------------
(* click_timer_callback, called by a.                                      *)

(* One click is SW_ON, two are T_OUT; anything else is not reported.       *)
click_timer_callback(a) ==
  /\ pc[a] = "test"
  /\ goto(a, CASE click_count = 1 -> "single"
               [] click_count = 2 -> "double"
               [] OTHER           -> "zero")
  /\ UNCHANGED <<clickMod, click_count, clickPending, ledTimers, state, reg, sm,
                 overlap, clash, gpioVars>>

(* sm = state_machine_table[state][input]                                  *)
state_machine_lookup(a) ==
  /\ pc[a] \in {"single", "double"}
  /\ sm' = [sm EXCEPT ![a] = state_machine_table[state]
                               [IF pc[a] = "single" THEN "SW_ON" ELSE "T_OUT"]]
  /\ goto(a, "lookup")
  /\ UNCHANGED <<clickMod, click_count, clickPending, ledTimers, state, reg,
                 overlap, clash, gpioVars>>

(* state = sm.next_state                                                   *)
state_machine(a) ==
  /\ pc[a] = "lookup"
  /\ state' = sm[a].next_state
  /\ overlap' = (overlap \/ otherInMachine(a))
  /\ goto(a, "act")
  /\ UNCHANGED <<clickMod, click_count, clickPending, ledTimers, reg, sm,
                 clash, gpioVars>>

(* start_led_on_sequence, start_led_off_sequence: timer_setup of a timer   *)
(* that is still queued corrupts the timer wheel.                          *)
start_led_sequence(kind) ==
  /\ ledTimers' = ledTimers \cup {<<kind, l>> : l \in LeftLeds}
  /\ fault' = IF \E l \in LeftLeds : <<kind, l>> \in ledTimers
              THEN "reinit" ELSE fault
  /\ UNCHANGED lit

(* gpio_set_value and set_bit_led                                          *)
set_leds(on, off) ==
  /\ lit' = (lit \ off) \cup on
  /\ UNCHANGED <<ledTimers, fault>>

(* Mutant: ACTION_ALL_OFF clears only the left LEDs.                       *)
state_machine_action_left_off(a) ==
  /\ pc[a] = "act"
  /\ goto(a, "zero")
  /\ state' = IF sm[a].action = "RESET_TIMER" THEN 0 ELSE state
  /\ CASE sm[a].action = "NOP"         -> set_leds({}, {})
       [] sm[a].action = "LEFT_ON"     -> start_led_sequence("on")
       [] sm[a].action = "LEFT_OFF"    -> start_led_sequence("off")
       [] sm[a].action = "ALL_ON"      -> set_leds(Leds, {})
       [] sm[a].action = "ALL_OFF"     -> set_leds({}, LeftLeds)
       [] sm[a].action = "LEFT_4_ON"   -> set_leds(LeftLeds, {})
       [] sm[a].action = "LEFT_6_ON"   -> set_leds(LeftLeds \cup {"right12"}, {})
       [] sm[a].action = "RESET_TIMER" -> set_leds({}, Leds)
  /\ UNCHANGED <<clickMod, click_count, clickPending, reg, sm, overlap,
                 clash, pins, button>>

(* The switch over sm.action.                                              *)
state_machine_action(a) ==
  /\ pc[a] = "act"
  /\ goto(a, "zero")
  /\ state' = IF sm[a].action = "RESET_TIMER" THEN 0 ELSE state
  /\ CASE sm[a].action = "NOP"         -> set_leds({}, {})
       [] sm[a].action = "LEFT_ON"     -> start_led_sequence("on")
       [] sm[a].action = "LEFT_OFF"    -> start_led_sequence("off")
       [] sm[a].action = "ALL_ON"      -> set_leds(Leds, {})
       [] sm[a].action = "ALL_OFF"     -> set_leds({}, Leds)
       [] sm[a].action = "LEFT_4_ON"   -> set_leds(LeftLeds, {})
       [] sm[a].action = "LEFT_6_ON"   -> set_leds(LeftLeds \cup {"right12"}, {})
       [] sm[a].action = "RESET_TIMER" -> set_leds({}, Leds)
  /\ UNCHANGED <<clickMod, click_count, clickPending, reg, sm, overlap,
                 clash, pins, button>>

(* Mutant: only a double click is cleared.                                 *)
click_reset_double(a) ==
  /\ pc[a] = "zero"
  /\ click_count' = IF click_count = 2 THEN 0 ELSE click_count
  /\ goto(a, "none")
  /\ sm' = [sm EXCEPT ![a] = NoElement]
  /\ UNCHANGED <<clickMod, clickPending, ledTimers, state, reg, overlap, clash,
                 gpioVars>>

(* click_count = 0; the locals are gone.                                   *)
click_reset(a) ==
  /\ pc[a] = "zero"
  /\ click_count' = 0
  /\ goto(a, "none")
  /\ sm' = [sm EXCEPT ![a] = NoElement]
  /\ UNCHANGED <<clickMod, clickPending, ledTimers, state, reg, overlap, clash,
                 gpioVars>>

(* led_on_timer_callback, led_off_timer_callback                           *)
led_timer_callback(kind, l) ==
  /\ <<kind, l>> \in ledTimers
  /\ ledTimers' = ledTimers \ {<<kind, l>>}
  /\ lit' = IF kind = "on" THEN lit \cup {l} ELSE lit \ {l}
  /\ UNCHANGED <<clickMod, click_count, clickPending, state, pc, reg, sm,
                 overlap, clash, pins, button, fault>>

callbackStep(a) ==
  \/ click_timer_callback(a) \/ state_machine_lookup(a) \/ state_machine(a)
  \/ state_machine_action(a) \/ click_reset(a)

isrStep == isr_store \/ isr_decide \/ callbackStep("isr")

clickNext ==
  \/ click_init \/ click_init_no_irq \/ click_init_fails \/ click_timer_setup
  \/ click_exit \/ click_exit_free
  \/ button_isr \/ isrStep
  \/ click_timer_fires \/ callbackStep("timer")
  \/ \E kind \in {"on", "off"}, l \in LeftLeds : led_timer_callback(kind, l)

(* A handler that runs goes on; a queued timer expires; insmod goes on.    *)
clickFairness ==
  /\ WF_clickVars(kernelUp /\ isrStep)
  /\ WF_clickVars(kernelUp /\ callbackStep("timer"))
  /\ WF_clickVars(kernelUp /\ click_timer_fires)

-----------------------------------------------------------------------------
ClickTypeOK ==
  /\ clickMod \in {"out", "irq", "in", "exit"}
  /\ click_count \in 0..2
  /\ clickPending \in BOOLEAN
  /\ ledTimers \subseteq {"on", "off"} \X LeftLeds
  /\ state \in 0..6
  /\ pc \in [Actors -> Steps]
  /\ reg \in 0..2
  /\ sm \in [Actors -> Elements]
  /\ overlap \in BOOLEAN
  /\ clash \in BOOLEAN

(* The right LEDs show the state: unless interrupt and timer were in       *)
(* state_machine together, the outer pair is lit exactly in state 4 and    *)
(* the inner pair in states 3 and 4, once the action is over               *)
(* (state_machine.c:229-305).  Late led_on timers only touch the left.     *)
RightLedsShowState ==
  clickMod = "in" /\ kernelUp /\ ~overlap /\ (\A a \in Actors : pc[a] # "act")
  => /\ "right34" \in lit <=> state = 4
     /\ "right12" \in lit <=> state \in {3, 4}

(* The callback finds the clicks it was called for: the click timer finds  *)
(* one, the handler that calls it on a second click finds two, unless      *)
(* handler and timer have run at the same time.  Then one of them may      *)
(* clear the count, or add to it, before the other has looked, and a click *)
(* is lost or reported twice.  The timer of a first click must be gone     *)
(* before the second is reported, and the count be cleared before the next *)
(* is counted (state_machine.c:202-227).                                   *)
CallbackFindsClicks ==
  kernelUp /\ ~clash =>
    /\ pc["timer"] = "test" => click_count = 1
    /\ pc["isr"] = "test" => click_count = 2

(* The count of clicks is cleared again.  With the interrupt and the timer *)
(* changing click_count behind each other's back, a count above 0 always   *)
(* has a queued timer or a running callback that will clear it; otherwise  *)
(* the next click would be taken for a double click, or the count would    *)
(* pass 2 and the button be dead (state_machine.c:202-227).  When handler  *)
(* and timer run at the same time it may be cleared without the click      *)
(* having been reported.                                                   *)
ClickCountClears ==
  clickMod = "in" /\ click_count > 0
  ~> click_count = 0 \/ ~kernelUp \/ clickMod # "in"

=============================================================================
