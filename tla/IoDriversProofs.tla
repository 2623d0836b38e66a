--------------------------- MODULE IoDriversProofs ---------------------------
(***************************************************************************)
(* The two LED drivers on one board: what is lit shows the state machine's *)
(* state or one side, for any number of left LEDs, and a click is found by *)
(* the callback that was called for it.                                    *)
(***************************************************************************)
EXTENDS IoDrivers, TLAPS

-----------------------------------------------------------------------------
(* The inductive invariant.                                                *)

(* A count of 2 is seen only by the interrupt handler that stored it.      *)
CountInv ==
  /\ pc["isr"] \in {"none", "store"} => click_count <= 1
  /\ pc["isr"] \in {"store", "decide"} => reg \in 1..2
  /\ pc["isr"] = "decide" => click_count <= reg

(* A module that is out has left nothing behind.                           *)
ClickOut ==
  clickMod = "out" /\ kernelUp =>
    /\ ledTimers = {} /\ ~clickPending
    /\ state = 0 /\ ~overlap
    /\ \A a \in Actors : pc[a] = "none"

(* The driver that is loaded has requested the lines.                      *)
PinsHeld ==
  kernelUp => /\ clickMod # "out" => pins = "click" /\ ioMod = "out"
              /\ ioMod # "out" => pins = "simple_io" /\ clickMod = "out"

(* While handler and callback take turns, a queued timer has its click,    *)
(* and the one that runs has them to itself: what makes                    *)
(* CallbackFindsClicks inductive.                                          *)
TurnsInv ==
  kernelUp /\ ~clash =>
    /\ pc["timer"] = "none" \/ pc["isr"] = "none"
    /\ clickPending =>
         /\ pc["timer"] = "none"
         /\ pc["isr"] \in {"none", "store", "decide"}
         /\ click_count = IF pc["isr"] = "decide" THEN 2 ELSE 1
    /\ pc["isr"] = "store" => reg = click_count + 1
    /\ pc["isr"] = "decide" => reg = click_count

IoOut == ioMod = "out" => at = "ended" /\ example = 1

(* The right LEDs as they are when the machine rests in state s.           *)
Shows(s) ==
  /\ "right34" \in lit <=> s = 4
  /\ "right12" \in lit <=> s \in {3, 4}

(* What click_timer_callback looks up: a single or a double click.         *)
Clicks == {"SW_ON", "T_OUT"}
LookedUp(a, s) == \E i \in Clicks : sm[a] = state_machine_table[s][i]

(* Unless interrupt and timer have overlapped in state_machine, the row    *)
(* that was looked up is still that of the state, and the LEDs lag behind  *)
(* the state only while its action is to be done.                          *)
MachineInv ==
  clickMod # "out" /\ kernelUp /\ ~overlap =>
    /\ \A a \in Actors : pc[a] = "lookup" => LookedUp(a, state)
    /\ \A a \in Actors : pc[a] = "act" =>
         /\ state = sm[a].next_state
         /\ \E s \in 0..6 : LookedUp(a, s) /\ Shows(s)
         /\ \A b \in Actors : pc[b] = "act" => a = b
    /\ (\A a \in Actors : pc[a] # "act") => Shows(state)

(* TypeOK in two parts, of which one is for each of the provers.           *)
Flags ==
  /\ clickPending \in BOOLEAN /\ overlap \in BOOLEAN /\ clash \in BOOLEAN
  /\ ledvalue \in BOOLEAN /\ writing \in BOOLEAN

Kinds ==
  /\ GpioTypeOK
  /\ clickMod \in {"out", "irq", "in", "exit"}
  /\ click_count \in 0..2
  /\ ledTimers \subseteq {"on", "off"} \X LeftLeds
  /\ state \in 0..6
  /\ pc \in [Actors -> Steps]
  /\ reg \in 0..2
  /\ sm \in [Actors -> Elements]
  /\ ioMod \in {"out", "in", "exit", "woken"}
  /\ wait_queue_flag \in WaitQueueFlags
  /\ example \in 1..6
  /\ at \in Places

LEMMA TypeParts == TypeOK <=> Flags /\ Kinds
  BY DEF TypeOK, ClickTypeOK, IoTypeOK, Flags, Kinds

BoardInv ==
  /\ Kinds
  /\ CountInv
  /\ ClickOut
  /\ IoOut
  /\ PinsHeld
  /\ TurnsInv
  /\ CallbackFindsClicks
  /\ MachineInv
  /\ OneSideLit

-----------------------------------------------------------------------------
(* state_machine_table.                                                    *)

(* The columns of the table that clicks reach.                             *)
LEMMA ClickRows ==
  /\ state_machine_table[0]["SW_ON"] = element(1, "LEFT_ON")
  /\ state_machine_table[0]["T_OUT"] = element(0, "NOP")
  /\ state_machine_table[1]["SW_ON"] = element(1, "LEFT_ON")
  /\ state_machine_table[1]["T_OUT"] = element(3, "LEFT_6_ON")
  /\ state_machine_table[2]["SW_ON"] = element(2, "LEFT_OFF")
  /\ state_machine_table[2]["T_OUT"] = element(4, "ALL_ON")
  /\ state_machine_table[3]["SW_ON"] = element(3, "LEFT_6_ON")
  /\ state_machine_table[3]["T_OUT"] = element(4, "ALL_ON")
  /\ state_machine_table[4]["SW_ON"] = element(4, "ALL_ON")
  /\ state_machine_table[4]["T_OUT"] = element(6, "ALL_OFF")
  /\ state_machine_table[5]["SW_ON"] = element(5, "LEFT_4_ON")
  /\ state_machine_table[5]["T_OUT"] = element(0, "RESET_TIMER")
  /\ state_machine_table[6]["SW_ON"] = element(0, "ALL_OFF")
  /\ state_machine_table[6]["T_OUT"] = element(0, "RESET_TIMER")
  BY DEF state_machine_table

(* What state_machine does on a click when it runs alone: the action of    *)
(* the row brings the right LEDs from the old state to the new one.        *)
NextShows(s, e) ==
  /\ e.action \in {"NOP", "LEFT_ON", "LEFT_OFF", "LEFT_4_ON"} =>
       e.next_state \notin {3, 4} /\ s \notin {3, 4}
  /\ e.action = "LEFT_6_ON" => e.next_state = 3 /\ s # 4
  /\ e.action = "ALL_ON" => e.next_state = 4
  /\ e.action \in {"ALL_OFF", "RESET_TIMER"} => e.next_state \notin {3, 4}
  /\ e.action = "RESET_TIMER" => e.next_state = 0
  /\ e.next_state \in 0..6

Actions == {"NOP", "LEFT_ON", "LEFT_OFF", "ALL_ON", "ALL_OFF", "LEFT_4_ON",
            "LEFT_6_ON", "RESET_TIMER"}

LEMMA RowsShow ==
  ASSUME NEW s \in 0..6, NEW i \in Clicks
  PROVE  /\ NextShows(s, state_machine_table[s][i])
         /\ state_machine_table[s][i].action \in Actions
  <1> DEFINE good(e) == NextShows(s, e) /\ e.action \in Actions
  <1>1. s \in {0, 1, 2, 3, 4, 5, 6} /\ i \in {"SW_ON", "T_OUT"}
    BY DEF Clicks
  <1>2. ASSUME s = 0 PROVE good(element(1, "LEFT_ON")) /\ good(element(0, "NOP"))
    BY <1>2 DEF element, NextShows, Actions
  <1>3. ASSUME s = 1 PROVE good(element(1, "LEFT_ON")) /\ good(element(3, "LEFT_6_ON"))
    BY <1>3 DEF element, NextShows, Actions
  <1>4. ASSUME s = 2 PROVE good(element(2, "LEFT_OFF")) /\ good(element(4, "ALL_ON"))
    BY <1>4 DEF element, NextShows, Actions
  <1>5. ASSUME s = 3 PROVE good(element(3, "LEFT_6_ON")) /\ good(element(4, "ALL_ON"))
    BY <1>5 DEF element, NextShows, Actions
  <1>6. ASSUME s = 4 PROVE good(element(4, "ALL_ON")) /\ good(element(6, "ALL_OFF"))
    BY <1>6 DEF element, NextShows, Actions
  <1>7. ASSUME s = 5 PROVE good(element(5, "LEFT_4_ON")) /\ good(element(0, "RESET_TIMER"))
    BY <1>7 DEF element, NextShows, Actions
  <1>8. ASSUME s = 6 PROVE good(element(0, "ALL_OFF")) /\ good(element(0, "RESET_TIMER"))
    BY <1>8 DEF element, NextShows, Actions
  <1> HIDE DEF good
  <1>9. good(state_machine_table[s][i])
    BY <1>1, <1>2, <1>3, <1>4, <1>5, <1>6, <1>7, <1>8, ClickRows
  <1>10. QED BY <1>9 DEF good

(* Every row leads to a state of the machine.                              *)
LEMMA ElementsType ==
  /\ NoElement \in Elements
  /\ \A s \in 0..6, i \in Inputs : state_machine_table[s][i] \in Elements
  /\ \A e \in Elements : e.next_state \in 0..6 /\ e.action \in Actions
  <1>1. state_machine_table[0]["SW_OFF"] = NoElement
    BY DEF state_machine_table, NoElement
  <1>2. ASSUME NEW s \in 0..6
        PROVE  /\ state_machine_table[s]["SW_OFF"].next_state \in 0..6
               /\ state_machine_table[s]["SW_OFF"].action \in Actions
    <2>1. s \in {0, 1, 2, 3, 4, 5, 6} OBVIOUS
    <2>2. QED BY <2>1 DEF state_machine_table, element, Actions
  <1>3. ASSUME NEW s \in 0..6, NEW i \in Inputs
        PROVE  /\ state_machine_table[s][i].next_state \in 0..6
               /\ state_machine_table[s][i].action \in Actions
    <2>1. CASE i = "SW_OFF"
      BY <2>1, <1>2
    <2>2. CASE i \in Clicks
      BY <2>2, RowsShow DEF NextShows
    <2>3. QED BY <2>1, <2>2 DEF Inputs, Clicks
  <1>4. QED BY <1>1, <1>3 DEF Elements, Inputs

-----------------------------------------------------------------------------
(* The steps.                                                              *)

LEMMA ActorsAre ==
  /\ "isr" \in Actors /\ "timer" \in Actors
  /\ \A a \in Actors : a = "isr" \/ a = "timer"
  BY DEF Actors

USE ActorsAre
    DEF BoardInv, Kinds, GpioTypeOK, CountInv, ClickOut, IoOut,
        PinsHeld, TurnsInv, CallbackFindsClicks, OneSideLit, kernelUp, gpioVars, ioVars, clickVars,
        goto, Steps, Leds, Drivers, Faults

LEMMA InitInv == Init => BoardInv
  <1> SUFFICES ASSUME Init PROVE BoardInv
    OBVIOUS
  <1> USE DEF Init, GpioInit, ClickInit, IoInit
  <1>1. Kinds BY ElementsType DEF WaitQueueFlags, Places
  <1>2. CountInv /\ ClickOut /\ TurnsInv /\ CallbackFindsClicks OBVIOUS
  <1>3. IoOut /\ PinsHeld /\ OneSideLit OBVIOUS
  <1>4. MachineInv BY DEF MachineInv
  <1>5. QED BY <1>1, <1>2, <1>3, <1>4

(* insmod and rmmod of the click driver.                                   *)
LEMMA ClickModuleInv ==
  ASSUME BoardInv, kernelUp, UNCHANGED ioVars,
         \/ click_init \/ click_init_no_irq \/ click_init_fails
         \/ click_timer_setup \/ click_exit \/ click_exit_free
  PROVE  BoardInv'
  <1>1. CASE click_init
    BY <1>1 DEF click_init, MachineInv, Shows
  <1>2. CASE click_init_no_irq
    BY <1>2 DEF click_init_no_irq, MachineInv
  <1>3. CASE click_init_fails
    BY <1>3 DEF click_init_fails, gpio_error, MachineInv
  <1>4. CASE click_timer_setup
    BY <1>4 DEF click_timer_setup, MachineInv, LookedUp, Shows
  <1>5. CASE click_exit
    BY <1>5 DEF click_exit, MachineInv, LookedUp, Shows
  <1>6. CASE click_exit_free
    BY <1>6, ElementsType DEF click_exit_free, clickFresh, MachineInv
  <1>7. QED BY <1>1, <1>2, <1>3, <1>4, <1>5, <1>6

(* The handler up to its decision, and the timer that expires: they do not *)
(* touch the machine.                                                      *)
LEMMA IsrInv ==
  ASSUME BoardInv, kernelUp, UNCHANGED ioVars,
         button_isr \/ isr_store \/ isr_decide \/ click_timer_fires
  PROVE  BoardInv'
  <1>1. CASE button_isr
    <2>1. /\ pc["isr"] = "none" /\ reg' = click_count + 1
          /\ pc' = [pc EXCEPT !["isr"] = "store"]
          /\ clash' = (clash \/ pc["timer"] # "none")
          /\ clickMod # "out"
          /\ button' = 0
          /\ UNCHANGED <<clickMod, click_count, clickPending, ledTimers, state, sm,
                         overlap, lit, pins, fault>>
      BY <1>1 DEF button_isr
    <2>2. ~clash' => ~clash /\ pc["timer"] = "none"
      BY <2>1, Zenon
    <2>3. TurnsInv' /\ CallbackFindsClicks'
      BY <2>1, <2>2
    <2>4. MachineInv'
      BY <2>1 DEF MachineInv, LookedUp, Shows
    <2>5. QED BY <2>1, <2>3, <2>4
  <1>2. CASE isr_store
    BY <1>2 DEF isr_store, MachineInv, LookedUp, Shows
  <1>3. CASE isr_decide
    BY <1>3 DEF isr_decide, MachineInv, LookedUp, Shows
  <1>4. CASE click_timer_fires
    <2>1. /\ clickPending /\ pc["timer"] = "none" /\ ~clickPending'
          /\ pc' = [pc EXCEPT !["timer"] = "test"]
          /\ clash' = (clash \/ pc["isr"] # "none")
          /\ UNCHANGED <<clickMod, click_count, ledTimers, state, reg, sm, overlap,
                         gpioVars>>
      BY <1>4 DEF click_timer_fires
    <2>2. ~clash' => ~clash /\ pc["isr"] = "none"
      BY <2>1, Zenon
    <2>3. TurnsInv' /\ CallbackFindsClicks'
      BY <2>1, <2>2
    <2>4. MachineInv'
      BY <2>1 DEF MachineInv, LookedUp, Shows
    <2>5. QED BY <2>1, <2>3, <2>4
  <1>5. QED BY <1>1, <1>2, <1>3, <1>4

(* click_timer_callback looks at the count ...                             *)
LEMMA TestInv ==
  ASSUME BoardInv, kernelUp, UNCHANGED ioVars, NEW a \in Actors,
         click_timer_callback(a)
  PROVE  BoardInv'
  BY DEF click_timer_callback, MachineInv, LookedUp, Shows

(* ... state_machine looks a row up ...                                    *)
LEMMA LookupInv ==
  ASSUME BoardInv, kernelUp, UNCHANGED ioVars, NEW a \in Actors,
         state_machine_lookup(a)
  PROVE  BoardInv'
  <1> DEFINE i == IF pc[a] = "single" THEN "SW_ON" ELSE "T_OUT"
  <1>1. i \in Clicks /\ i \in Inputs
    BY DEF Clicks, Inputs
  <1>2. /\ sm' = [sm EXCEPT ![a] = state_machine_table[state][i]]
        /\ pc' = [pc EXCEPT ![a] = "lookup"]
        /\ pc[a] \in {"single", "double"}
        /\ UNCHANGED <<clickMod, click_count, clickPending, ledTimers, state, reg,
                       overlap, clash, gpioVars>>
    BY DEF state_machine_lookup
  <1> HIDE DEF i
  <1>3. state_machine_table[state][i] \in Elements
    BY <1>1, ElementsType
  <1>4. clickMod # "out"
    BY <1>2
  <1>5. MachineInv'
    BY <1>1, <1>2 DEF MachineInv, LookedUp, Shows
  <1>6. QED BY <1>2, <1>3, <1>4, <1>5

(* ... and takes its state.                                               *)
LEMMA StateInv ==
  ASSUME BoardInv, kernelUp, UNCHANGED ioVars, NEW a \in Actors, state_machine(a)
  PROVE  BoardInv'
  <1>1. sm[a].next_state \in 0..6
    BY ElementsType
  <1>2. clickMod # "out"
    BY DEF state_machine
  <1>3. MachineInv'
    <2> SUFFICES ASSUME ~overlap' PROVE MachineInv'
      BY DEF MachineInv
    <2>1. ~overlap /\ ~otherInMachine(a)
      BY Zenon DEF state_machine
    <2>2. \A b \in Actors \ {a} : pc[b] \notin {"lookup", "act"}
      BY <2>1 DEF otherInMachine
    <2>3. LookedUp(a, state) /\ Shows(state)
      BY <1>2, <2>1, <2>2 DEF state_machine, MachineInv
    <2>4. QED
      BY <2>2, <2>3 DEF state_machine, MachineInv, LookedUp, Shows
  <1>4. QED BY <1>1, <1>2, <1>3 DEF state_machine

LEMMA ResetInv ==
  ASSUME BoardInv, kernelUp, UNCHANGED ioVars, NEW a \in Actors, click_reset(a)
  PROVE  BoardInv'
  BY ElementsType DEF click_reset, MachineInv, LookedUp, Shows

(* A timer of a left LED does not touch the right ones.                    *)
LEMMA LedTimerInv ==
  ASSUME BoardInv, kernelUp, UNCHANGED ioVars, NEW kind \in {"on", "off"},
         NEW l \in LeftLeds, led_timer_callback(kind, l)
  PROVE  BoardInv'
  <1>1. l \notin {"right12", "right34"}
    BY LedsAssumption
  <1>2. QED
    BY <1>1 DEF led_timer_callback, MachineInv, LookedUp, Shows

(* The action of a row.                                                    *)
LEMMA ActionInv ==
  ASSUME BoardInv, kernelUp, UNCHANGED ioVars, NEW a \in Actors,
         state_machine_action(a)
  PROVE  BoardInv'
  <1> USE DEF set_leds, start_led_sequence
  <1>1. sm[a].action \in Actions
    BY ElementsType
  <1>2. clickMod # "out" /\ pc[a] = "act" /\ ioMod = "out"
    BY DEF state_machine_action
  <1>3. /\ pc' = [pc EXCEPT ![a] = "zero"]
        /\ state' = IF sm[a].action = "RESET_TIMER" THEN 0 ELSE state
        /\ UNCHANGED <<clickMod, click_count, clickPending, reg, sm, overlap, clash,
                       pins, button>>
    BY DEF state_machine_action
  <1>4. /\ lit' \subseteq Leds
        /\ ledTimers' \subseteq {"on", "off"} \X LeftLeds
        /\ fault' \in Faults
    <2>1. CASE sm[a].action \in {"LEFT_ON", "LEFT_OFF"}
      <3>1. PICK kind \in {"on", "off"} : start_led_sequence(kind)
        BY <2>1 DEF state_machine_action
      <3>2. QED BY <3>1
    <2>2. CASE sm[a].action \notin {"LEFT_ON", "LEFT_OFF"}
      <3> HIDE DEF set_leds, start_led_sequence
      <3>1. \/ set_leds({}, {}) \/ set_leds(Leds, {}) \/ set_leds({}, Leds)
            \/ set_leds(LeftLeds, {}) \/ set_leds(LeftLeds \cup {"right12"}, {})
        BY <2>2, <1>1 DEF state_machine_action, Actions
      <3>2. QED BY <3>1 DEF set_leds, RightLeds
    <2>3. QED BY <2>1, <2>2
  <1>5. MachineInv'
    <2> SUFFICES ASSUME fault' = "none", ~overlap' PROVE MachineInv'
      BY DEF MachineInv
    <2>1. PICK s \in 0..6 : LookedUp(a, s) /\ Shows(s)
      BY <1>2, <1>3 DEF MachineInv
    <2>2. /\ state = sm[a].next_state
          /\ \A b \in Actors : pc[b] = "act" => a = b
          /\ \A b \in Actors : pc[b] = "lookup" => LookedUp(b, state)
      BY <1>2, <1>3 DEF MachineInv
    <2>3. NextShows(s, sm[a])
      BY <2>1, RowsShow DEF LookedUp
    <2>4. state' = state
      BY <1>3, <2>2, <2>3 DEF NextShows
    <2>5. Shows(state)'
      <3>1. CASE sm[a].action \in {"NOP", "LEFT_ON", "LEFT_OFF"}
        BY <3>1, <2>1, <2>2, <2>3, <2>4 DEF state_machine_action, NextShows, Shows
      <3>2. CASE sm[a].action = "LEFT_4_ON"
        BY <3>2, <2>1, <2>2, <2>3, <2>4, LedsAssumption
        DEF state_machine_action, NextShows, Shows
      <3>3. CASE sm[a].action = "LEFT_6_ON"
        BY <3>3, <2>1, <2>2, <2>3, <2>4, LedsAssumption
        DEF state_machine_action, NextShows, Shows
      <3>4. CASE sm[a].action = "ALL_ON"
        BY <3>4, <2>2, <2>3, <2>4 DEF state_machine_action, NextShows, Shows, RightLeds
      <3>5. CASE sm[a].action \in {"ALL_OFF", "RESET_TIMER"}
        BY <3>5, <2>2, <2>3, <2>4 DEF state_machine_action, NextShows, Shows, RightLeds
      <3>6. QED BY <3>1, <3>2, <3>3, <3>4, <3>5, <1>1 DEF Actions
    <2>6. \A b \in Actors : pc'[b] # "act"
      BY <1>3, <2>2
    <2>7. \A b \in Actors : pc'[b] = "lookup" => LookedUp(b, state)'
      BY <1>3, <2>2, <2>4 DEF LookedUp
    <2>8. QED BY <2>5, <2>6, <2>7 DEF MachineInv
  <1>6. QED BY <1>2, <1>3, <1>4, <1>5

-----------------------------------------------------------------------------
(* insmod, rmmod and write of simple_io.                                   *)
LEMMA IoModuleInv ==
  ASSUME BoardInv, kernelUp, UNCHANGED clickVars,
         io_init \/ io_init_fails \/ toy_module_exit \/ exit_wakes \/ exit_frees
  PROVE  BoardInv'
  <1> USE DEF WaitQueueFlags, Places
  <1>1. CASE io_init
    BY <1>1 DEF io_init, MachineInv
  <1>2. CASE io_init_fails
    BY <1>2 DEF io_init_fails, gpio_error, MachineInv
  <1>3. CASE toy_module_exit
    BY <1>3 DEF toy_module_exit, MachineInv, LookedUp, Shows
  <1>4. CASE exit_wakes
    BY <1>4 DEF exit_wakes, wake_up_interruptible, MachineInv, LookedUp, Shows
  <1>5. CASE exit_frees
    BY <1>5 DEF exit_frees, MachineInv
  <1>6. QED BY <1>1, <1>2, <1>3, <1>4, <1>5

LEMMA WriteInv ==
  ASSUME BoardInv, kernelUp, UNCHANGED clickVars,
         (\E byte \in 0..2 : toy_driver_write(byte)) \/ write_wakes
  PROVE  BoardInv'
  <1> USE DEF WaitQueueFlags, Places
  <1>1. ASSUME NEW byte \in 0..2, toy_driver_write(byte) PROVE BoardInv'
    <2>1. wait_queue_flag' \in WaitQueueFlags
      BY <1>1 DEF toy_driver_write
    <2>2. QED BY <1>1, <2>1 DEF toy_driver_write, MachineInv, LookedUp, Shows
  <1>2. CASE write_wakes
    BY <1>2 DEF write_wakes, wake_up_interruptible, MachineInv, LookedUp, Shows
  <1>3. QED BY <1>1, <1>2

(* The thread of simple_io lives only while the click driver is out.       *)
LEMMA ThreadFrame ==
  ASSUME BoardInv, kernelUp, UNCHANGED clickVars, at # "ended",
         UNCHANGED <<ioMod, pins, button, fault>>,
         example' \in 1..6, at' \in Places, wait_queue_flag' \in WaitQueueFlags,
         lit' \subseteq Leds, OneSideLit'
  PROVE  BoardInv'
  BY DEF MachineInv

(* Steps of the thread that switch no LED and stay in their example.       *)
LEMMA StaysInv ==
  ASSUME BoardInv, kernelUp, UNCHANGED clickVars, NEW e \in 1..6,
         NEW next \in {"wait", "top", "test"},
         arm(<<e, "arm">>, <<e, next>>) \/ wait_event(e) \/ test_flag(e, "top"),
         e = 3 => next # "top"
  PROVE  BoardInv'
  <1>1. /\ at \in {"arm", "wait", "test", "next"}
        /\ at' \in Places
        /\ example = e /\ example' = e
        /\ wait_queue_flag' \in WaitQueueFlags
        /\ UNCHANGED <<lit, ioMod, pins, button, fault>>
    BY DEF arm, wait_event, test_flag, threadStep, Places, WaitQueueFlags
  <1>2. OneSideLit'
    BY <1>1
  <1>3. QED BY <1>1, <1>2, ThreadFrame

(* The switch of an example.                                               *)
LEMMA ToggleInv ==
  ASSUME BoardInv, kernelUp, UNCHANGED clickVars, NEW e \in 1..6,
         NEW then \in {"arm", "test", "held"}, NEW leds \in SUBSET Leds,
         toggle(e, then, leds), e \in 3..6 => leds \in {LeftLeds, RightLeds}
  PROVE  BoardInv'
  <1>1. /\ at = "top" /\ at' = then
        /\ example = e /\ example' = e
        /\ lit' = leds
        /\ UNCHANGED <<wait_queue_flag, ioMod, pins, button, fault>>
    BY DEF toggle, threadStep
  <1>2. OneSideLit'
    BY <1>1
  <1>3. QED BY <1>1, <1>2, ThreadFrame DEF Places

LEMMA ToggledLeds ==
  /\ BoardInv => leftToggled \in SUBSET Leds /\ rightToggled \in SUBSET Leds
  /\ sidesToggled \in {LeftLeds, RightLeds} /\ sidesToggled \in SUBSET Leds
  BY DEF leftToggled, rightToggled, sidesToggled, LED_ON, LED_OFF

LEMMA KthreadInv ==
  ASSUME BoardInv, kernelUp, UNCHANGED clickVars, kthreadStep
  PROVE  BoardInv'
  <1> HIDE DEF BoardInv
  <1>1. CASE toy_simple_io_example_1
    BY <1>1, ToggleInv, StaysInv, ToggledLeds DEF toy_simple_io_example_1, waiting
  <1>2. CASE toy_simple_io_example_2
    BY <1>2, ToggleInv, StaysInv, ToggledLeds DEF toy_simple_io_example_2, waiting
  <1>3. CASE toy_simple_io_example_3
    BY <1>3, ToggleInv, StaysInv, ToggledLeds DEF toy_simple_io_example_3, waiting
  <1>4. CASE toy_simple_io_example_4
    BY <1>4, ToggleInv, StaysInv, ToggledLeds DEF toy_simple_io_example_4
  <1> DEFINE shows_button ==
        /\ threadStep(<<5, "top">>, <<5, "test">>)
        /\ lit' = IF button = 1 THEN LeftLeds ELSE RightLeds
        /\ UNCHANGED <<wait_queue_flag, ledvalue>>
  <1>5. CASE toy_simple_io_example_5
    <2>1. CASE shows_button
      <3>1. /\ at = "top" /\ at' = "test" /\ example' = 5
            /\ lit' \in {LeftLeds, RightLeds}
            /\ UNCHANGED <<wait_queue_flag, ioMod, pins, button, fault>>
        BY <2>1 DEF threadStep
      <3>2. OneSideLit'
        BY <3>1
      <3>3. QED BY <3>1, <3>2, ThreadFrame DEF Places, BoardInv
    <2>2. QED
      BY <1>5, <2>1, StaysInv DEF toy_simple_io_example_5
  <1> DEFINE polls ==
        \/ threadStep(<<6, "top">>, <<6, "test">>)
        \/ threadStep(<<6, "held">>, <<6, IF button = 1 THEN "test" ELSE "held">>)
  <1>6. CASE toy_simple_io_example_6
    <2>1. CASE polls /\ UNCHANGED <<wait_queue_flag, ledvalue, lit>>
      <3>1. /\ at \in {"top", "held"} /\ at' \in {"test", "held"}
            /\ example = 6 /\ example' = 6
            /\ UNCHANGED <<wait_queue_flag, lit, ioMod, pins, button, fault>>
        BY <2>1 DEF threadStep
      <3>2. OneSideLit'
        BY <3>1 DEF BoardInv
      <3>3. QED BY <3>1, <3>2, ThreadFrame DEF Places, BoardInv
    <2>2. QED
      BY <1>6, <2>1, ToggleInv, StaysInv, ToggledLeds DEF toy_simple_io_example_6
  <1>7. ASSUME NEW e \in 1..6, simple_io_kthread(e) PROVE BoardInv'
    <2>1. e \in {1, 2, 3, 4, 5, 6}
      OBVIOUS
    <2>2. /\ at = "return" /\ at' \in {"ended", "arm", "top"}
          /\ example = e
          /\ at' = "ended" => example' = e
          /\ at' # "ended" => example' = (e % 6) + 1
          /\ at' # "ended" => (at' = "arm" <=> e \in 3..5)
          /\ UNCHANGED <<wait_queue_flag, lit, ioMod, pins, button, fault>>
      BY <1>7 DEF simple_io_kthread, threadStep
    <2>3. OneSideLit'
      BY <2>1, <2>2 DEF BoardInv
    <2>4. QED BY <2>1, <2>2, <2>3, ThreadFrame DEF Places, BoardInv
  <1>8. QED
    BY <1>1, <1>2, <1>3, <1>4, <1>5, <1>6, <1>7 DEF kthreadStep

-----------------------------------------------------------------------------
LEMMA BoardStepInv == BoardInv /\ [Next]_vars => BoardInv'
  <1> SUFFICES ASSUME BoardInv, [Next]_vars PROVE BoardInv'
    OBVIOUS
  <1>1. CASE press \/ release
    BY <1>1 DEF press, release, MachineInv, LookedUp, Shows
  <1>2. CASE UNCHANGED vars
    BY <1>2 DEF vars, MachineInv, LookedUp, Shows
  <1> HIDE DEF BoardInv
  <1>3. CASE kernelUp /\ clickNext /\ UNCHANGED ioVars
    <2>1. ASSUME NEW a \in Actors, callbackStep(a) PROVE BoardInv'
      BY <1>3, <2>1, TestInv, LookupInv, StateInv, ActionInv, ResetInv DEF callbackStep
    <2>2. QED
      BY <1>3, <2>1, ClickModuleInv, IsrInv, LedTimerInv DEF clickNext, isrStep
  <1>4. CASE kernelUp /\ ioNext /\ UNCHANGED clickVars
    BY <1>4, IoModuleInv, WriteInv, KthreadInv DEF ioNext
  <1>5. QED BY <1>1, <1>2, <1>3, <1>4 DEF Next

(* The flags of C are only ever set to TRUE or FALSE.                      *)
LEMMA FlagsStep == Flags /\ [Next]_vars => Flags'
  <1> SUFFICES ASSUME Flags, [Next]_vars PROVE Flags'
    OBVIOUS
  <1> USE DEF Flags
  <1>1. CASE clickNext /\ UNCHANGED ioVars
    <2>1. ledvalue' \in BOOLEAN /\ writing' \in BOOLEAN
      BY <1>1, Zenon
    <2>2. ASSUME NEW a \in Actors, callbackStep(a)
          PROVE  clickPending' \in BOOLEAN /\ overlap' \in BOOLEAN /\ clash' \in BOOLEAN
      BY <2>2, Zenon DEF callbackStep, click_timer_callback, state_machine_lookup,
         state_machine, state_machine_action, click_reset
    <2>3. CASE click_init \/ click_init_no_irq \/ click_init_fails
               \/ click_timer_setup \/ click_exit
      BY <2>1, <2>3, Zenon DEF click_init, click_init_no_irq, click_init_fails,
         click_timer_setup, click_exit
    <2>4. CASE click_exit_free
      BY <2>1, <2>4, Zenon DEF click_exit_free, clickFresh
    <2>5. CASE button_isr \/ isr_store \/ click_timer_fires
      BY <2>1, <2>5, Zenon DEF button_isr, isr_store, click_timer_fires
    <2>6. CASE isr_decide
      BY <2>1, <2>6, Zenon DEF isr_decide
    <2>7. ASSUME NEW kind \in {"on", "off"}, NEW l \in LeftLeds,
                 led_timer_callback(kind, l)
          PROVE  Flags'
      BY <2>1, <2>7, Zenon DEF led_timer_callback
    <2>8. QED
      BY <1>1, <2>1, <2>2, <2>3, <2>4, <2>5, <2>6, <2>7 DEF clickNext, isrStep
  <1>2. CASE ioNext /\ UNCHANGED clickVars
    <2>1. clickPending' \in BOOLEAN /\ overlap' \in BOOLEAN /\ clash' \in BOOLEAN
      BY <1>2, Zenon
    <2>2. CASE io_init \/ io_init_fails \/ toy_module_exit \/ exit_wakes \/ exit_frees
      BY <2>1, <2>2, Zenon DEF io_init, io_init_fails, toy_module_exit,
         exit_wakes, exit_frees
    <2>3. CASE (\E byte \in 0..2 : toy_driver_write(byte)) \/ write_wakes
      BY <2>1, <2>3, Zenon DEF toy_driver_write, write_wakes
    <2>4. CASE kthreadStep
      <3>1. writing' = writing
        BY <2>4, Zenon DEF kthreadStep, toy_simple_io_example_1, toy_simple_io_example_2,
           toy_simple_io_example_3, toy_simple_io_example_4, toy_simple_io_example_5,
           toy_simple_io_example_6, simple_io_kthread, waiting, arm, wait_event,
           test_flag, toggle, threadStep
      <3>2. ledvalue' \in {ledvalue, ~ledvalue, FALSE}
        BY <2>4, Zenon DEF kthreadStep, toy_simple_io_example_1, toy_simple_io_example_2,
           toy_simple_io_example_3, toy_simple_io_example_4, toy_simple_io_example_5,
           toy_simple_io_example_6, simple_io_kthread, waiting, arm, wait_event,
           test_flag, toggle
      <3>3. QED BY <2>1, <3>1, <3>2, Zenon
    <2>5. QED BY <1>2, <2>2, <2>3, <2>4 DEF ioNext
  <1>3. CASE press \/ release
    BY <1>3, Zenon DEF press, release
  <1>4. CASE UNCHANGED vars
    BY <1>4, Zenon DEF vars
  <1>5. QED BY <1>1, <1>2, <1>3, <1>4 DEF Next

(* The inductive invariant of the board.                                   *)
THEOREM BoardInvariant == Spec => [](Flags /\ BoardInv)
  <1>1. Init => Flags
    BY Zenon DEF Init, ClickInit, IoInit, Flags
  <1> HIDE DEF BoardInv
  <1>2. QED BY <1>1, InitInv, BoardStepInv, FlagsStep, PTL DEF Spec

(* Type correctness of both drivers and the lines they share; that the     *)
(* count of clicks stays below 3 is part of it (state_machine.c:202-227).  *)
THEOREM BoardTypeCorrect == Spec => []TypeOK
  <1>1. Flags /\ BoardInv => TypeOK
    BY TypeParts
  <1> HIDE DEF BoardInv
  <1>2. QED BY <1>1, BoardInvariant, PTL

(* While handler and timer take turns, the callback finds the clicks it    *)
(* was called for (state_machine.c:202-227).                               *)
THEOREM LoneClicksAreFound == Spec => []CallbackFindsClicks
  <1>1. BoardInv => CallbackFindsClicks OBVIOUS
  <1> HIDE DEF BoardInv, CallbackFindsClicks
  <1>2. QED BY <1>1, BoardInvariant, PTL

(* Unless timer and interrupt overlap, the right LEDs show the state of    *)
(* the machine (state_machine.c:229-305).                                  *)
THEOREM RightLedsFollowState == Spec => []RightLedsShowState
  <1>1. BoardInv => RightLedsShowState
    BY DEF RightLedsShowState, MachineInv, Shows
  <1> HIDE DEF BoardInv
  <1>2. QED BY <1>1, BoardInvariant, PTL

(* From example 3 on exactly one side is lit (simple_io.c:208-331).        *)
THEOREM OneSideIsLit == Spec => []OneSideLit
  <1>1. BoardInv => OneSideLit OBVIOUS
  <1> HIDE DEF BoardInv, OneSideLit
  <1>2. QED BY <1>1, BoardInvariant, PTL

=============================================================================
