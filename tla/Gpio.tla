-------------------------------- MODULE Gpio --------------------------------
(***************************************************************************)
(* What the drivers simple_io and state_machine share: the GPIO lines 5,   *)
(* 6, 17, 22, 23, 24, 26, 27 with an LED each and line 16 with the button, *)
(* and the kernel, which faults when a driver misuses it.                  *)
(*                                                                         *)
(* Each driver requests all nine lines while it loads, so they are free or *)
(* requested together.                                                     *)
(***************************************************************************)
CONSTANT
  LeftLeds    (* the LEDs of led_array_map[0..3]; the click driver lights
                 them one by one                                           *)

ASSUME LedsAssumption == LeftLeds \cap {"right12", "right34"} = {}

VARIABLES
  lit,        (* LEDs that are on                                          *)
  pins,       (* driver that requested the lines, "free" if none           *)
  button,     (* level of line 16: 0 while the button is held down         *)
  fault       (* kernel fault met, "none" so far; what the kernel does
                 after a fault is not modelled                             *)

gpioVars == <<lit, pins, button, fault>>

(* led_array_map[4..5] and [6..7] are always written together.             *)
RightLeds == {"right12", "right34"}
Leds == LeftLeds \cup RightLeds

Drivers == {"click", "simple_io"}
Faults == {"none", "class", "thread", "uninit", "reinit", "unloaded"}

kernelUp == fault = "none"

GpioInit == lit = {} /\ pins = "free" /\ button = 1 /\ fault = "none"

(* Both drivers name their class "toy_simple_io_class" and compare the     *)
(* result of class_create with NULL, which it never returns.  When the     *)
(* class exists they go on with an error pointer, fail to request line 16, *)
(* free all nine lines (gpio_error), whoever had requested them, and call  *)
(* device_destroy with the error pointer.                                  *)
gpio_error ==
  /\ pins # "free"
  /\ pins' = "free"
  /\ fault' = "class"
  /\ UNCHANGED <<lit, button>>

GpioTypeOK ==
  /\ lit \subseteq Leds
  /\ pins \in Drivers \cup {"free"}
  /\ button \in {0, 1}
  /\ fault \in Faults

=============================================================================
