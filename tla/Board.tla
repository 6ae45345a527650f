-------------------------------- MODULE Board --------------------------------
(***************************************************************************)
(* A LED board from its reset on: main.c with the PWM output (pwm.c), the  *)
(* execution of commands (command.c), the heat sensors (heat.c), the       *)
(* system timer (startup.c) and what error.c does when one of them fails.  *)
(* The receiver is the queue it implements (CommandQueue, implemented by   *)
(* Usart2); colours are those color_correct returns; a sensor is hot or it *)
(* is not.                                                                 *)
(*                                                                         *)
(* The interrupt handlers are atomic: none preempts another, and what they *)
(* share with the main loop is the queue and do_heat_check.                *)
(***************************************************************************)
EXTENDS Fail, Integers, Sequences

CONSTANTS
  MODULE_LENGTH, RGB_LED_COUNT,     (* PWM channels, LEDs of three channels  *)
  HEAT_SENSOR_LEN, HEAT_FAIL_TRESHOLD,
  Value,                            (* brightnesses, among them 0            *)
  Configs,                          (* what load_config finds, or a user
                                       enters before he leaves the console:
                                       valid ones, see Prompt                *)
  DEFAULT,                          (* what config.c starts with             *)
  RawData, ColorData,               (* data of the two kinds of update       *)
  Capacity                          (* commands the receiver holds           *)

Channel    == 0 .. MODULE_LENGTH - 1
LedChannel == 0 .. 3 * RGB_LED_COUNT - 1
Sensor     == 0 .. HEAT_SENSOR_LEN - 1
Config     == [led_infos : [LedChannel -> Channel], backup_channel : Channel]

(* No two LEDs, and no LED and the backup channel, on one PWM channel *)
Distinct(c) ==
  /\ \A i, j \in LedChannel : i # j => c.led_infos[i] # c.led_infos[j]
  /\ \A i \in LedChannel : c.led_infos[i] # c.backup_channel

ASSUME BoardAssumption ==
  /\ RGB_LED_COUNT \in Nat
  /\ MODULE_LENGTH = 3 * RGB_LED_COUNT + 1
  /\ HEAT_SENSOR_LEN \in Nat \ {0}
  /\ HEAT_FAIL_TRESHOLD \in 1 .. FAIL_BITS
  /\ 0 \in Value
  /\ Configs \subseteq {c \in Config : Distinct(c)}
  /\ DEFAULT \in Config
  /\ Capacity \in Nat
  /\ RawData \subseteq [Channel -> Value]
  /\ ColorData \subseteq [LedChannel -> Value]

NO_DATA == [c \in {} |-> 0]
Command == [code : {"raw"}, data : RawData] \cup [code : {"xyY"}, data : ColorData]
             \cup [code : {"strobe", "unknown"}, data : {NO_DATA}]

VARIABLES
  pc,                        (* where the main program is                    *)
  found, config,             (* load_config's result; the configuration      *)
  pwm_values, ccr, enabled,  (* the shadow values; the timers' registers:
                                compare values and outputs                   *)
  do_heat_check, heat_fails, (* the flag set by systick; the records         *)
  sensor,                    (* heat_timer_tick's loop variable              *)
  hot,                       (* the sensors above their limit                *)
  queue, running, halted,    (* the receiver                                 *)
  owed                       (* history: systicks that were neither reported
                                nor followed by a heat check                 *)

pwm      == <<pwm_values, ccr, enabled>>
heat     == <<do_heat_check, heat_fails, sensor, owed>>
receiver == <<queue, running, halted>>
vars == <<pc, found, config, pwm, heat, hot, receiver>>

Receiver == INSTANCE CommandQueue

AllZero == [c \in Channel |-> 0]

Starting == {"boot", "colors", "ask_mode", "console"}
Loop     == {"free", "poll", "run", "heat", "tick", "reset_flag"}

TypeOK ==
  /\ pc \in Starting \cup Loop \cup {"panic"}
  /\ found \in BOOLEAN /\ config \in Config
  /\ pwm_values \in [Channel -> Value] /\ ccr \in [Channel -> Value]
  /\ enabled \in BOOLEAN
  /\ do_heat_check \in BOOLEAN /\ heat_fails \in [Sensor -> Record]
  /\ sensor \in Sensor /\ hot \in SUBSET Sensor
  /\ queue \in Seq(Command) /\ Len(queue) <= Capacity
  /\ running \in BOOLEAN /\ halted \in BOOLEAN
  /\ owed \in Nat

Init ==
  /\ pc = "boot"
  /\ found \in BOOLEAN
  /\ config \in IF found THEN Configs ELSE {DEFAULT}
  /\ pwm_values = AllZero /\ ccr = AllZero /\ enabled = FALSE
  /\ do_heat_check = FALSE
  /\ heat_fails = [s \in Sensor |-> NoFailures]
  /\ sensor = 0
  /\ hot = {}
  /\ queue = <<>> /\ running = FALSE /\ halted = FALSE
  /\ owed = 0

-----------------------------------------------------------------------------
(* pwm.c, error.c, color.c *)

pwm_send_frame == ccr' = pwm_values' /\ UNCHANGED enabled

(* pwm_set_state(PWM_STOP): outputs off, then a frame of zeros *)
PwmStop == enabled' = FALSE /\ pwm_values' = AllZero /\ ccr' = pwm_values'

(* pwm_set_state(PWM_ON) *)
PwmOn == enabled' = TRUE /\ UNCHANGED <<pwm_values, ccr>>

convert_channel_index(c) ==
  IF c = MODULE_LENGTH - 1 THEN config.backup_channel ELSE config.led_infos[c]

(* pwm_set_brightness for each index of data, in PWM channels *)
SetBrightness(data) ==
  pwm_values' = [p \in Channel |->
    IF \E c \in DOMAIN data : convert_channel_index(c) = p
    THEN data[CHOOSE c \in DOMAIN data :
                /\ convert_channel_index(c) = p
                /\ \A d \in DOMAIN data : convert_channel_index(d) = p => d <= c]
    ELSE pwm_values[p]]

-----------------------------------------------------------------------------
(* main, before its loop *)

(* pwm_init and heat_init; load_config *)
Boot ==
  /\ pc = "boot"
  /\ pc' = "colors"
  /\ enabled' = TRUE /\ ccr' = pwm_values
  /\ UNCHANGED <<found, config, pwm_values, heat, hot, receiver>>

(* display_boot_colors: the bits of the version, or a dim white *)
BootColors ==
  /\ pc = "colors"
  /\ pc' = "ask_mode"
  /\ \E data \in [LedChannel -> Value] :
       IF found THEN SetBrightness(data)
       ELSE pwm_values' = [p \in Channel |->
              IF p \in LedChannel THEN data[0] ELSE pwm_values[p]]
  /\ pwm_send_frame
  /\ UNCHANGED <<found, config, heat, hot, receiver>>

(* console_ask_mode, then the lamps go out; without a configuration only the
   console is left. *)
AskMode ==
  /\ pc = "ask_mode"
  /\ \E mode \in {"CONFIG_MODE", "NORMAL_MODE"} :
       pc' = IF mode = "CONFIG_MODE" THEN "console"
             ELSE IF found THEN "free" ELSE "panic"
  /\ IF pc' = "panic" THEN PwmStop
     ELSE enabled' = TRUE /\ pwm_values' = AllZero /\ ccr' = AllZero
  /\ found' = FALSE     \* ret is used for other things from here on
  /\ UNCHANGED <<config, heat, hot, receiver>>

(* run_set_brightness: one lamp, at once *)
run_set_brightness ==
  /\ pc = "console"
  /\ \E c \in Channel, brightness \in Value :
       SetBrightness([i \in {c} |-> brightness])
  /\ pwm_send_frame
  /\ UNCHANGED <<pc, found, config, heat, hot, receiver>>

(* run_set_color: one LED, at once *)
run_set_color ==
  /\ pc = "console"
  /\ \E led \in 0 .. RGB_LED_COUNT - 1 :
       \E rgb \in [3 * led .. 3 * led + 2 -> Value] : SetBrightness(rgb)
  /\ pwm_send_frame
  /\ UNCHANGED <<pc, found, config, heat, hot, receiver>>

(* The user leaves the console; command_init and usart2_init *)
LeaveConsole ==
  /\ pc = "console"
  /\ pc' = "free"
  /\ config' \in Configs
  /\ UNCHANGED <<found, pwm, heat, hot, receiver>>

-----------------------------------------------------------------------------
(* The main loop *)

(* usart2_next_command gives the last command back, *)
FreeCommand ==
  /\ pc = "free"
  /\ pc' = "poll"
  /\ IF running THEN Receiver!Finish ELSE UNCHANGED receiver
  /\ UNCHANGED <<found, config, pwm, heat, hot>>

(* and hands out the next. *)
NextCommand ==
  /\ pc = "poll"
  /\ IF queue # <<>> THEN pc' = "run" /\ Receiver!Start
                     ELSE pc' = "heat" /\ UNCHANGED receiver
  /\ UNCHANGED <<found, config, pwm, heat, hot>>

(* Mutant: an update is shown at once. *)
RunAndSend(command) ==
  /\ command.code \in {"raw", "xyY"}
  /\ SetBrightness(command.data)
  /\ pwm_send_frame

(* run_set_raw, run_set_xyY *)
RunUpdate(command) ==
  /\ command.code \in {"raw", "xyY"}
  /\ SetBrightness(command.data)
  /\ UNCHANGED <<ccr, enabled>>

RunStrobe(command) ==
  /\ command.code = "strobe"
  /\ UNCHANGED pwm_values
  /\ pwm_send_frame

RunUnknown(command) == command.code = "unknown" /\ UNCHANGED pwm

RunCommand ==
  /\ pc = "run"
  /\ pc' = "heat"
  /\ LET command == Head(queue) IN
       RunUpdate(command) \/ RunStrobe(command) \/ RunUnknown(command)
  /\ UNCHANGED <<found, config, heat, hot, receiver>>

TestFlag ==
  /\ pc = "heat"
  /\ pc' = IF do_heat_check THEN "tick" ELSE "free"
  /\ sensor' = 0
  /\ UNCHANGED <<found, config, pwm, do_heat_check, heat_fails, owed, hot, receiver>>

(* Mutant: a tick ends with the first sensor. *)
TickFirstOnly ==
  LET record == FailEvent(heat_fails[sensor], sensor \in hot) IN
  /\ pc = "tick"
  /\ heat_fails' = [heat_fails EXCEPT ![sensor] = record]
  /\ pc' = "reset_flag"
  /\ UNCHANGED sensor
  /\ IF TooManyFailures(record, HEAT_FAIL_TRESHOLD) THEN PwmStop ELSE UNCHANGED pwm
  /\ UNCHANGED <<found, config, do_heat_check, owed, hot, receiver>>

(* heat_timer_tick for one sensor.  The first that overheats ends it, with
   panic_on_overheat: the lamps go out, and the error asks for a reset.  That
   request lacks the key the register wants (SCB_AIRCR_VECTKEY) and has no
   effect. *)
HeatTick ==
  LET record   == FailEvent(heat_fails[sensor], sensor \in hot)
      overheat == TooManyFailures(record, HEAT_FAIL_TRESHOLD)
      last     == overheat \/ sensor = HEAT_SENSOR_LEN - 1
  IN
  /\ pc = "tick"
  /\ heat_fails' = [heat_fails EXCEPT ![sensor] = record]
  /\ IF last THEN pc' = "reset_flag" /\ UNCHANGED sensor
             ELSE sensor' = sensor + 1 /\ UNCHANGED pc
  /\ IF overheat THEN PwmStop ELSE UNCHANGED pwm
  /\ UNCHANGED <<found, config, do_heat_check, owed, hot, receiver>>

ResetFlag ==
  /\ pc = "reset_flag"
  /\ pc' = "free"
  /\ do_heat_check' = FALSE
  /\ owed' = owed - 1
  /\ UNCHANGED <<found, config, pwm, heat_fails, sensor, hot, receiver>>

Main ==
  /\ ~halted
  /\ \/ Boot \/ BootColors \/ AskMode
     \/ FreeCommand \/ NextCommand \/ RunCommand
     \/ TestFlag \/ HeatTick \/ ResetFlag

Console ==
  /\ ~halted
  /\ run_set_brightness \/ run_set_color \/ LeaveConsole

-----------------------------------------------------------------------------
(* Interrupts and the world *)

(* Mutant: systick leaves the flag alone when it is still set. *)
SystickReturns ==
  /\ ~halted /\ pc # "boot"
  /\ do_heat_check' = TRUE
  /\ owed' = owed + 1
  /\ UNCHANGED <<pc, found, config, pwm, heat_fails, sensor, hot, receiver>>

(* systick: the flag is set; if it is set already, that is reported. *)
Systick ==
  /\ ~halted /\ pc # "boot"
  /\ do_heat_check' = TRUE
  /\ owed' = IF do_heat_check THEN owed ELSE owed + 1
  /\ UNCHANGED <<pc, found, config, pwm, heat_fails, sensor, hot, receiver>>

(* The receiver stores a command, *)
Arrive ==
  /\ pc \in Loop
  /\ \E command \in Command : Receiver!Arrive(command)
  /\ UNCHANGED <<pc, found, config, pwm, heat, hot>>

(* or has found too many errors on the line, and panics in its handler. *)
ReceiverPanics ==
  /\ pc \in Loop
  /\ ~halted
  /\ Receiver!Halt
  /\ PwmStop
  /\ UNCHANGED <<pc, found, config, heat, hot>>

Temperature ==
  /\ hot' \in SUBSET Sensor \ {hot}
  /\ UNCHANGED <<pc, found, config, pwm, heat, receiver>>

(* A reset from outside: power, or the board's pin *)
Reset ==
  /\ pc' = "boot"
  /\ found' \in BOOLEAN
  /\ config' \in IF found' THEN Configs ELSE {DEFAULT}
  /\ pwm_values' = AllZero /\ ccr' = AllZero /\ enabled' = FALSE
  /\ do_heat_check' = FALSE
  /\ heat_fails' = [s \in Sensor |-> NoFailures]
  /\ sensor' = 0
  /\ queue' = <<>> /\ running' = FALSE /\ halted' = FALSE
  /\ owed' = 0
  /\ UNCHANGED hot

Next == Main \/ Console \/ Systick \/ Arrive \/ ReceiverPanics \/ Temperature \/ Reset

Spec == Init /\ [][Next]_vars

(* The processor is faster than its interrupts; the timer runs. *)
FairSpec == Spec /\ WF_vars(Main) /\ WF_vars(Systick)

-----------------------------------------------------------------------------
(* Properties *)

(* Updates are shown by the next strobe, whole and on the right lamps whatever
   the channel assignment is, and a board that was stopped, by a panic in a
   handler, for overheat or for want of a configuration, stays dark until it
   is reset from outside, although its main loop may go on. *)
Lights == INSTANCE Lamps WITH
  ran   <- pc # "run" /\ running,
  set   <- [c \in Channel |-> pwm_values[convert_channel_index(c)]],
  shown <- [c \in Channel |->
              IF enabled THEN ccr[convert_channel_index(c)] ELSE 0],
  state <- IF pc \in Starting THEN "starting"
           ELSE IF enabled THEN "running" ELSE "stopped"

LampSpec == Lights!LampSpec

(* No systick goes by in silence: each is followed by a whole heat check or
   reported.  One that falls into a check already begun is reported, although
   do_heat_check is reset only after the check. *)
TicksAccounted == owed = IF do_heat_check THEN 1 ELSE 0

(* In its main loop, a board of which some sensor stays hot goes dark, whatever
   the other sensors and the bus do. *)
OverheatStops ==
  \A s \in Sensor : []<>(pc \in Loop /\ enabled) => []<>(s \notin hot \/ pc \notin Loop)

=============================================================================
