-------------------------------- MODULE Prompt --------------------------------
(***************************************************************************)
(* The configuration console (console_prompt.c, console.c) on top of the   *)
(* configuration store: a board asks for its mode after every reset, the   *)
(* user of the console edits the configuration command by command, saves,  *)
(* reloads, pastes a file of commands, and may leave for normal operation. *)
(*                                                                         *)
(* A command line is its key and its arguments as parse_int leaves them,   *)
(* for which UINT_LIMIT is one more than the largest; a line that lacks an *)
(* argument, has one that is no number, or begins with a key that is not   *)
(* in the table changes nothing.  Of config_entry_t, all heat limits are   *)
(* one halfword here, and so are all that colour correction needs.  The    *)
(* commands that light LEDs are in Board.                                  *)
(***************************************************************************)
EXTENDS ConfigStore, Sequences

CONSTANTS
  RGB_LED_COUNT, HEAT_SENSOR_LEN,
  UINT_LIMIT,     (* 2^32: one more than the largest unsigned                *)
  Numbers,        (* numbers a user enters                                   *)
  Assignments,    (* triples of channel numbers a user enters                *)
  Corrections,    (* the matrices a user enters, or calibrates               *)
  MaxPaste        (* bound: files pasted inside one another                  *)

MODULE_LENGTH == 3 * RGB_LED_COUNT + 1

(* Where config_entry_t has its parts *)
MY_ADDRESS     == 0
HEAT_LIMIT     == 1
COLOR_MATRIX   == 2
CHANNELS(led)  == {3 + 3 * led + c : c \in 0 .. 2}
LedChannels    == UNION {CHANNELS(led) : led \in 0 .. RGB_LED_COUNT - 1}
BACKUP_CHANNEL == 3 + 3 * RGB_LED_COUNT

ASSUME PromptAssumption ==
  /\ RGB_LED_COUNT \in Nat
  /\ ENTRY_LENGTH = 4 + 3 * RGB_LED_COUNT
  /\ MODULE_LENGTH \in Halfword
  /\ UINT_LIMIT \in Nat \ {0}
  /\ Numbers \subseteq Nat
  /\ Assignments \subseteq [1 .. 3 -> Nat]
  /\ Corrections \subseteq Halfword
  /\ MaxPaste \in Nat

VARIABLES
  mode,      (* "console", "saving": run_save_config has found the
                configuration valid; "echo", "normal", "panic"               *)
  pasting    (* calls of run_paste_file in progress                          *)

promptVars == <<vars, mode, pasting>>

PromptInit == Init /\ mode = "panic" /\ pasting = 0

-----------------------------------------------------------------------------
(* What is entered *)

(* parse_int's result, and the int that the commands take it for *)
Parsed(number) == number % UINT_LIMIT
AsInt(word)    == IF word < UINT_LIMIT \div 2 THEN word ELSE word - UINT_LIMIT

Entered == {AsInt(Parsed(number)) : number \in Numbers}

check_range(value, limit) == 0 <= value /\ value < limit
check_channel_index(index) == check_range(index, MODULE_LENGTH)
check_led_index(index) == check_range(index, RGB_LED_COUNT)
check_short(value) == check_range(value, 65536)

-----------------------------------------------------------------------------
(* config_valid *)

(* Channels that are not assigned exactly once *)
Leftover ==
  {i \in 0 .. MODULE_LENGTH - 1 :
     Cardinality({f \in LedChannels : config[f] = i}) # 1}

Valid == config_valid /\ Cardinality(Leftover) <= 1

(* config_valid assigns the backup channel, whatever it returns. *)
WithBackup ==
  [config EXCEPT ![BACKUP_CHANNEL] = Min(Leftover \cup {MODULE_LENGTH})]

-----------------------------------------------------------------------------
(* Commands *)

Prompting == mode = "console" /\ pc = "running"

Enter(c) ==
  /\ Prompting
  /\ config' = c
  /\ UNCHANGED <<flash, pc, locals, error, history, mode, pasting>>

run_set_addr(addr) ==
  /\ 0 <= addr /\ addr <= 253
  /\ Enter([config EXCEPT ![MY_ADDRESS] = addr])

run_set_heat_limit(index, limit) ==
  /\ check_range(index, HEAT_SENSOR_LEN)
  /\ check_short(limit)
  /\ Enter([config EXCEPT ![HEAT_LIMIT] = limit])

(* run_set_pwm_channels: either all three are in range or none is set. *)
run_set_pwm_channels(led, rgb) ==
  /\ check_led_index(led)
  /\ \A i \in 1 .. 3 : check_channel_index(rgb[i])
  /\ Enter([f \in Field |-> IF f \in CHANNELS(led)
                             THEN rgb[f - 3 * led - 2] ELSE config[f]])

(* run_calibrate_led, run_set_correction, run_set_max_Y ask for their numbers
   until each of them is one. *)
run_set_correction(led, matrix) ==
  /\ check_led_index(led)
  /\ Enter([config EXCEPT ![COLOR_MATRIX] = matrix])

run_reload_config == Enter(Loaded(config))

(* run_save_config, *)
CheckBeforeSave ==
  /\ Prompting
  /\ config' = WithBackup
  /\ mode' = IF Valid THEN "saving" ELSE "console"
  /\ UNCHANGED <<flash, pc, locals, error, history, pasting>>

(* which calls save_config *)
run_save_config ==
  /\ mode = "saving"
  /\ Save
  /\ mode' = "console"
  /\ UNCHANGED pasting

(* Each pasted command is run as if it had been typed, another f included. *)
run_paste_file ==
  /\ Prompting
  /\ pasting < MaxPaste
  /\ pasting' = pasting + 1
  /\ UNCHANGED <<vars, mode>>

(* Mutant: the console is left with whatever configuration there is. *)
QuitAnyway ==
  /\ Prompting
  /\ IF pasting > 0
     THEN pasting' = pasting - 1 /\ UNCHANGED <<config, mode>>
     ELSE /\ config' = WithBackup
          /\ mode' = "normal"
          /\ UNCHANGED pasting
  /\ UNCHANGED <<flash, pc, locals, error, history>>

(* run_quit ends the innermost paste; otherwise console_run returns, if the
   configuration is valid. *)
run_quit ==
  /\ Prompting
  /\ IF pasting > 0
     THEN pasting' = pasting - 1 /\ UNCHANGED <<config, mode>>
     ELSE /\ config' = WithBackup
          /\ mode' = IF Valid THEN "normal" ELSE "console"
          /\ UNCHANGED pasting
  /\ UNCHANGED <<flash, pc, locals, error, history>>

(* run_echo goes on while the lines are "q". *)
run_echo    == Prompting /\ mode' = "echo" /\ UNCHANGED <<vars, pasting>>
EndOfEcho   == mode = "echo" /\ mode' = "console" /\ UNCHANGED <<vars, pasting>>

(* The board is reset, by run_reset or from outside, and main loads the
   configuration and asks for the mode.  Without a configuration there is no
   normal mode. *)
Restart ==
  /\ Reset
  /\ pasting' = 0
  /\ \/ mode' = "console"
     \/ mode' = IF SlotsOf(page, IN_USE) = {} THEN "panic" ELSE "normal"

Command ==
  \/ \E n \in Entered : run_set_addr(n)
  \/ \E index, limit \in Entered : run_set_heat_limit(index, limit)
  \/ \E led \in Entered, rgb \in Assignments : run_set_pwm_channels(led, rgb)
  \/ \E led \in Entered, matrix \in Corrections : run_set_correction(led, matrix)
  \/ run_reload_config \/ CheckBeforeSave \/ run_paste_file \/ run_quit \/ run_echo

Saving == (SaveStep \/ FlashFails) /\ UNCHANGED <<mode, pasting>>

PromptNext == Command \/ run_save_config \/ Saving \/ EndOfEcho \/ Restart

PromptSpec == PromptInit /\ [][PromptNext]_promptVars

(* As in ConfigStore, nothing else runs while save_config does. *)
FairPrompt == PromptSpec /\ WF_promptVars(SaveStep /\ UNCHANGED <<mode, pasting>>)

-----------------------------------------------------------------------------
(* Properties *)

(* A board in normal operation has a channel of its own for every colour of
   every LED, and its backup channel is the one that is left: whether the
   configuration was just entered or was loaded, which checks nothing, and
   whatever became of the saves before. *)
RunsValid ==
  mode = "normal" =>
    /\ \A f, g \in LedChannels \cup {BACKUP_CHANNEL} :
         f # g => config[f] # config[g]
    /\ \A f \in LedChannels \cup {BACKUP_CHANNEL} : config[f] < MODULE_LENGTH
    /\ config[MY_ADDRESS] <= 253

=============================================================================
