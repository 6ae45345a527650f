-------------------------------- MODULE Lamps --------------------------------
(***************************************************************************)
(* What a LED board promises to the bus: the commands of its queue are run *)
(* one after the other; an update becomes visible at the next strobe, as a *)
(* whole and on the lamps it was meant for; a board that has stopped, for  *)
(* whatever reason, is dark until it is reset.                             *)
(***************************************************************************)
EXTENDS CommandQueue

CONSTANTS
  Channel,    (* the lamps, as the bus counts them                           *)
  LedChannel, (* those of them that belong to an RGB LED                     *)
  Value       (* brightnesses, among them 0                                  *)

VARIABLES
  ran,        (* the command at the head of the queue has been run           *)
  set, shown, (* the last brightnesses set, the visible ones                 *)
  state

lampVars == <<ran, set, shown, state>>

DARK == [c \in Channel |-> 0]

LampInit ==
  /\ Init
  /\ ran = FALSE
  /\ set \in [Channel -> Value]
  /\ shown \in [Channel -> Value]
  /\ state = "starting"

(* Until it takes commands, a board shows what it likes. *)
Prepare ==
  /\ state = "starting"
  /\ state' \in {"starting", "running", "stopped"}
  /\ set' \in [Channel -> Value]
  /\ shown' \in [Channel -> Value]
  /\ state' = "stopped" => shown' = DARK
  /\ UNCHANGED <<queue, running, halted, ran>>

Enter == state # "starting" /\ (\E c \in Command : Arrive(c)) /\ UNCHANGED lampVars

Take ==
  /\ state # "starting"
  /\ Start
  /\ UNCHANGED lampVars

Execute ==
  /\ running /\ ~ran
  /\ ran' = TRUE
  /\ LET command == Head(queue) IN
     /\ set' = [c \in Channel |->
                  IF \/ command.code = "raw"
                     \/ command.code = "xyY" /\ c \in LedChannel
                  THEN command.data[c] ELSE set[c]]
     /\ shown' = IF command.code = "strobe" /\ state = "running"
                 THEN set ELSE shown
  /\ UNCHANGED <<queue, running, halted, state>>

Drop == ran /\ ran' = FALSE /\ Finish /\ UNCHANGED <<set, shown, state>>

Stop ==
  /\ state' = "stopped"
  /\ set' = DARK
  /\ shown' = DARK
  /\ UNCHANGED <<queue, running, ran>>
  /\ \/ halted' = halted /\ state # "starting"
     \/ Halt

Restart ==
  /\ queue' = <<>> /\ running' = FALSE /\ halted' = FALSE /\ ran' = FALSE
  /\ set' \in [Channel -> Value]
  /\ shown' \in [Channel -> Value]
  /\ state' = "starting"

LampNext == Prepare \/ Enter \/ Take \/ Execute \/ Drop \/ Stop \/ Restart

LampSpec == LampInit /\ [][LampNext]_<<vars, lampVars>>

=============================================================================
