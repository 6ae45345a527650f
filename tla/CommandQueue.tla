---------------------------- MODULE CommandQueue ----------------------------
(***************************************************************************)
(* What usart2.h promises to the main loop: a bounded queue of commands,   *)
(* run one at a time in the order in which they arrived, each exactly as   *)
(* it arrived.  A command that is running keeps its place in the queue     *)
(* until it is finished.  The receiver may halt for good.                  *)
(***************************************************************************)
EXTENDS Naturals, Sequences

CONSTANTS Command, Capacity

VARIABLES queue, running, halted

vars == <<queue, running, halted>>

Init == queue = <<>> /\ running = FALSE /\ halted = FALSE

Arrive(command) ==
  /\ ~halted
  /\ Len(queue) < Capacity
  /\ queue' = Append(queue, command)
  /\ UNCHANGED <<running, halted>>

Start ==
  /\ ~halted
  /\ queue # <<>>
  /\ ~running
  /\ running' = TRUE
  /\ UNCHANGED <<queue, halted>>

Finish ==
  /\ ~halted
  /\ running
  /\ running' = FALSE
  /\ queue' = Tail(queue)
  /\ UNCHANGED halted

Halt ==
  /\ halted' = TRUE
  /\ UNCHANGED <<queue, running>>

Next == (\E command \in Command : Arrive(command)) \/ Start \/ Finish \/ Halt

Spec == Init /\ [][Next]_vars

(* A queued command is started and a started one finished. *)
FairSpec == Spec /\ WF_vars(Start) /\ WF_vars(Finish)

=============================================================================
