------------------------------ MODULE CharQueue ------------------------------
(***************************************************************************)
(* What usart1.h promises of either direction of the console: a bounded    *)
(* queue of characters.  The board may panic, after which nobody needs to  *)
(* take the characters out any more.                                       *)
(***************************************************************************)
EXTENDS Naturals, Sequences

CONSTANTS Text, Capacity

VARIABLES queue, panicked

vars == <<queue, panicked>>

Init == queue = <<>> /\ panicked = FALSE

Put(char) ==
  /\ Len(queue) < Capacity
  /\ queue' = Append(queue, char)
  /\ UNCHANGED panicked

Get ==
  /\ queue # <<>>
  /\ queue' = Tail(queue)
  /\ UNCHANGED panicked

Panic ==
  /\ panicked' = TRUE
  /\ UNCHANGED queue

Next == (\E char \in Text : Put(char)) \/ Get \/ Panic

Spec == Init /\ [][Next]_vars

(* Unless the board panics, every character is taken out. *)
FairSpec == Spec /\ WF_vars(~panicked /\ Get)

=============================================================================
