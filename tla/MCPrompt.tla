------------------------------- MODULE MCPrompt -------------------------------
(* A small instance of Prompt for TLC: one LED, four channels *)
EXTENDS Prompt, TLC

(* As in config.c, but for the number of LEDs; the backup channel is 0 there. *)
MCDefault ==
  0 :> 253 @@ 1 :> 65535 @@ 2 :> 0 @@ 3 :> 0 @@ 4 :> 1 @@ 5 :> 2 @@ 6 :> 0

(* An overflow, which makes 0; a heat limit that is no address; a negative int *)
MCNumbers == {2 ^ 18, 65535, 2 ^ 18 - 1}

(* A permutation with another backup channel, a double assignment, and a number
   that is no channel *)
MCAssignments == {<<3, 1, 0>>, <<1, 1, 2>>, <<0, 1, 4>>}

=============================================================================
