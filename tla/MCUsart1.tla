------------------------------ MODULE MCUsart1 ------------------------------
(* Small instances of Usart1 for TLC: all its constants are numbers, which the
   configurations give. *)
EXTENDS Usart1

=============================================================================
