------------------------------ MODULE MCProtocol ------------------------------
(* A small instance of Protocol for TLC *)
EXTENDS Protocol

(* A token whose bytes all look like strobes, and one that is too short *)
AllStrobes == [i \in 1 .. TOKEN_SIZE |-> 255]
MCTokens == {AllStrobes, <<9>>}
MCKnown == {AllStrobes}

(* Bytes that look like opcodes in LEDs and colours *)
Set8  == [op |-> "rgb8",  led |-> 258, colour |-> <<1, 255, 3>>]
Set16 == [op |-> "set16", led |-> 258, colour |-> <<1, 256, 65283, 515>>]
Set16Opaque == [op |-> "rgb16", led |-> 3, colour |-> <<1, 256, 65283>>]
MCSetCalls == {Set8, Set16, Set16Opaque}

=============================================================================
