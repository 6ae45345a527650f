------------------------------ MODULE MCUsart2 ------------------------------
(* Small instances of Usart2 for TLC *)
EXTENDS Usart2

(* The escape codes, which are also the codes of SET_RAW (0) and SET_XYY (1),
   and the two marks; as data, both marks are unknown command codes. *)
MCByte == {0, 1, ESCAPE_MARK, START_MARK}

(* A smaller set, enough for the start marks: data bytes 0 and, escaped,
   ESCAPE_MARK and START_MARK *)
MCDataBytes == {0, ESCAPE_MARK, START_MARK}

=============================================================================
