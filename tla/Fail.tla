-------------------------------- MODULE Fail --------------------------------
(***************************************************************************)
(* fail.c: the failure record of one point of failure.  The C code keeps   *)
(* one bit per event in an int and shifts it left by one at every event;   *)
(* here a record is the set of the positions of its bits that are 1, so    *)
(* position 0 is the latest event and FAIL_BITS the width of the int (32   *)
(* on the board).                                                          *)
(***************************************************************************)
EXTENDS Naturals, FiniteSets

CONSTANT FAIL_BITS

ASSUME FailBitsAssumption == FAIL_BITS \in Nat \ {0}

Record == SUBSET (0 .. FAIL_BITS - 1)

(* fail_init *)
NoFailures == {}

(* fail_event: forget the oldest event, record the new one *)
FailEvent(record, is_failure) ==
  {b + 1 : b \in record \ {FAIL_BITS - 1}}
    \cup (IF is_failure THEN {0} ELSE {})

(* What fail_event returns: popcount(record) >= treshold *)
TooManyFailures(record, treshold) == Cardinality(record) >= treshold

=============================================================================
