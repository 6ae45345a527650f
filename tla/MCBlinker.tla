------------------------------ MODULE MCBlinker ------------------------------
(* A small instance of Blinker for TLC: LEDs 0 to 3, fades in two steps *)
EXTENDS Blinker

Number(n) == [is |-> "number", value |-> n]
Comma     == [is |-> ",", value |-> 0]
Dash      == [is |-> "-", value |-> 0]

(* 0,2 - 0-1 - 0-0,1 - 1-0 - 5 - 0-3 - nothing - a comma *)
MCLedOptions ==
  { <<Number(0), Comma, Number(2)>>, <<Number(0), Dash, Number(1)>>,
    <<Number(0), Dash, Number(0), Comma, Number(1)>>,
    <<Number(1), Dash, Number(0)>>, <<Number(5)>>,
    <<Number(0), Dash, Number(3)>>, <<>>, <<Comma>> }

=============================================================================
