---------------------------- MODULE MCCalibration ----------------------------
(* A small instance of Calibration for TLC: twelve bits, six of them behind the
   point, so that like on the board the square of ONE is just more than a
   number holds, and a buffer of six characters *)
EXTENDS Calibration

Primary(x, y, Y) == <<x, y, Y>>

(* Chromaticities in 64ths.  An LED with red, green and blue; one with a trace of
   another channel in the colours of two of its own; one whose channels differ
   less; one whose channels together are brighter than a number holds; and one
   whose colours are in line. *)
MCPrimaries ==
  { [c \in 0 .. 2 |-> <<Primary(44, 16, 9), Primary(11, 48, 6), Primary(12, 4, 10)>>[c + 1]],
    [c \in 0 .. 2 |-> <<Primary(47, 23, 10), Primary(11, 45, 6), Primary(11, 6, 7)>>[c + 1]],
    [c \in 0 .. 2 |-> <<Primary(36, 21, 10), Primary(12, 32, 6), Primary(16, 9, 5)>>[c + 1]],
    [c \in 0 .. 2 |-> <<Primary(44, 16, 30), Primary(11, 48, 25), Primary(12, 4, 20)>>[c + 1]],
    [c \in 0 .. 2 |-> <<Primary(16, 16, 9), Primary(32, 32, 6), Primary(48, 48, 4)>>[c + 1]] }

(* The channels' own colours and others all over the plane *)
MCChromaticities ==
  {<<p[c][1], p[c][2]>> : p \in MCPrimaries, c \in 0 .. 2}
    \cup {<<4 * x, 4 * y>> : x \in 0 .. 15, y \in 0 .. 15}

MCAsked == {<<x[1], x[2], Y>> : x \in MCChromaticities, Y \in {0, 1, 2, 4, 6, 9, 12}}

(* Every fraction behind a few integral parts, every integral part before a
   few fractions *)
MCPrintable ==
  {v \in Fixed : \/ Magnitude(v) \div ONE \in {0, 9, 10, 31}
                 \/ Magnitude(v) % ONE \in {0, 1, ONE - 1}}

MCKeys == {"1", "a", "-", SPACE, BACKSPACE}

(* What is typed when the buffer is all but full *)
MCTails == UNION {[1 .. n -> {"1", SPACE, BACKSPACE}] : n \in 0 .. 4}

(* All lines of up to five keys, lines that fill the buffer, and some with
   other keys *)
MCTyped ==
  UNION {[1 .. n -> MCKeys] : n \in 0 .. 5}
    \cup {full \o tail : full \in {<<"a", SPACE, "1", "1", "1">>, <<"1", "1", "1", "1", "1">>},
                        tail \in MCTails}
    \cup {<<"q">>, <<"q", "-">>, <<"?", SPACE>>, <<"b", SPACE, "1", SPACE, "7">>,
          <<"1", ESCAPE>>, <<ESCAPE, "[", "D">>, <<"C", ESCAPE, SPACE, "2">>}

MCBeyond == {<<NUL>>, <<"1", NUL>>, <<"-", NUL>>}

=============================================================================
