----------------------------- MODULE Calibration -----------------------------
(***************************************************************************)
(* The numbers of the console and of colour correction (console.c,         *)
(* color.c, console_prompt.c): the user calibrates an LED by the colours   *)
(* of its three channels, the console prints the matrix that comes of it,  *)
(* number by number and digit by digit, and colours are set with it.       *)
(* Whatever line is typed when the console waits for one (LineInput), it   *)
(* is taken for a number or a command; those that are about colours are    *)
(* actions here, with the numbers that were taken as their arguments.      *)
(***************************************************************************)
EXTENDS FixedPoint, LineInput, SequencesExt

CONSTANTS
  Primaries,  (* what a user enters to calibrate: for each channel the
                 fractions x and y, and Y, an integer                        *)
  Asked,      (* the colours asked for: x, y and Y likewise                  *)
  Printable   (* numbers that are printed                                    *)

ASSUME CalibrationAssumption ==
  /\ \A p \in Primaries : DOMAIN p = 0 .. 2
  /\ Printable \subseteq Fixed

VARIABLES
  color_matrix, peak_Y, primaries, (* led_info_t; history: its calibration   *)
  asked, rgb,                      (* the last colour set and its channels   *)
  panic,                           (* a division by zero                     *)
  value, negative, digits,         (* the number being printed; what has     *)
  fraction, rest                   (* been printed of it, what is left       *)

led      == <<color_matrix, peak_Y, primaries>>
color    == <<asked, rgb, panic>>
printing == <<value, negative, digits, fraction, rest>>
vars == <<led, color, printing, input>>

NONE == <<>>
NO_NUMBER == 2 ^ (WIDTH - 1)   \* no fixed_t

Init ==
  /\ color_matrix = [i \in 0 .. 8 |-> 0]
  /\ peak_Y = [c \in 0 .. 2 |-> 0]
  /\ primaries = NONE /\ asked = NONE /\ rgb = NONE
  /\ panic = FALSE
  /\ value = NO_NUMBER /\ negative = FALSE /\ digits = <<>>
  /\ fraction = <<>> /\ rest = 0
  /\ InputInit

(* The console waits for a command, or is to print the next number. *)
Ready == ~panic /\ asked = NONE /\ value = NO_NUMBER /\ line = NO_LINE

(* The next command or number: what came of the last one is forgotten. *)
Proceed ==
  /\ ~panic /\ rest = 0
  /\ ~Ready
  /\ asked' = NONE /\ rgb' = NONE
  /\ value' = NO_NUMBER /\ negative' = FALSE /\ digits' = <<>> /\ fraction' = <<>>
  /\ Forget
  /\ UNCHANGED <<led, panic, rest>>

(* A line is typed. *)
TypeLine ==
  /\ Ready
  /\ GetLine
  /\ UNCHANGED <<led, color, printing>>

-----------------------------------------------------------------------------
(* console.c *)

Numeral(n) == CHOOSE c \in DIGITS[n + 1] : TRUE

(* The digits console_uint prints in base BASE *)
console_uint[n \in Nat] ==
  IF n < BASE THEN <<Numeral(n)>>
  ELSE Append(console_uint[n \div BASE], Numeral(n % BASE))

(* console_fixed: sign and integral part, *)
console_fixed(v) ==
  LET absolute == IF v < 0 THEN fixneg(v) ELSE v IN
  /\ Ready
  /\ value' = v
  /\ negative' = (v < 0)
  /\ digits' = console_uint[Magnitude(fix_int_part(absolute))]
  /\ rest' = fixfract(fix_fract_part(absolute))
  /\ fraction' = <<>>
  /\ UNCHANGED <<led, color, input>>

(* Mutant: the digit stays in the rest. *)
FractionKeepsDigit ==
  LET next == fixmul(rest, fixnum(BASE)) IN
  /\ rest # 0
  /\ fraction' = Append(fraction, fix_int_part(next))
  /\ rest' = next
  /\ UNCHANGED <<led, color, value, negative, digits, input>>

(* and digit by digit what is behind the point *)
PrintFraction ==
  LET next == fixmul(rest, fixnum(BASE)) IN
  /\ rest # 0
  /\ fraction' = Append(fraction, fix_int_part(next))
  /\ rest' = fixfract(fix_fract_part(next))
  /\ UNCHANGED <<led, color, value, negative, digits, input>>

-----------------------------------------------------------------------------
(* color.c *)

Dot(a, b) == fixadd3(fixmul(a[0], b[0]), fixmul(a[1], b[1]), fixmul(a[2], b[2]))

mat_x_vec(m, x) ==
  [i \in 0 .. 2 |-> Dot([k \in 0 .. 2 |-> m[3 * i + k]], x)]

clamp(x, min, max) == IF x < min THEN min ELSE IF x > max THEN max ELSE x

Minor(m, a, b, c, d) == fixsub(fixmul(m[a], m[b]), fixmul(m[c], m[d]))

Determinant(m) ==
  fixadd3(fixmul(m[0], Minor(m, 8, 4, 7, 5)),
          fixneg(fixmul(m[3], Minor(m, 8, 1, 7, 2))),
          fixmul(m[6], Minor(m, 5, 1, 4, 2)))

invert_3x3(m) ==
  LET times(minor) == fixmul(fixdiv(ONE, Determinant(m)), minor) IN
  [i \in 0 .. 8 |->
     times(<< Minor(m, 8, 4, 7, 5), fixneg(Minor(m, 8, 1, 7, 2)), Minor(m, 5, 1, 4, 2),
              fixneg(Minor(m, 8, 3, 6, 5)), Minor(m, 8, 0, 6, 2),
              fixneg(Minor(m, 5, 0, 3, 2)), Minor(m, 7, 3, 6, 4),
              fixneg(Minor(m, 7, 0, 6, 1)), Minor(m, 4, 0, 3, 1) >>[i + 1])]

(* Mutant: the shares are taken as they are. *)
RatioUnclamped(x, y) ==
  mat_x_vec(color_matrix, [i \in 0 .. 2 |-> <<fixfract(x), fixfract(y), ONE>>[i + 1]])

(* The channels' shares of a colour, within the LED's gamut *)
Ratio(x, y) ==
  LET shares == mat_x_vec(color_matrix, [i \in 0 .. 2 |-> <<fixfract(x), fixfract(y), ONE>>[i + 1]])
  IN  [c \in 0 .. 2 |-> clamp(shares[c], 0, ONE)]

(* The loop that keeps channels from exceeding 1.0 stops before blue. *)
Limited(scale, ratio) ==
  LET limit(s, c) == IF ratio[c] = 0 THEN s ELSE fixmin(s, fixdiv(ONE, ratio[c]))
  IN  limit(limit(scale, 0), 1)

(* The channels' levels, before color_correct takes their fractional parts *)
Levels(x, y, Y) ==
  LET ratio == Ratio(x, y)
      scale == Limited(fixdiv(fixnum(Y), Dot(ratio, peak_Y)), ratio)
  IN  [c \in 0 .. 2 |-> fixmul(ratio[c], scale)]

color_correct(x, y, Y) ==
  /\ Ready
  /\ asked' = <<x, y, Y>>
  /\ IF Dot(Ratio(x, y), peak_Y) = 0
     THEN panic' = TRUE /\ rgb' = NONE
     ELSE panic' = FALSE /\ rgb' = [c \in 0 .. 2 |-> fix_fract_part(Levels(x, y, Y)[c])]
  /\ UNCHANGED <<led, printing, input>>

(* Mutant: the matrix is stored as it was entered. *)
CalibrateDirectly(p) ==
  /\ Ready
  /\ color_matrix' = [i \in 0 .. 8 |-> IF i < 6 THEN fixfract(p[i % 3][i \div 3 + 1]) ELSE ONE]
  /\ peak_Y' = [c \in 0 .. 2 |-> fixnum(p[c][3])]
  /\ primaries' = p
  /\ UNCHANGED <<color, printing, input>>

(* run_calibrate_led: column c of the matrix is the chromaticity of channel c,
   in homogenous coordinates. *)
run_calibrate_led(p) ==
  LET matrix == [i \in 0 .. 8 |->
                   IF i < 6 THEN fixfract(p[i % 3][i \div 3 + 1]) ELSE ONE]
  IN
  /\ Ready
  /\ peak_Y' = [c \in 0 .. 2 |-> fixadd(fixnum(p[c][3]), fixfract(0))]
  /\ primaries' = p
  /\ UNCHANGED <<asked, rgb>>
  /\ IF Determinant(matrix) = 0
     THEN panic' = TRUE /\ UNCHANGED color_matrix
     ELSE color_matrix' = invert_3x3(matrix) /\ UNCHANGED panic
  /\ UNCHANGED <<printing, input>>

Next ==
  \/ \E p \in Primaries : run_calibrate_led(p)
  \/ \E c \in Asked : color_correct(c[1], c[2], c[3])
  \/ \E v \in Printable \cup {color_matrix[i] : i \in 0 .. 8} : console_fixed(v)
  \/ PrintFraction \/ TypeLine \/ Proceed

Spec == Init /\ [][Next]_vars

-----------------------------------------------------------------------------
(* Properties *)

(* The console prints numbers exactly: at every digit, what has been printed
   and what is left make up the value; FRAC_BITS digits behind the point are
   always enough, and the integral part, typed in, is read as it was printed.  The
   most negative number, which has no positive counterpart, is left out. *)
PrintedExactly ==
  value \notin {NO_NUMBER, -(2 ^ (WIDTH - 1))} =>
    LET k     == Len(fraction)
        integral == parse_int(Append(digits, NUL), 1, BASE).value
        whole == FoldLeft(LAMBDA n, digit : n * BASE + digit, integral, fraction)
    IN  /\ Magnitude(value) * BASE ^ k = whole * ONE + rest
        /\ k = FRAC_BITS => rest = 0
        /\ \A i \in 1 .. k : fraction[i] \in 0 .. BASE - 1

(* Some number on the way does not fit into a fixed_t: the quotient by a share
   of the smallest fraction, or twice that, or the luminosity of all channels. *)
Overflows(ratio) ==
  \/ \E c \in 0 .. 1 : ratio[c] # 0 /\ ((ONE * ONE) \div ratio[c]) \notin Fixed
  \/ (ratio[0] * peak_Y[0] + ratio[1] * peak_Y[1] + ratio[2] * peak_Y[2]) \div ONE \notin Fixed

(* Twice the area of the triangle that the channels' chromaticities span *)
Area(p) ==
  Magnitude(p[0][1] * (p[1][2] - p[2][2]) + p[1][1] * (p[2][2] - p[0][2])
              + p[2][1] * (p[0][2] - p[1][2]))

(* The share a channel may get of another one's colour, the inverse being the
   less precise the smaller the area is, of which three of the smallest
   fractions may be lost *)
ShareError(p) == (ONE * ONE) \div (Area(p) - 3 * ONE) + 1

(* A calibrated LED shows the colour of one of its channels with this channel,
   the others being as dark, and the luminosity as close to the one asked for,
   as the precision of the inverted matrix allows.  Nothing is said of colours
   for which the numbers overflow, of channels at their maximum, and of three
   channels whose colours are all but in line. *)
PrimaryAlone ==
  rgb # NONE /\ primaries # NONE =>
    \A c \in 0 .. 2 :
      LET others == 0 .. 2 \ {c}
          stray  == ShareError(primaries) * FoldSet(LAMBDA d, sum : primaries[d][3] + sum, 0, others)
      IN  /\ <<asked[1], asked[2]>> = <<primaries[c][1], primaries[c][2]>>
          /\ asked[3] < primaries[c][3]
          /\ Area(primaries) > 3 * ONE
          /\ ~Overflows(Ratio(asked[1], asked[2]))
          => /\ \A d \in others : rgb[d] <= ShareError(primaries)
             /\ Magnitude(rgb[c] * primaries[c][3] - asked[3] * ONE) <= 2 * primaries[c][3] + stray

(* Whatever colour is asked for, within the LED's gamut or not, a luminosity
   that takes no channel to its maximum is reproduced by the channels together,
   but for rounding, unless the numbers overflow. *)
LuminosityKept ==
  rgb # NONE =>
    LET ratio == Ratio(asked[1], asked[2])
        total == Dot(ratio, peak_Y)
    IN  ~Overflows(ratio) /\ (\A c \in 0 .. 2 : asked[3] * ratio[c] < total) =>
          Magnitude(Dot(rgb, peak_Y) - asked[3] * ONE)
            <= 3 + 2 * ((peak_Y[0] + peak_Y[1] + peak_Y[2]) \div ONE)

=============================================================================
