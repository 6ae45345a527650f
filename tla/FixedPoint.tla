------------------------------ MODULE FixedPoint ------------------------------
(***************************************************************************)
(* fixedpoint.c: numbers of WIDTH bits, FRAC_BITS of them behind the point *)
(* (32 and 16 on the board).  A fixed_t is its field v here, an integer    *)
(* that wraps around as the board's do; >> and the division by a power of  *)
(* two round down, / towards zero.                                         *)
(***************************************************************************)
EXTENDS Integers

CONSTANTS WIDTH, FRAC_BITS

ASSUME FixedPointAssumption ==
  FRAC_BITS \in Nat \ {0} /\ WIDTH \in Nat /\ WIDTH > FRAC_BITS

ONE == 2 ^ FRAC_BITS       \* FIXNUM(1.0)

(* What becomes of an integer in a signed variable of a number of bits *)
Signed(v, bits) ==
  LET low == v % 2 ^ bits
  IN  IF low < 2 ^ (bits - 1) THEN low ELSE low - 2 ^ bits

Wrap(v) == Signed(v, WIDTH)
Fixed == -(2 ^ (WIDTH - 1)) .. 2 ^ (WIDTH - 1) - 1

fixnum(n)   == Wrap(Signed(n, WIDTH - FRAC_BITS) * ONE)
fixfract(n) == n % ONE
fix_int_part(f)   == Signed(f \div ONE, WIDTH - FRAC_BITS)
fix_fract_part(f) == f % ONE

fixadd(f, g)     == Wrap(f + g)
fixadd3(f, g, h) == Wrap(f + g + h)
fixsub(f, g)     == Wrap(f - g)
fixneg(f)        == Wrap(-f)
fixmul(f, g)     == Wrap((f * g) \div ONE)

Magnitude(n) == IF n < 0 THEN -n ELSE n

(* For g # 0; otherwise the board panics. *)
fixdiv(f, g) ==
  LET quotient == (Magnitude(f) * ONE) \div Magnitude(g)
  IN  Wrap(IF (f < 0) = (g < 0) THEN quotient ELSE -quotient)

fixmin(f, g) == IF f < g THEN f ELSE g

=============================================================================
