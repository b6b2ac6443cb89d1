------------------------------ MODULE LongDouble ------------------------------
(***************************************************************************)
(* __trunctfdf2 of the sample module (src/samples/obf_1/obf_w2c.c, f45),   *)
(* by which %Lf turns its argument into a double, and the shifts of two    *)
(* words it uses (f43, f44).  The widths are parameters: a number has a    *)
(* sign, an exponent field and a fraction, and the long one lies in two    *)
(* words.  Where the code joins bits by an or, either no bit is set in     *)
(* both, and it is a sum here, or one of them is a single bit.             *)
(***************************************************************************)
EXTENDS Integers

CONSTANTS
  W,          \* bits of a word (64)
  HighFrac,   \* bits of the fraction in the high word (48)
  SrcExp,     \* bits of the exponent of a long double (15)
  DstExp,     \* bits of the exponent of a double (11)
  DstFrac     \* bits of its fraction (52)

Power[k \in Nat] == IF k = 0 THEN 1 ELSE 2 * Power[k - 1]

SrcFrac == HighFrac + W
Discard == SrcFrac - DstFrac
SrcBias == Power[SrcExp - 1] - 1
DstBias == Power[DstExp - 1] - 1
SrcInf == Power[SrcExp] - 1
DstInf == Power[DstExp] - 1

LongDoubleAssumption ==
  /\ {W, HighFrac, SrcExp, DstExp, DstFrac} \subseteq Nat \ {0}
  /\ Discard \in 2 .. W - 1 /\ HighFrac + SrcExp + 1 = W /\ DstFrac + DstExp + 1 = W
  /\ DstExp < SrcExp

VARIABLES
  sign, exp, frac,   \* the argument
  pc,
  result             \* the exponent and the fraction of the double

vars == <<sign, exp, frac, pc, result>>

Init ==
  /\ sign \in {0, 1} /\ exp \in 0 .. SrcInf /\ frac \in 0 .. Power[SrcFrac] - 1
  /\ pc = "start"
  /\ result = [exp |-> 0, frac |-> 0]

(* A word with one of its bits set, and with one turned over.               *)
HasBit(x, k) == (x \div Power[k]) % 2 = 1
With(x, k) == IF HasBit(x, k) THEN x ELSE x + Power[k]
Flipped(x, k) == IF HasBit(x, k) THEN x - Power[k] ELSE x + Power[k]

Low == frac % Power[W]
High == frac \div Power[W]

(* A shift of two words counts its bits modulo the width of a word and      *)
(* leaves a shift by nothing alone.                                         *)
Shl(w, k) == (w * Power[k % W]) % Power[W]
Shr(w, k) == w \div Power[k % W]

ShiftLeft(lo, hi, k) ==
  IF (k \div W) % 2 = 1 THEN [lo |-> 0, hi |-> Shl(lo, k - W)]
  ELSE IF k = 0 THEN [lo |-> lo, hi |-> hi]
  ELSE [lo |-> Shl(lo, k), hi |-> Shr(lo, W - k) + Shl(hi, k)]

ShiftRight(lo, hi, k) ==
  IF (k \div W) % 2 = 1 THEN [lo |-> Shr(hi, k - W), hi |-> 0]
  ELSE IF k = 0 THEN [lo |-> lo, hi |-> hi]
  ELSE [lo |-> Shl(hi, W - k) + Shr(lo, k), hi |-> Shr(hi, k)]

(* The bits of two words that a double keeps and the ones it does not.      *)
Kept(lo, hi) == Shr(lo, Discard) + Shl(hi, W - Discard)
Lost(lo) == lo % Power[Discard]

(* Mutant: a half is rounded up. *)
RoundHalfUp(kept, lost) == IF lost >= Power[Discard - 1] THEN kept + 1 ELSE kept

(* To the nearest, a half to the even one.                                  *)
Round(kept, lost) ==
  IF lost > Power[Discard - 1] THEN kept + 1
  ELSE IF lost = Power[Discard - 1] THEN kept + (kept % 2) ELSE kept

Return(e, f) == pc' = "done" /\ result' = [exp |-> e, frac |-> f] /\ UNCHANGED <<sign, exp, frac>>

(* The comparison is one of unsigned numbers.                               *)
NormalRange == exp - (SrcBias - DstBias + 1) \in 0 .. DstInf - 2

(* Rounding up may reach the next power of two.                             *)
Normal ==
  /\ pc = "start" /\ NormalRange
  /\ LET f == Round(Kept(Low, High), Lost(Low))
         e == exp - (SrcBias - DstBias)
     IN  IF f >= Power[DstFrac] THEN Return(e + 1, 0) ELSE Return(e, f)

(* No number: the highest bits stay, the first one is set.                  *)
NotANumber ==
  /\ pc = "start" /\ ~NormalRange /\ exp = SrcInf /\ frac # 0
  /\ Return(DstInf, With(Kept(Low, High), DstFrac - 1))

TooLarge ==
  /\ pc = "start" /\ ~NormalRange /\ ~(exp = SrcInf /\ frac # 0)
  /\ exp > SrcBias + DstBias
  /\ Return(DstInf, 0)

(* How far the fraction is shifted to become one without a leading bit.     *)
Distance == (IF exp = 0 THEN SrcBias - DstBias ELSE SrcBias - DstBias + 1) - exp

(* Below the range of normal doubles: the leading bit becomes one of the    *)
(* fraction, and what the shift drops counts as more than nothing.          *)
Small ==
  /\ pc = "start" /\ ~NormalRange /\ exp <= SrcBias + DstBias
  /\ IF Distance > SrcFrac THEN Return(0, 0)
     ELSE LET hi == IF exp = 0 THEN High ELSE With(High, HighFrac)
              dropped == ShiftLeft(Low, hi, 2 * W - Distance)
              right == ShiftRight(Low, hi, Distance)
              sticky == Distance # 0 /\ (dropped.lo # 0 \/ dropped.hi # 0)
              lost == IF sticky THEN With(Lost(right.lo), 0) ELSE Lost(right.lo)
              f == Round(Kept(right.lo, right.hi), lost)
          IN  IF f >= Power[DstFrac] THEN Return(1, Flipped(f, DstFrac)) ELSE Return(0, f)

Next == Normal \/ NotANumber \/ TooLarge \/ Small

Spec == Init /\ [][Next]_vars
-----------------------------------------------------------------------------
(* What numbers are worth, counted in the smallest long double.             *)
SrcValue == (IF exp = 0 THEN frac ELSE frac + Power[SrcFrac]) * Power[(IF exp = 0 THEN 1 ELSE exp) - 1]
Ulp == Power[SrcBias - DstBias + Discard]
DstValue(e, f) ==
  (IF e = 0 THEN f ELSE f + Power[DstFrac]) * Power[(IF e = 0 THEN 1 ELSE e) - 1] * Ulp

Doubles == [exp : 0 .. DstInf - 1, frac : 0 .. Power[DstFrac] - 1] \cup {[exp |-> DstInf, frac |-> 0]}
Distances(d) == LET x == SrcValue - DstValue(d.exp, d.frac) IN IF x < 0 THEN -x ELSE x

TypeOK ==
  /\ pc \in {"start", "done"}
  /\ result \in [exp : 0 .. DstInf, frac : 0 .. Power[DstFrac] - 1]

(* A number becomes the double nearest to it, of two that are as near the   *)
(* even one, across the border of normal and subnormal doubles and up to    *)
(* infinity.                                                                *)
Nearest ==
  pc = "done" /\ exp <= SrcBias + DstBias =>
    /\ result \in Doubles
    /\ \A d \in Doubles :
         \/ Distances(result) < Distances(d)
         \/ Distances(result) = Distances(d) /\ (d = result \/ result.frac % 2 = 0)

(* What has no double is infinite, and what is no number stays none.        *)
Specials ==
  pc = "done" /\ exp > SrcBias + DstBias =>
    result.exp = DstInf /\ (result.frac # 0 <=> exp = SrcInf /\ frac # 0)
=============================================================================
