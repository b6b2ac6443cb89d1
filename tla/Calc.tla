-------------------------------- MODULE Calc --------------------------------
(***************************************************************************)
(* The obfuscated function of the sample that Squanchy is shown on:        *)
(* w2c_squanchy_calc_0 and its caller main_0                               *)
(* (src/samples/obf_1/obf_w2c.c:1606-9132).  A definition lN is the local  *)
(* variable var_lN, for every argument n; only the variables that are used *)
(* more than once or that a long expression is cut at are kept.  What the  *)
(* code computes from constants alone is replaced by its value, and an     *)
(* exclusive or with -1 is Inv.  The rewriting rules of the obfuscator     *)
(* that occur often have names.                                            *)
(*                                                                         *)
(* Every operation gives bit i of its result from the bits 0 .. i of its   *)
(* arguments only, so words of W bits show the low W bits of the function. *)
(***************************************************************************)
EXTENDS Integers

CONSTANTS
  W,        \* the bits of a word (32)
  And,      \* x & y, as a table
  Unknown   \* no result yet

Power[k \in Nat] == IF k = 0 THEN 1 ELSE 2 * Power[k - 1]

WordMod == Power[W]
Word == 0 .. WordMod - 1

ASSUME CalcAssumption ==
  /\ W \in 3 .. 32 /\ Unknown \notin Int
  /\ And \in [Word -> [Word -> Word]]
  /\ \A x, y \in Word :
       And[x][y] = 2 * And[x \div 2][y \div 2] + (x % 2) * (y % 2)

(* A constant of 32 bits, signed.                                          *)
K(c) == c % WordMod
Inv(a) == WordMod - 1 - a
a & b == And[a][b]
a | b == Inv(Inv(a) & Inv(b))
a ^^ b == (a | b) & Inv(a & b)
a \oplus b == (a + b) % WordMod
a \ominus b == (a - b) % WordMod
a \otimes b == (a * b) % WordMod
Neg(a) == 0 \ominus a
Double(a) == (a * 2) % WordMod

(* The rules: a product, twice; a | b, twice; ~(a & b); a & b; ~a, twice.  *)
Product(a, b) == ((a | b) \otimes (a & b)) \oplus ((a & Inv(b)) \otimes (b & Inv(a)))
ProductByNor(a, b) == ((a | b) \otimes (a & b)) \oplus (Inv(a | Inv(b)) \otimes (a & Inv(b)))
OrBySum(a, b) == (a \oplus (a ^^ b)) \ominus (a & Inv(b))
OrByCarry(a, b) == ((a \oplus b) \oplus 1) \oplus Inv(b & a)
NandMasked(a, b, m) ==
  (((a & m) | (Inv(a) & Inv(m))) ^^ ((b & m) | (Inv(b) & Inv(m)))) | Inv(a | b)
AndByXor(a, b) == (a | b) & Inv(a ^^ b)
NotByShift(a) == (a \oplus K(-1)) \ominus Double(a)
NotByDouble(a) == a \ominus (Double(a) \ominus K(-1))

(* The value of the first branch, where the remainder is 0: l807.          *)
l21 == [n \in Word |-> Inv(n) | Inv(n)]
l168 == [n \in Word |-> (l21[n] | l21[n]) & K(\h293bfff4)]
l180 == [n \in Word |-> (Inv(n) | K(-\h293bfff5)) \oplus (n \ominus K(-1))]
l192 == [n \in Word |-> Inv(l168[n]) | Inv(l180[n])]
l224 == [n \in Word |->
  NandMasked(l192[n] & l192[n], Inv(l168[n] ^^ l180[n]), K(-\h762de927))]
l267 == [n \in Word |->
  (l224[n] \oplus K(-\h6c6ed0b5)) \oplus Neg(ProductByNor(2, l224[n] & K(-\h6c6ed0b5)))]
l268 == [n \in Word |-> l21[n] | K(\h45552f40)]
l343 == [n \in Word |-> ((Inv(l268[n]) \oplus K(-1)) \oplus 1) \oplus l268[n]]
l370 == [n \in Word |->
  NandMasked(Inv(NotByShift(l268[n]) | Inv(l268[n])), l343[n], K(\h1e85a5ae))]
l419 == [n \in Word |->
  Inv(NotByShift(Inv((Inv(l370[n]) & Inv(l370[n])) | (Inv(l267[n]) & Inv(l267[n])))))
  \ominus K(-1)]
l420 == [n \in Word |-> ((l267[n] \oplus l370[n]) \ominus K(-1)) \ominus l419[n]]
l571 == [n \in Word |-> Inv(Inv(n) & n)]
l579 == [n \in Word |-> Inv(n & l571[n])]
l582 == [n \in Word |-> l579[n] & l579[n]]
l630 == [n \in Word |->
  OrBySum(AndByXor(Inv(l582[n]), K(\h2f63283)), l582[n] & K(-\h2f63284))]
l637 == [n \in Word |-> Double(l630[n] & Inv(K(\h2f63281) ^^ l630[n])) \ominus l630[n]]
l680 == [n \in Word |-> n \oplus K(-1)]
l663 == [n \in Word |-> n & n]
l681 == [n \in Word |-> l680[n] \ominus ProductByNor(2, l663[n])]
l711 == [n \in Word |->
  Inv(((l681[n] \oplus (l681[n] ^^ Inv(n))) \oplus Neg(l681[n] & NotByDouble(Inv(n)))) & 2)]
l759 == [n \in Word |->
  OrByCarry(K(\h2f63281) \ominus l637[n], Inv(K(-3) | Inv(l582[n]))) & (l711[n] & l711[n])]
l807 == [n \in Word |->
  ProductByNor(l420[n], OrByCarry(Inv(l759[n]), l759[n] & Inv(l759[n])))]

(* The second, where it is 1: l1266.                                       *)
l877 == [n \in Word |->
  (AndByXor(Inv(n), K(-\h1aa40b25)) | (n & K(\h1aa40b24))) ^^ K(\h1aa40b24)]
l926 == [n \in Word |-> Inv((Inv(l877[n]) | Inv(n)) \oplus Neg(Neg(l877[n]) \oplus K(-1)))]
l1050 == [n \in Word |-> Inv(l926[n] & l926[n]) | K(\h45552f40)]
l1168 == [n \in Word |-> n | n]
l1147 == [n \in Word |-> n ^^ 3]
l1148 == [n \in Word |-> l1147[n] & l1147[n]]
l1181 == [n \in Word |-> Double(Inv(Inv(l1168[n]) | (l1148[n] & l1148[n]))) \ominus n]
l1189 == [n \in Word |-> (K(-\h22c5a958) \ominus (3 \ominus l1181[n])) \oplus K(\h22c5a958)]
l1084 == [n \in Word |-> n | 3]
l1068 == [n \in Word |-> Inv(n) & Inv(n)]
l1090 == [n \in Word |->
  (Inv(l1084[n]) | (Inv(K(-4) | l1068[n]) | (K(-4) & Inv(n)))) \oplus (l1084[n] \oplus 1)]
l1129 == [n \in Word |-> (l1090[n] & K(-3)) \otimes Inv(K(-3) | l1090[n])]
l1194 == [n \in Word |->
  Neg(l1189[n] \oplus Neg(Product(l1090[n] | 2, l1090[n] & 2) \oplus l1129[n]))]
l1265 == [n \in Word |->
  Product(OrBySum(Inv(l1050[n]), l1194[n]), Inv(l1050[n] | Inv(l1194[n])) | (Inv(l1050[n]) &
  l1194[n]))]
l1266 == [n \in Word |->
  l1265[n] \oplus Product(NotByShift(Inv(l1050[n]) | Inv(l1194[n])), Inv(l1050[n] |
  l1194[n]))]

(* The third, where it is 2: l1828.                                       *)
l1376 == [n \in Word |->
  Inv((Inv(n) ^^ Inv(l680[n] \ominus Product(l1168[n], 2))) & Inv(n)) & K(-\h45552f41)]
l1505 == [n \in Word |-> (Inv(l1376[n]) & K(\h528f640e)) | (l1376[n] & K(-\h528f640f))]
l1391 == [n \in Word |-> Inv(l663[n] | Inv(l21[n]))]
l1465 == [n \in Word |-> (l1391[n] | l1391[n]) & l571[n]]
l1491 == [n \in Word |->
  AndByXor((K(-\h45552f41) & Inv(l1465[n])) | (l1465[n] & K(\h45552f40)), l1465[n])]
l1511 == [n \in Word |-> OrBySum(Inv(l1491[n]) & K(\h528f640e), l1491[n] & K(-\h528f640f))]
l1519 == [n \in Word |-> Inv((Inv(l1505[n]) | Inv(l1505[n])) & l1511[n])]
l1550 == [n \in Word |->
  Inv(l1519[n] & Inv(l1505[n] & (Inv(l1511[n]) | Inv(l1511[n])))) | Inv(Inv(l1376[n]) |
  Inv(l1491[n]))]
l1608 == [n \in Word |-> K(-5) & Inv(l1068[n])]
l1649 == [n \in Word |-> Inv(NotByShift(n) | Inv(n))]
l1685 == [n \in Word |->
  OrByCarry((K(-5) | n) \oplus 5, OrBySum(NotByDouble(Inv(l1608[n] & l1608[n])), 4 &
  Inv(l1649[n] & l1649[n])))]
l1782 == [n \in Word |-> Inv(l1550[n]) | l1685[n]]
(* Mutant: the rule for the product gets an or for the and. *)
l1781Or == [n \in Word |-> Inv(l1550[n]) | l1685[n]]
l1781 == [n \in Word |-> Inv(l1550[n]) & l1685[n]]
l1810 == [n \in Word |->
  ProductByNor(OrByCarry(l1782[n], l1781[n]), l1782[n] & l1781[n]) \oplus K(\h6da44705)]
l1811 == [n \in Word |->
  l1810[n] \oplus (Inv(l1782[n] | Inv(l1781[n])) \otimes (l1782[n] & Inv(l1781[n])))]
l1766 == [n \in Word |->
  (l1550[n] | NandMasked(l1685[n], Inv(l1685[n] & Inv(l1685[n])), K(-\h3773a719))) \oplus
  K(\h7f4e7180)]
l1767 == [n \in Word |->
  l1766[n] \oplus (((Inv(l1550[n]) \oplus K(-\h1e1a447a)) \oplus 1) \ominus K(-\h1e1a447a))]
l1715 == [n \in Word |-> (Inv(l1685[n]) | (l1550[n] | l1550[n])) \oplus (l1685[n] \oplus 1)]
l1780 == [n \in Word |-> ProductByNor(l1767[n] \ominus K(\h7f4e7180), l1715[n])]
l1828 == [n \in Word |->
  Neg(Neg(l1811[n] \ominus K(\h6da44705)) \ominus Neg((K(\h4cdde188) \ominus l1780[n]) \ominus
  K(\h4cdde188)))]

(* The last, where it is anything else: l2185.                             *)
l1838 == [n \in Word |-> Neg(n)]
l1846 == [n \in Word |-> Neg((l1838[n] & K(\h45552f41)) \oplus (l1838[n] | K(\h45552f41)))]
l1877 == [n \in Word |-> NotByDouble(n)]
l1966 == [n \in Word |->
  NandMasked(Inv(l1877[n]) | K(-\h5c35d8cf), l1068[n] | K(\h5c35d8ce), K(-\h7a0becda))]
l1974 == [n \in Word |-> Inv(5 | l1877[n])]
l2003 == [n \in Word |->
  (((K(-\h5c35d8cc) \oplus l1966[n]) \ominus Double(K(-\h5c35d8cc) & l1966[n])) | (l1974[n] |
  l1974[n])) \oplus 6]
l2165 == [n \in Word |-> Inv((Inv(l1846[n]) | l2003[n]) \oplus (l1846[n] \oplus 1))]
l2180 == [n \in Word |->
  OrByCarry(l1846[n], l2003[n]) \otimes Inv(AndByXor(Inv(l1846[n]) | Inv(l2003[n]),
  l2165[n]))]
l2044 == [n \in Word |->
  Inv(NotByDouble(Inv((Inv(l2003[n]) & Inv(l2003[n])) | Inv(l2003[n] | l2003[n]))))]
l2131 == [n \in Word |->
  NotByShift(l2044[n] | l2044[n]) | (Inv(l2003[n]) \oplus (l2003[n] \oplus 1))]
l2145 == [n \in Word |->
  (Inv(Inv(l1846[n]) | Inv(l2131[n])) | (l1846[n] & l2131[n])) \otimes Inv(Inv(l2003[n]) |
  l1846[n])]
l2185 == [n \in Word |->
  ((l2180[n] \ominus K(-\h61921520)) \oplus l2145[n]) \oplus K(-\h61921520)]
-----------------------------------------------------------------------------
VARIABLES
  n,       \* the argument of calc_0
  mod,     \* the remainder it stores
  result,  \* what it returns
  i,       \* the counter of the test in main_0
  pc

vars == <<n, mod, result, i, pc>>

(* main_0 hands on argc + 23, execute.c what the user gave.                *)
Init ==
  /\ n \in Word
  /\ mod = Unknown /\ result = Unknown
  /\ i = 0
  /\ pc = "enter"

Signed(a) == IF a < Power[W - 1] THEN a ELSE a - WordMod

(* Mutant: the remainder has the sign of the divisor. *)
RemainderFloored(a, b) == a % b

(* I32_REM_S: the remainder has the sign of the dividend.                  *)
Remainder(a, b) == IF a < 0 THEN -((-a) % b) ELSE a % b

Enter ==
  /\ pc = "enter"
  /\ mod' = Remainder(Signed(n \ominus 1), 4)
  /\ result' = 0
  /\ pc' = "choose"
  /\ UNCHANGED <<n, i>>

Compute(value) ==
  /\ pc = "choose"
  /\ result' = value[n]
  /\ pc' = "returned"
  /\ UNCHANGED <<n, mod, i>>

First == mod = 0 /\ Compute(l807)
Second == mod = 1 /\ Compute(l1266)
Third == mod = 2 /\ Compute(l1828)
Last == mod \notin {0, 1, 2} /\ Compute(l2185)

(* calc, and calc_org of execute.c: the function before the obfuscation.   *)
Formula(k, a) ==
  CASE k = 0 -> (a | K(-\h45552f41)) \otimes (2 ^^ a)
    [] k = 1 -> (a & K(-\h45552f41)) \otimes (3 \oplus a)
    [] k = 2 -> (a ^^ K(-\h45552f41)) \otimes (4 | a)
    [] OTHER -> (a \oplus K(-\h45552f41)) \otimes (5 & a)
calc(a) == Formula(a % 4, a)

(* What f5, the module's iprintf, returns in main_0: its format is the      *)
(* empty string at address 0, which nothing has written.                    *)
f5 == 0

(* The loop of main_0, which returns 1 at the first difference.             *)
ExtraTest ==
  /\ pc \in {"returned", "testing"}
  /\ IF f5 = calc(i)
     THEN i' = (i + 1) % WordMod /\ pc' = "testing"
     ELSE i' = i /\ pc' = "error"
  /\ UNCHANGED <<n, mod, result>>

Next == Enter \/ First \/ Second \/ Third \/ Last \/ ExtraTest

Spec == Init /\ [][Next]_vars
-----------------------------------------------------------------------------
(* Types; a remainder that is not 0 has the sign of what was divided.      *)
TypeOK ==
  /\ n \in Word /\ i \in Word
  /\ result \in Word \cup {Unknown}
  /\ pc \in {"enter", "choose", "returned", "testing", "error"}
  /\ mod = Unknown <=> pc = "enter"
  /\ pc # "enter" => /\ mod \in -3 .. 3
                     /\ mod # 0 => (mod < 0 <=> Signed(n \ominus 1) < 0)

(* What the obfuscated branches compute is one of the four formulas of     *)
(* calc, for every argument: the one of n's position in a cycle of four    *)
(* that starts at 1; where n - 1 is negative, only multiples of four leave *)
(* the last formula.                                                       *)
Deobfuscated ==
  pc = "returned" =>
    result = Formula(IF Signed(n \ominus 1) < 0 /\ n % 4 # 1 THEN 3 ELSE (n \ominus 1) % 4, n)

(* What the rewriting rules made of calc still computes calc.              *)
BitTricksRight == TypeOK /\ Deobfuscated
=============================================================================
