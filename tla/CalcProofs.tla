------------------------------ MODULE CalcProofs ------------------------------
(***************************************************************************)
(* Theorems about Calc for every argument and every width of a word up to  *)
(* the 32 bits of the code.                                                *)
(***************************************************************************)
EXTENDS Calc, WellFoundedInduction, TLAPS

(***************************************************************************)
(* Powers of two.                                                          *)
(***************************************************************************)
(* The least of some numbers.                                              *)
LEMMA NatMin ==
  ASSUME NEW T, T \subseteq Nat, T # {}
  PROVE  \E e \in T : \A m \in T : e <= m
<1> DEFINE R == OpToRel(<, Nat)
<1>1. R = {p \in Nat \X Nat : p[1] < p[2]}  BY DEF OpToRel
<1>2. IsWellFoundedOn(R, Nat)  BY NatLessThanWellFounded
<1> HIDE DEF R
<1>3. PICK e \in T : \A m \in T : ~ (<<m, e>> \in R)  BY <1>2, WFMin
<1>4. ASSUME NEW m \in T, m < e PROVE FALSE
  <2> DEFINE p == <<m, e>>
  <2>1. p \in Nat \X Nat /\ p[1] = m /\ p[2] = e  OBVIOUS
  <2> HIDE DEF p
  <2>2. p \in R  BY <1>1, <1>4, <2>1
  <2>3. p \notin R  BY <1>3 DEF p
  <2> QED  BY <2>2, <2>3
<1>5. ASSUME NEW m \in T PROVE e <= m
  <2>1. m \in Nat /\ e \in Nat  OBVIOUS
  <2> QED  BY <1>4, <2>1
<1> QED  BY <1>5

(* What holds at 0, and at the next number if it holds at one.             *)
LEMMA UpTo ==
  ASSUME NEW e \in Nat, NEW T, 0 \in T, \A k \in 1 .. e : k - 1 \in T => k \in T
  PROVE  \A k \in 0 .. e : k \in T
<1> DEFINE Outside == {k \in 0 .. e : k \notin T}
<1>1. Outside = {}
  <2> SUFFICES ASSUME Outside # {} PROVE FALSE  OBVIOUS
  <2>1. PICK k \in Outside : \A m \in Outside : k <= m
    <3>1. Outside \subseteq Nat  OBVIOUS
    <3> HIDE DEF Outside
    <3> QED  BY <3>1, NatMin
  <2>2. k \in 1 .. e /\ k - 1 \in 0 .. e  OBVIOUS
  <2>3. k - 1 \notin Outside
    <3> HIDE DEF Outside
    <3> QED  BY <2>1, <2>2
  <2> QED  BY <2>2, <2>3
<1> QED  BY <1>1

(* What holds at 0, and at the next number if it holds at one.             *)
LEMMA ForAllNumbers ==
  ASSUME NEW T, 0 \in T, \A k \in Nat : k \in T => k + 1 \in T
  PROVE  \A k \in Nat : k \in T
<1>1. TAKE e \in Nat
<1>2. ASSUME NEW k \in 1 .. e, k - 1 \in T PROVE k \in T
  <2>1. k - 1 \in Nat /\ (k - 1) + 1 = k  OBVIOUS
  <2> QED  BY <1>2, <2>1
<1>3. \A k \in 0 .. e : k \in T  BY <1>2, UpTo
<1> QED  BY <1>3

(* The powers of two up to one.                                            *)
PowersTo(e, h) ==
  /\ h \in [0 .. e -> Nat] /\ h[0] = 1
  /\ \A j \in 1 .. e : h[j] = 2 * h[j - 1]

LEMMA PowersExist == \A e \in Nat : \E h : PowersTo(e, h)
<1> DEFINE T == {e \in Nat : \E h : PowersTo(e, h)}
<1>1. 0 \in T
  <2> DEFINE h == [j \in 0 .. 0 |-> 1]
  <2>1. PowersTo(0, h)  BY DEF PowersTo
  <2> QED  BY <2>1
<1>2. ASSUME NEW e \in Nat, e \in T PROVE e + 1 \in T
  <2>1. PICK h : PowersTo(e, h)  BY <1>2
  <2>2. h \in [0 .. e -> Nat] /\ h[0] = 1 /\ \A j \in 1 .. e : h[j] = 2 * h[j - 1]
    BY <2>1 DEF PowersTo
  <2> DEFINE g == [j \in 0 .. e + 1 |-> IF j = e + 1 THEN 2 * h[e] ELSE h[j]]
  <2>3. \A j \in 0 .. e + 1 : j # e + 1 => j \in 0 .. e  OBVIOUS
  <2>4. h[e] \in Nat  BY <2>2
  <2>5. g \in [0 .. e + 1 -> Nat]  BY <2>2, <2>3, <2>4
  <2>6. g[0] = 1  BY <2>2
  <2>7. ASSUME NEW j \in 1 .. e + 1 PROVE g[j] = 2 * g[j - 1]
    <3>1. j - 1 \in 0 .. e /\ j - 1 # e + 1 /\ j - 1 \in 0 .. e + 1  OBVIOUS
    <3>2. g[j - 1] = h[j - 1]  BY <3>1
    <3>3. CASE j = e + 1
      <4>1. g[j] = 2 * h[e] /\ j - 1 = e  BY <3>3
      <4> QED  BY <3>2, <4>1
    <3>4. CASE j # e + 1
      <4>1. g[j] = h[j] /\ j \in 1 .. e  BY <3>4
      <4> QED  BY <2>2, <3>2, <4>1
    <3> QED  BY <3>3, <3>4
  <2> HIDE DEF g
  <2>8. PowersTo(e + 1, g)  BY <2>5, <2>6, <2>7 DEF PowersTo
  <2> QED  BY <2>8
<1> HIDE DEF T
<1>3. \A e \in Nat : e \in T  BY <1>1, <1>2, ForAllNumbers
<1> QED  BY <1>3 DEF T

LEMMA PowersAgree ==
  ASSUME NEW e \in Nat, NEW m \in Nat, e <= m,
         NEW h, PowersTo(e, h), NEW g, PowersTo(m, g)
  PROVE  \A k \in 0 .. e : h[k] = g[k]
<1> DEFINE T == {k \in Nat : h[k] = g[k]}
<1>1. h[0] = 1 /\ g[0] = 1 /\ (\A j \in 1 .. e : h[j] = 2 * h[j - 1])
      /\ \A j \in 1 .. m : g[j] = 2 * g[j - 1]
  BY DEF PowersTo
<1>2. 0 \in T  BY <1>1
<1>3. ASSUME NEW k \in 1 .. e, k - 1 \in T PROVE k \in T
  <2>1. k \in Nat /\ k \in 1 .. m /\ h[k - 1] = g[k - 1]  BY <1>3
  <2> QED  BY <1>1, <2>1
<1> HIDE DEF T
<1>4. \A k \in 0 .. e : k \in T  BY <1>2, <1>3, UpTo
<1> QED  BY <1>4 DEF T

LEMMA PowerSteps ==
  /\ Power[0] = 1
  /\ \A k \in Nat : Power[k] \in Nat /\ Power[k + 1] = 2 * Power[k]
<1> DEFINE G(f) == [k \in Nat |-> IF k = 0 THEN 1 ELSE 2 * f[k - 1]]
           upto(e) == CHOOSE h : PowersTo(e, h)
           p == [e \in Nat |-> upto(e)[e]]
<1>1. \A e \in Nat : PowersTo(e, upto(e))  BY PowersExist
<1> HIDE DEF upto
<1>2. \A e \in Nat : p[e] \in Nat
  <2>1. TAKE e \in Nat
  <2>2. upto(e) \in [0 .. e -> Nat] /\ e \in 0 .. e  BY <1>1 DEF PowersTo
  <2>3. upto(e)[e] \in Nat  BY <2>2
  <2> QED  BY <2>3
<1>3. p[0] = 1  BY <1>1 DEF PowersTo
<1>4. ASSUME NEW k \in Nat PROVE p[k + 1] = 2 * p[k]
  <2> DEFINE m == k + 1
  <2>1. m \in Nat /\ m \in 1 .. m /\ m - 1 = k /\ k <= m /\ k \in 0 .. k  OBVIOUS
  <2>2. upto(m)[m] = 2 * upto(m)[k]
    <3>1. PowersTo(m, upto(m))  BY <1>1, <2>1
    <3> HIDE DEF m
    <3>2. upto(m)[m] = 2 * upto(m)[m - 1]  BY <2>1, <3>1 DEF PowersTo
    <3> QED  BY <2>1, <3>2
  <2>3. upto(k)[k] = upto(m)[k]
    <3>1. PowersTo(m, upto(m)) /\ PowersTo(k, upto(k))  BY <1>1, <2>1
    <3> HIDE DEF m
    <3> QED  BY <2>1, <3>1, PowersAgree
  <2>4. p[m] = upto(m)[m] /\ p[k] = upto(k)[k]  BY <2>1
  <2> HIDE DEF p
  <2> QED  BY <2>2, <2>3, <2>4
<1>5. p = G(p)
  <2>1. p = [k \in Nat |-> p[k]]  OBVIOUS
  <2> HIDE DEF p
  <2>2. ASSUME NEW k \in Nat PROVE p[k] = IF k = 0 THEN 1 ELSE 2 * p[k - 1]
    <3>1. CASE k = 0  BY <1>3, <3>1
    <3>2. CASE k # 0
      <4>1. k - 1 \in Nat /\ (k - 1) + 1 = k  BY <3>2
      <4> QED  BY <1>4, <3>2, <4>1
    <3> QED  BY <3>1, <3>2
  <2> QED  BY <2>1, <2>2
<1> HIDE DEF p
<1>6. PICK f : f = G(f) /\ Power = f
  BY <1>5 DEF Power
<1>7. f[0] = 1  BY <1>6
<1>8. ASSUME NEW k \in Nat PROVE f[k + 1] = 2 * f[k]
  <2>1. k + 1 \in Nat /\ k + 1 # 0 /\ (k + 1) - 1 = k  OBVIOUS
  <2> QED  BY <1>6, <2>1
<1>9. \A k \in Nat : f[k] \in Nat
  <2> DEFINE T == {k \in Nat : f[k] \in Nat}
  <2> HIDE DEF G
  <2>1. 0 \in T  BY <1>7
  <2>2. ASSUME NEW k \in Nat, k \in T PROVE k + 1 \in T
    <3>1. f[k] \in Nat  BY <2>2
    <3> QED  BY <1>8, <3>1
  <2> HIDE DEF T
  <2>3. \A k \in Nat : k \in T  BY <2>1, <2>2, ForAllNumbers
  <2> QED  BY <2>3 DEF T
<1> HIDE DEF G
<1> QED  BY <1>6, <1>7, <1>8, <1>9

LEMMA PowerFacts ==
  /\ Power[0] = 1 /\ Power[1] = 2
  /\ \A k \in Nat : Power[k] \in Nat /\ Power[k] >= 1 /\ Power[k + 1] = 2 * Power[k]
<1>1. Power[0] = 1 /\ \A k \in Nat : Power[k] \in Nat /\ Power[k + 1] = 2 * Power[k]
  BY PowerSteps
<1>2. Power[1] = 2
  <2>1. Power[0 + 1] = 2 * Power[0]  BY <1>1
  <2> QED  BY <1>1, <2>1
<1> DEFINE T == {k \in Nat : Power[k] >= 1}
<1>3. 0 \in T  BY <1>1
<1>4. ASSUME NEW k \in Nat, k \in T PROVE k + 1 \in T
  BY <1>1, <1>4
<1> HIDE DEF T
<1>5. \A k \in Nat : k \in T  BY <1>3, <1>4, ForAllNumbers
<1> QED  BY <1>1, <1>2, <1>5 DEF T

LEMMA PowerSum ==
  ASSUME NEW a \in Nat, NEW b \in Nat
  PROVE  Power[a + b] = Power[a] * Power[b]
<1> DEFINE T == {k \in Nat : Power[a + k] = Power[a] * Power[k]}
<1>1. 0 \in T
  <2>1. Power[a + 0] = Power[a] * Power[0]  BY PowerFacts
  <2> QED  BY <2>1
<1>2. ASSUME NEW k \in Nat, k \in T PROVE k + 1 \in T
  <2>1. Power[a + k] = Power[a] * Power[k]  BY <1>2
  <2>2. Power[(a + k) + 1] = 2 * Power[a + k] /\ Power[k + 1] = 2 * Power[k]
        /\ Power[a] \in Nat /\ Power[k] \in Nat
    BY PowerFacts
  <2>3. (a + k) + 1 = a + (k + 1) /\ k + 1 \in Nat  OBVIOUS
  <2>4. Power[a + (k + 1)] = Power[a] * Power[k + 1]
    <3> DEFINE x == Power[a]  y == Power[k]
    <3>1. Power[a + (k + 1)] = 2 * (x * y)  BY <2>1, <2>2, <2>3
    <3>2. 2 * (x * y) = x * (2 * y)
      <4>1. x \in Nat /\ y \in Nat  BY <2>2
      <4> HIDE DEF x, y
      <4> QED  BY <4>1
    <3> HIDE DEF x
    <3> QED  BY <2>2, <3>1, <3>2 DEF x
  <2> QED  BY <2>3, <2>4
<1> HIDE DEF T
<1>3. \A k \in Nat : k \in T  BY <1>1, <1>2, ForAllNumbers
<1> QED  BY <1>3 DEF T
-----------------------------------------------------------------------------
(***************************************************************************)
(* Words and their bits.                                                   *)
(***************************************************************************)
Bit(x, k) == (x \div Power[k]) % 2 = 1
Bits(x) == {k \in 0 .. W - 1 : Bit(x, k)}

LEMMA Given ==
  /\ W \in Nat /\ W >= 3 /\ W <= 32
  /\ WordMod = Power[W] /\ WordMod \in Nat /\ WordMod >= 1
  /\ 0 \in Word
  /\ \A x \in Word : x \in Nat /\ x < WordMod
  /\ \A x \in Nat : x < WordMod => x \in Word
<1>1. W \in Nat /\ W >= 3 /\ W <= 32  BY CalcAssumption
<1>2. WordMod = Power[W] /\ WordMod \in Nat /\ WordMod >= 1
  BY <1>1, PowerFacts DEF WordMod
<1> QED  BY <1>1, <1>2 DEF Word

(* A word without its last bit.                                            *)
LEMMA Halves ==
  ASSUME NEW x \in Nat
  PROVE  /\ x \div 2 \in Nat /\ x \div 2 <= x /\ x % 2 \in {0, 1}
         /\ x = 2 * (x \div 2) + (x % 2)
OBVIOUS

LEMMA BitZero == ASSUME NEW x \in Nat PROVE Bit(x, 0) <=> x % 2 = 1
<1>1. Power[0] = 1  BY PowerFacts
<1>2. x \div 1 = x  OBVIOUS
<1> QED  BY <1>1, <1>2 DEF Bit

LEMMA DivTwice ==
  ASSUME NEW x \in Nat, NEW p \in Nat, p >= 1
  PROVE  x \div (2 * p) = (x \div 2) \div p
<1> DEFINE y == x \div 2
           q == y \div p
           r == y % p
<1>1. y \in Nat /\ x - 2 * y \in {0, 1}  OBVIOUS
<1>2. q \in Nat /\ r \in 0 .. p - 1 /\ y = p * q + r
  <2> HIDE DEF y
  <2> QED  BY <1>1
<1> HIDE DEF y, q, r
<1>3. PICK b \in {0, 1} : x = 2 * y + b  BY <1>1
<1>4. x = (2 * p) * q + (2 * r + b)
  <2>1. 2 * (p * q) = (2 * p) * q  BY <1>2
  <2> QED  BY <1>2, <1>3, <2>1
<1>5. 2 * r + b \in 0 .. 2 * p - 1  BY <1>2, <1>3
<1>6. ASSUME NEW d \in Nat, d > 0, NEW s \in 0 .. d - 1 PROVE (d * q + s) \div d = q
  BY <1>2, <1>6
<1>7. x \div (2 * p) = q  BY <1>4, <1>5, <1>6
<1> QED  BY <1>7 DEF q, y

LEMMA BitNext ==
  ASSUME NEW x \in Nat, NEW k \in Nat
  PROVE  Bit(x, k + 1) <=> Bit(x \div 2, k)
<1>1. Power[k + 1] = 2 * Power[k] /\ Power[k] \in Nat /\ Power[k] >= 1  BY PowerFacts
<1>2. x \div Power[k + 1] = (x \div 2) \div Power[k]  BY <1>1, DivTwice
<1> QED  BY <1>2 DEF Bit

(* The bits of x & y.                                                      *)
LEMMA AndIsWord == ASSUME NEW x \in Word, NEW y \in Word PROVE (x & y) \in Word
BY CalcAssumption DEF &

LEMMA AndHalves ==
  ASSUME NEW x \in Word, NEW y \in Word
  PROVE  /\ x \div 2 \in Word /\ y \div 2 \in Word
         /\ (x & y) \div 2 = (x \div 2) & (y \div 2)
         /\ (x & y) % 2 = (x % 2) * (y % 2)
<1>1. x \in Nat /\ y \in Nat /\ x < WordMod /\ y < WordMod /\ WordMod \in Nat  BY Given
<1>2. x \div 2 \in Word /\ y \div 2 \in Word  BY <1>1, Halves, Given
<1>3. (x & y) = 2 * ((x \div 2) & (y \div 2)) + (x % 2) * (y % 2)
  BY CalcAssumption DEF &
<1>4. ((x \div 2) & (y \div 2)) \in Nat  BY <1>2, AndIsWord, Given
<1>5. (x % 2) * (y % 2) \in {0, 1}  BY <1>1, Halves
<1>6. ASSUME NEW h \in Nat, NEW b \in {0, 1} PROVE (2 * h + b) \div 2 = h /\ (2 * h + b) % 2 = b
  OBVIOUS
<1> QED  BY <1>2, <1>3, <1>4, <1>5, <1>6

LEMMA AndBits ==
  \A k \in Nat : \A x, y \in Word : Bit(x & y, k) <=> Bit(x, k) /\ Bit(y, k)
<1> DEFINE T == {k \in Nat : \A x, y \in Word : Bit(x & y, k) <=> Bit(x, k) /\ Bit(y, k)}
<1>1. 0 \in T
  <2>1. ASSUME NEW x \in Word, NEW y \in Word PROVE Bit(x & y, 0) <=> Bit(x, 0) /\ Bit(y, 0)
    <3>1. (x & y) \in Nat /\ x \in Nat /\ y \in Nat  BY AndIsWord, Given
    <3>2. (x & y) % 2 = (x % 2) * (y % 2)  BY AndHalves
    <3>3. x % 2 \in {0, 1} /\ y % 2 \in {0, 1}  BY <3>1
    <3>4. (x & y) % 2 = 1 <=> x % 2 = 1 /\ y % 2 = 1  BY <3>2, <3>3
    <3> QED  BY <3>1, <3>4, BitZero
  <2> QED  BY <2>1
<1>2. ASSUME NEW k \in Nat, k \in T PROVE k + 1 \in T
  <2>1. ASSUME NEW x \in Word, NEW y \in Word
        PROVE  Bit(x & y, k + 1) <=> Bit(x, k + 1) /\ Bit(y, k + 1)
    <3>1. (x & y) \in Nat /\ x \in Nat /\ y \in Nat  BY AndIsWord, Given
    <3>2. /\ x \div 2 \in Word /\ y \div 2 \in Word
          /\ (x & y) \div 2 = (x \div 2) & (y \div 2)
      BY AndHalves
    <3>3. Bit((x \div 2) & (y \div 2), k) <=> Bit(x \div 2, k) /\ Bit(y \div 2, k)
      BY <1>2, <3>2
    <3> QED  BY <3>1, <3>2, <3>3, BitNext
  <2>2. k + 1 \in Nat  OBVIOUS
  <2> QED  BY <2>1, <2>2
<1> HIDE DEF T
<1>3. \A k \in Nat : k \in T  BY <1>1, <1>2, ForAllNumbers
<1> QED  BY <1>3 DEF T

(* The bits of ~x, for words of any width.                                 *)
LEMMA InvBits ==
  \A k \in Nat : \A w \in Nat : k < w =>
    \A x \in 0 .. Power[w] - 1 : Bit(Power[w] - 1 - x, k) <=> ~ Bit(x, k)
<1> DEFINE C(k) == \A w \in Nat : k < w =>
             \A x \in 0 .. Power[w] - 1 : Bit(Power[w] - 1 - x, k) <=> ~ Bit(x, k)
           T == {k \in Nat : C(k)}
<1>1. ASSUME NEW w \in Nat, w > 0
      PROVE  w - 1 \in Nat /\ Power[w] = 2 * Power[w - 1] /\ Power[w - 1] \in Nat
             /\ Power[w - 1] >= 1
  <2>1. w - 1 \in Nat /\ (w - 1) + 1 = w  BY <1>1
  <2> QED  BY <2>1, PowerFacts
<1>2. ASSUME NEW p \in Nat, NEW x \in 0 .. 2 * p - 1
      PROVE  /\ x \in Nat /\ 2 * p - 1 - x \in Nat /\ x \div 2 \in 0 .. p - 1
             /\ (2 * p - 1 - x) \div 2 = p - 1 - (x \div 2)
             /\ (2 * p - 1 - x) % 2 = 1 <=> ~ (x % 2 = 1)
  OBVIOUS
<1>3. 0 \in T
  <2>1. ASSUME NEW w \in Nat, 0 < w, NEW x \in 0 .. Power[w] - 1
        PROVE  Bit(Power[w] - 1 - x, 0) <=> ~ Bit(x, 0)
    <3> DEFINE p == Power[w - 1]
    <3>1. Power[w] = 2 * p /\ p \in Nat  BY <1>1, <2>1
    <3> HIDE DEF p
    <3>2. x \in 0 .. 2 * p - 1  BY <3>1
    <3>3. /\ x \in Nat /\ 2 * p - 1 - x \in Nat
          /\ (2 * p - 1 - x) % 2 = 1 <=> ~ (x % 2 = 1)
      BY <1>2, <3>1, <3>2
    <3> QED  BY <3>1, <3>3, BitZero
  <2> QED  BY <2>1
<1>4. ASSUME NEW k \in Nat, k \in T PROVE k + 1 \in T
  <2>1. ASSUME NEW w \in Nat, k + 1 < w, NEW x \in 0 .. Power[w] - 1
        PROVE  Bit(Power[w] - 1 - x, k + 1) <=> ~ Bit(x, k + 1)
    <3> DEFINE p == Power[w - 1]
    <3>1. Power[w] = 2 * p /\ p \in Nat /\ w - 1 \in Nat /\ k < w - 1  BY <1>1, <2>1
    <3>2. \A y \in 0 .. p - 1 : Bit(p - 1 - y, k) <=> ~ Bit(y, k)
      BY <1>4, <3>1
    <3> HIDE DEF p
    <3>3. x \in 0 .. 2 * p - 1  BY <3>1
    <3>4. /\ x \in Nat /\ 2 * p - 1 - x \in Nat /\ x \div 2 \in 0 .. p - 1
          /\ (2 * p - 1 - x) \div 2 = p - 1 - (x \div 2)
      BY <1>2, <3>1, <3>3
    <3>5. Bit(2 * p - 1 - x, k + 1) <=> Bit(p - 1 - (x \div 2), k)
      BY <3>4, BitNext
    <3>6. Bit(x, k + 1) <=> Bit(x \div 2, k)
      BY <3>4, BitNext
    <3>7. Bit(p - 1 - (x \div 2), k) <=> ~ Bit(x \div 2, k)
      BY <3>2, <3>4
    <3> QED  BY <3>1, <3>5, <3>6, <3>7
  <2>2. k + 1 \in Nat  OBVIOUS
  <2>3. C(k + 1)  BY <2>1
  <2> HIDE DEF C
  <2> QED  BY <2>2, <2>3
<1> HIDE DEF C
<1>5. \A k \in Nat : k \in T
  <2> HIDE DEF T
  <2> QED  BY <1>3, <1>4, ForAllNumbers
<1> QED  BY <1>5 DEF T, C

(* A word whose bits are those of two others that share none is their sum. *)
LEMMA SumsOfParts ==
  \A w \in Nat : \A x, y, z \in 0 .. Power[w] - 1 :
    (\A k \in 0 .. w - 1 : (Bit(z, k) <=> Bit(x, k) \/ Bit(y, k)) /\ ~ (Bit(x, k) /\ Bit(y, k)))
      => z = x + y
<1> DEFINE Parts(w, x, y, z) ==
             \A k \in 0 .. w - 1 : /\ Bit(z, k) <=> Bit(x, k) \/ Bit(y, k)
                                   /\ ~ (Bit(x, k) /\ Bit(y, k))
           T == {w \in Nat : \A x, y, z \in 0 .. Power[w] - 1 : Parts(w, x, y, z) => z = x + y}
<1>1. 0 \in T
  <2>1. Power[0] = 1  BY PowerFacts
  <2> QED  BY <2>1
<1>2. ASSUME NEW w \in Nat, w \in T PROVE w + 1 \in T
  <2> DEFINE p == Power[w]
  <2>1. Power[w + 1] = 2 * p /\ p \in Nat /\ p >= 1 /\ w + 1 \in Nat  BY PowerFacts
  <2>2. \A x, y, z \in 0 .. p - 1 : Parts(w, x, y, z) => z = x + y  BY <1>2
  <2> HIDE DEF p
  <2>3. ASSUME NEW x \in 0 .. 2 * p - 1, NEW y \in 0 .. 2 * p - 1, NEW z \in 0 .. 2 * p - 1,
               Parts(w + 1, x, y, z)
        PROVE  z = x + y
    <3> DEFINE a == x \div 2
               b == y \div 2
               c == z \div 2
    <3>1. /\ x \in Nat /\ a \in 0 .. p - 1 /\ x % 2 \in {0, 1} /\ x = 2 * a + (x % 2)
          /\ y \in Nat /\ b \in 0 .. p - 1 /\ y % 2 \in {0, 1} /\ y = 2 * b + (y % 2)
          /\ z \in Nat /\ c \in 0 .. p - 1 /\ z % 2 \in {0, 1} /\ z = 2 * c + (z % 2)
      BY <2>1
    <3>2. \A k \in 0 .. w : (Bit(z, k) <=> Bit(x, k) \/ Bit(y, k)) /\ ~ (Bit(x, k) /\ Bit(y, k))
      BY <2>3
    <3>3. z % 2 = (x % 2) + (y % 2)
      <4>1. (Bit(z, 0) <=> Bit(x, 0) \/ Bit(y, 0)) /\ ~ (Bit(x, 0) /\ Bit(y, 0))
        <5>1. 0 \in 0 .. w  OBVIOUS
        <5> QED  BY <3>2, <5>1
      <4>2. (z % 2 = 1 <=> x % 2 = 1 \/ y % 2 = 1) /\ ~ (x % 2 = 1 /\ y % 2 = 1)
        BY <3>1, <4>1, BitZero
      <4> QED  BY <3>1, <4>2
    <3> HIDE DEF a, b, c
    <3>4. Parts(w, a, b, c)
      <4>1. ASSUME NEW k \in 0 .. w - 1
            PROVE  (Bit(c, k) <=> Bit(a, k) \/ Bit(b, k)) /\ ~ (Bit(a, k) /\ Bit(b, k))
        <5>1. k \in Nat /\ k + 1 \in 0 .. w  OBVIOUS
        <5>2. /\ Bit(z, k + 1) <=> Bit(x, k + 1) \/ Bit(y, k + 1)
              /\ ~ (Bit(x, k + 1) /\ Bit(y, k + 1))
          BY <3>2, <5>1
        <5>3. /\ Bit(x, k + 1) <=> Bit(a, k)
              /\ Bit(y, k + 1) <=> Bit(b, k)
              /\ Bit(z, k + 1) <=> Bit(c, k)
          BY <3>1, <5>1, BitNext DEF a, b, c
        <5> QED  BY <5>2, <5>3
      <4> QED  BY <4>1
    <3>5. c = a + b  BY <2>2, <3>1, <3>4
    <3> QED  BY <3>1, <3>3, <3>5
  <2> HIDE DEF Parts
  <2>4. \A x, y, z \in 0 .. Power[w + 1] - 1 : Parts(w + 1, x, y, z) => z = x + y
    BY <2>1, <2>3
  <2> QED  BY <2>1, <2>4
<1> HIDE DEF T
<1>3. \A w \in Nat : w \in T  BY <1>1, <1>2, ForAllNumbers
<1> QED  BY <1>3 DEF T

(* The operators do with the bits what their names say.                    *)
LEMMA InvIsWord == ASSUME NEW x \in Word PROVE Inv(x) \in Word
BY Given DEF Inv

LEMMA BitsOfAnd ==
  ASSUME NEW x \in Word, NEW y \in Word
  PROVE  (x & y) \in Word /\ Bits(x & y) = Bits(x) \cap Bits(y)
<1>1. (x & y) \in Word  BY AndIsWord
<1>2. \A k \in 0 .. W - 1 : k \in Nat  OBVIOUS
<1>3. \A k \in 0 .. W - 1 : Bit(x & y, k) <=> Bit(x, k) /\ Bit(y, k)  BY <1>2, AndBits
<1> QED  BY <1>1, <1>3 DEF Bits

LEMMA BitsOfInv ==
  ASSUME NEW x \in Word
  PROVE  Inv(x) \in Word /\ Bits(Inv(x)) = (0 .. W - 1) \ Bits(x)
<1>1. W \in Nat /\ WordMod = Power[W] /\ x \in 0 .. Power[W] - 1  BY Given DEF Word
<1>2. \A k \in 0 .. W - 1 : k \in Nat /\ k < W  BY <1>1
<1>3. \A k \in 0 .. W - 1 : Bit(Inv(x), k) <=> ~ Bit(x, k)
  BY <1>1, <1>2, InvBits DEF Inv
<1> QED  BY <1>3, InvIsWord DEF Bits

LEMMA BitsOfOr ==
  ASSUME NEW x \in Word, NEW y \in Word
  PROVE  (x | y) \in Word /\ Bits(x | y) = Bits(x) \cup Bits(y)
<1>1. Inv(x) \in Word /\ Inv(y) \in Word /\ (Inv(x) & Inv(y)) \in Word
  BY BitsOfInv, BitsOfAnd
<1>2. /\ Bits(Inv(x)) = (0 .. W - 1) \ Bits(x) /\ Bits(Inv(y)) = (0 .. W - 1) \ Bits(y)
      /\ Bits(Inv(x) & Inv(y)) = Bits(Inv(x)) \cap Bits(Inv(y))
      /\ Bits(Inv(Inv(x) & Inv(y))) = (0 .. W - 1) \ Bits(Inv(x) & Inv(y))
  BY <1>1, BitsOfInv, BitsOfAnd
<1>3. Bits(x) \subseteq 0 .. W - 1 /\ Bits(y) \subseteq 0 .. W - 1  BY DEF Bits
<1>4. (x | y) = Inv(Inv(x) & Inv(y))  BY DEF |
<1>5. Bits(x | y) = Bits(x) \cup Bits(y)  BY <1>2, <1>3, <1>4
<1> QED  BY <1>1, <1>4, <1>5, InvIsWord

LEMMA BitsOfXor ==
  ASSUME NEW x \in Word, NEW y \in Word
  PROVE  (x ^^ y) \in Word /\ Bits(x ^^ y) = (Bits(x) \ Bits(y)) \cup (Bits(y) \ Bits(x))
<1>1. (x | y) \in Word /\ (x & y) \in Word /\ Inv(x & y) \in Word
  BY BitsOfInv, BitsOfAnd, BitsOfOr
<1>2. /\ Bits(x | y) = Bits(x) \cup Bits(y) /\ Bits(x & y) = Bits(x) \cap Bits(y)
      /\ Bits(Inv(x & y)) = (0 .. W - 1) \ Bits(x & y)
      /\ Bits((x | y) & Inv(x & y)) = Bits(x | y) \cap Bits(Inv(x & y))
      /\ ((x | y) & Inv(x & y)) \in Word
  BY <1>1, BitsOfInv, BitsOfAnd, BitsOfOr
<1>3. Bits(x) \subseteq 0 .. W - 1 /\ Bits(y) \subseteq 0 .. W - 1  BY DEF Bits
<1>4. (x ^^ y) = (x | y) & Inv(x & y)  BY DEF ^^
<1> QED  BY <1>2, <1>3, <1>4

LEMMA DisjointSum ==
  ASSUME NEW x \in Word, NEW y \in Word, NEW z \in Word,
         Bits(x) \cap Bits(y) = {}, Bits(z) = Bits(x) \cup Bits(y)
  PROVE  z = x + y
<1>1. W \in Nat /\ x \in 0 .. Power[W] - 1 /\ y \in 0 .. Power[W] - 1 /\ z \in 0 .. Power[W] - 1
  BY Given DEF Word
<1>2. \A k \in 0 .. W - 1 : (Bit(z, k) <=> Bit(x, k) \/ Bit(y, k)) /\ ~ (Bit(x, k) /\ Bit(y, k))
  <2>1. TAKE k \in 0 .. W - 1
  <2>2. /\ k \in Bits(x) <=> Bit(x, k)
        /\ k \in Bits(y) <=> Bit(y, k)
        /\ k \in Bits(z) <=> Bit(z, k)
    BY DEF Bits
  <2> QED  BY <2>2
<1> QED  BY <1>1, <1>2, SumsOfParts

LEMMA BitsOfZero == Bits(0) = {}
<1>1. ASSUME NEW k \in 0 .. W - 1 PROVE ~ Bit(0, k)
  <2>1. Power[k] \in Nat /\ Power[k] >= 1  BY PowerFacts
  <2>2. 0 \div Power[k] = 0  BY <2>1
  <2> QED  BY <2>2 DEF Bit
<1> QED  BY <1>1 DEF Bits

(* Words with the same bits are the same.                                  *)
LEMMA SameBits ==
  ASSUME NEW x \in Word, NEW y \in Word, Bits(x) = Bits(y)
  PROVE  x = y
<1>1. y \in Nat /\ x \in Nat  BY Given
<1>2. x = y + 0
  <2>1. Bits(y) \cap Bits(0) = {} /\ Bits(x) = Bits(y) \cup Bits(0)  BY BitsOfZero
  <2> QED  BY <2>1, Given, DisjointSum
<1> QED  BY <1>1, <1>2

(* The operators as numbers.                                               *)
LEMMA AsNumbers ==
  ASSUME NEW x \in Word, NEW y \in Word
  PROVE  /\ (x & y) \in Word /\ (x & y) <= x /\ (x & y) <= y /\ (x & y) = (y & x)
         /\ Inv(x) \in Word /\ Inv(x) = WordMod - 1 - x
         /\ (x & Inv(y)) = x - (x & y)
         /\ (x | y) \in Word /\ (x | y) = x + y - (x & y) /\ (x | y) = (y | x)
         /\ (x ^^ y) \in Word /\ (x ^^ y) = x + y - 2 * (x & y)
<1> DEFINE a == x & y
           d == x & Inv(y)
           e == y & Inv(x)
           o == x | y
           z == x ^^ y
<1>1. a \in Word /\ d \in Word /\ e \in Word /\ o \in Word /\ z \in Word
      /\ Inv(x) \in Word /\ Inv(y) \in Word /\ (y & x) \in Word /\ (y | x) \in Word
  BY BitsOfAnd, BitsOfInv, BitsOfOr, BitsOfXor
<1>2. Bits(x) \subseteq 0 .. W - 1 /\ Bits(y) \subseteq 0 .. W - 1  BY DEF Bits
<1>3. /\ Bits(a) = Bits(x) \cap Bits(y) /\ Bits(d) = Bits(x) \ Bits(y)
      /\ Bits(e) = Bits(y) \ Bits(x) /\ Bits(o) = Bits(x) \cup Bits(y)
      /\ Bits(z) = (Bits(x) \ Bits(y)) \cup (Bits(y) \ Bits(x))
      /\ Bits(y & x) = Bits(x) \cap Bits(y) /\ Bits(y | x) = Bits(x) \cup Bits(y)
  BY <1>1, <1>2, BitsOfAnd, BitsOfInv, BitsOfOr, BitsOfXor
<1>4. a = (y & x) /\ o = (y | x)
  <2> HIDE DEF a, o
  <2> QED  BY <1>1, <1>3, SameBits
<1> HIDE DEF a, d, e, o, z
<1>5. x = a + d  BY <1>1, <1>3, DisjointSum
<1>6. y = a + e  BY <1>1, <1>3, DisjointSum
<1>7. o = x + e  BY <1>1, <1>3, DisjointSum
<1>8. z = d + e  BY <1>1, <1>3, DisjointSum
<1>9. x \in Nat /\ y \in Nat /\ a \in Nat /\ d \in Nat /\ e \in Nat  BY <1>1, Given
<1>10. /\ a <= x /\ a <= y /\ d = x - a /\ o = x + y - a /\ z = x + y - 2 * a
  BY <1>5, <1>6, <1>7, <1>8, <1>9
<1> QED  BY <1>1, <1>4, <1>10 DEF a, d, o, z, Inv
-----------------------------------------------------------------------------
(***************************************************************************)
(* Sums, differences and products of words.                                *)
(***************************************************************************)
LEMMA Wraps ==
  ASSUME NEW m \in Nat, m >= 1, NEW c \in Int
  PROVE  /\ c % m \in 0 .. m - 1
         /\ c \in 0 .. m - 1 => c % m = c
         /\ c \in m .. 2 * m - 1 => c % m = c - m
         /\ c \in -m .. -1 => c % m = c + m
OBVIOUS

LEMMA SumWord ==
  ASSUME NEW a \in Word, NEW b \in Word
  PROVE  /\ (a \oplus b) \in Word
         /\ (a \oplus b) = IF a + b < WordMod THEN a + b ELSE a + b - WordMod
         /\ (a \ominus b) \in Word
         /\ (a \ominus b) = IF b <= a THEN a - b ELSE a - b + WordMod
         /\ Double(a) = (a \oplus a)
<1> DEFINE m == WordMod
<1>1. m \in Nat /\ m >= 1 /\ a \in 0 .. m - 1 /\ b \in 0 .. m - 1  BY Given
<1>2. /\ (a \oplus b) = (a + b) % m /\ (a \ominus b) = (a - b) % m
      /\ Double(a) = (a * 2) % m /\ (a \oplus a) = (a + a) % m /\ Word = 0 .. m - 1
  BY DEF \oplus, \ominus, Double, Word
<1> HIDE DEF m
<1>3. /\ a + b \in Int /\ a - b \in Int /\ a * 2 = a + a
      /\ a + b \in 0 .. m - 1 \/ a + b \in m .. 2 * m - 1
      /\ a - b \in 0 .. m - 1 \/ a - b \in -m .. -1
  BY <1>1
<1>4. ASSUME NEW c \in Int, c \in 0 .. m - 1 \/ c \in m .. 2 * m - 1 \/ c \in -m .. -1
      PROVE  c % m = IF c < 0 THEN c + m ELSE IF c < m THEN c ELSE c - m
  <2>1. CASE c \in 0 .. m - 1
    <3>1. c % m = c  BY <1>1, <2>1, Wraps
    <3> QED  BY <1>1, <2>1, <3>1
  <2>2. CASE c \in m .. 2 * m - 1
    <3>1. c % m = c - m  BY <1>1, <2>2, Wraps
    <3> QED  BY <1>1, <2>2, <3>1
  <2>3. CASE c \in -m .. -1
    <3>1. c % m = c + m  BY <1>1, <2>3, Wraps
    <3> QED  BY <1>1, <2>3, <3>1
  <2> QED  BY <1>4, <2>1, <2>2, <2>3
<1> DEFINE s == a + b
           d == a - b
<1>5. /\ s % m = IF s < 0 THEN s + m ELSE IF s < m THEN s ELSE s - m
      /\ d % m = IF d < 0 THEN d + m ELSE IF d < m THEN d ELSE d - m
  <2>1. /\ s \in Int /\ (s \in 0 .. m - 1 \/ s \in m .. 2 * m - 1)
        /\ d \in Int /\ (d \in 0 .. m - 1 \/ d \in -m .. -1)
    BY <1>3
  <2> HIDE DEF s, d
  <2> QED  BY <1>4, <2>1
<1>7. s % m = (IF a + b < m THEN a + b ELSE a + b - m)
      /\ d % m = (IF b <= a THEN a - b ELSE a - b + m)
  BY <1>1, <1>5
<1>6. (a + b) % m \in 0 .. m - 1 /\ (a - b) % m \in 0 .. m - 1
  BY <1>1, <1>3, Wraps
<1> QED  BY <1>2, <1>3, <1>6, <1>7 DEF m

LEMMA NegWord ==
  ASSUME NEW a \in Word
  PROVE  /\ Neg(a) \in Word
         /\ Neg(a) = IF a = 0 THEN 0 ELSE WordMod - a
         /\ Double(a) \in Word
         /\ Double(a) = IF 2 * a < WordMod THEN 2 * a ELSE 2 * a - WordMod
<1>1. a \in Nat /\ WordMod \in Nat /\ 0 \in Word  BY Given
<1>2. Neg(a) \in Word /\ Neg(a) = IF a <= 0 THEN 0 - a ELSE 0 - a + WordMod
  BY <1>1, SumWord DEF Neg
<1>3. Double(a) \in Word /\ Double(a) = IF a + a < WordMod THEN a + a ELSE a + a - WordMod
  BY SumWord
<1> QED  BY <1>1, <1>2, <1>3

(* A number plus a multiple of the modulus.                                *)
LEMMA ModShift ==
  ASSUME NEW m \in Nat, m >= 1, NEW q \in Int, NEW r \in 0 .. m - 1
  PROVE  (m * q + r) % m = r
OBVIOUS

LEMMA ModParts ==
  ASSUME NEW m \in Nat, m >= 1, NEW c \in Int
  PROVE  \E q \in Int : c = m * q + (c % m)
<1>1. c = m * (c \div m) + (c % m) /\ c \div m \in Int  OBVIOUS
<1> QED  BY <1>1

(* Remainders of the same number plus a multiple are the same.             *)
LEMMA SameRemainder ==
  ASSUME NEW m \in Nat, m >= 1, NEW c \in Int, NEW d \in Int, NEW q \in Int, c = m * q + d
  PROVE  c % m = d % m
<1>1. PICK p \in Int : d = m * p + (d % m)  BY ModParts
<1>2. d % m \in 0 .. m - 1  BY Wraps
<1> DEFINE r == d % m
           s == q + p
<1>3. s \in Int /\ r \in 0 .. m - 1 /\ d = m * p + r  BY <1>1, <1>2
<1> HIDE DEF r
<1>4. c = m * s + r
  <2>1. m * q + m * p = m * s  OBVIOUS
  <2> QED  BY <1>3, <2>1
<1> HIDE DEF s
<1>5. c % m = r  BY <1>3, <1>4, ModShift
<1> QED  BY <1>5 DEF r

LEMMA Constant ==
  ASSUME NEW c \in Int
  PROVE  /\ K(c) \in Word
         /\ c \in Word => K(c) = c
         /\ K(-c - 1) = Inv(K(c))
         /\ K(-c) = Neg(K(c))
<1> DEFINE m == WordMod
           r == c % m
<1>1. m \in Nat /\ m >= 1 /\ Word = 0 .. m - 1  BY Given DEF Word
<1>2. K(c) = r /\ K(-c - 1) = (-c - 1) % m /\ K(-c) = (-c) % m  BY DEF K
<1> HIDE DEF m
<1>3. r \in 0 .. m - 1 /\ (c \in 0 .. m - 1 => r = c)  BY <1>1, Wraps
<1>4. PICK q \in Int : c = m * q + r  BY <1>1, ModParts
<1> HIDE DEF r
<1>5. (-c - 1) % m = m - 1 - r
  <2> DEFINE t == -q - 1
             u == m - 1 - r
  <2>1. t \in Int /\ u \in 0 .. m - 1 /\ -c - 1 \in Int  BY <1>1, <1>3
  <2>2. -c - 1 = m * t + u
    <3>1. m * t = -(m * q) - m  BY <1>1
    <3> QED  BY <1>1, <1>3, <1>4, <3>1
  <2> HIDE DEF t, u
  <2>3. (-c - 1) % m = u  BY <1>1, <2>1, <2>2, ModShift
  <2> QED  BY <2>3 DEF u
<1>6. (-c) % m = (-r) % m
  <2> DEFINE t == -q
  <2>1. t \in Int /\ -c \in Int /\ -r \in Int  BY <1>3
  <2>2. -c = m * t + (-r)
    <3>1. m * t = -(m * q)  BY <1>1
    <3> QED  BY <1>1, <1>3, <1>4, <3>1
  <2> HIDE DEF t
  <2> QED  BY <1>1, <2>1, <2>2, SameRemainder
<1>7. Neg(r) = (0 - r) % m /\ Inv(r) = m - 1 - r  BY DEF Neg, Inv, \ominus, m
<1>8. 0 - r = -r  BY <1>3
<1> QED  BY <1>1, <1>2, <1>3, <1>5, <1>6, <1>7, <1>8

(* Products.                                                               *)
LEMMA ProductWord ==
  ASSUME NEW a \in Word, NEW b \in Word
  PROVE  /\ (a \otimes b) \in Word
         /\ (a \otimes b) = (b \otimes a)
         /\ (a \otimes 2) = Double(a)
         /\ (0 \otimes b) = 0
<1> DEFINE m == WordMod
<1>1. m \in Nat /\ m >= 1 /\ a \in Nat /\ b \in Nat /\ Word = 0 .. m - 1  BY Given DEF Word
<1>2. /\ (a \otimes b) = (a * b) % m /\ (b \otimes a) = (b * a) % m
      /\ (a \otimes 2) = (a * 2) % m /\ Double(a) = (a * 2) % m
      /\ (0 \otimes b) = (0 * b) % m
  BY DEF \otimes, Double
<1> HIDE DEF m
<1>3. a * b \in Int /\ a * b = b * a /\ 0 * b = 0  BY <1>1
<1>4. (a * b) % m \in 0 .. m - 1 /\ 0 % m = 0  BY <1>1, <1>3, Wraps
<1> QED  BY <1>1, <1>2, <1>3, <1>4

LEMMA ProductSum ==
  ASSUME NEW a \in Word, NEW b \in Word, NEW c \in Word, NEW x \in Word, NEW y \in Word,
         a = c + x, b = c + y, NEW o \in Word, o = c + x + y
  PROVE  ((o \otimes c) \oplus (x \otimes y)) = (a \otimes b)
<1> DEFINE m == WordMod
           s == (o * c) % m
           t == (x * y) % m
<1>1. m \in Nat /\ m >= 1 /\ a \in Nat /\ b \in Nat /\ c \in Nat /\ x \in Nat /\ y \in Nat
      /\ o \in Nat
  BY Given
<1>2. ((o \otimes c) \oplus (x \otimes y)) = (s + t) % m /\ (a \otimes b) = (a * b) % m
  BY DEF \otimes, \oplus
<1> HIDE DEF m
<1>3. o * c \in Int /\ x * y \in Int  BY <1>1
<1>4. s \in 0 .. m - 1 /\ t \in 0 .. m - 1  BY <1>1, <1>3, Wraps
<1>5. PICK p \in Int : o * c = m * p + s  BY <1>1, <1>3, ModParts
<1>6. PICK q \in Int : x * y = m * q + t  BY <1>1, <1>3, ModParts
<1>7. a * b = o * c + x * y
  <2>1. (c + x) * (c + y) = (c + x + y) * c + x * y  BY <1>1
  <2> QED  BY <2>1
<1> DEFINE z == p + q
<1> HIDE DEF s, t
<1>8. z \in Int /\ a * b = m * z + (s + t)
  <2>1. m * p + m * q = m * z  BY <1>1
  <2> QED  BY <1>1, <1>3, <1>4, <1>5, <1>6, <1>7, <2>1
<1>9. a * b \in Int /\ s + t \in Int  BY <1>1, <1>4
<1> HIDE DEF z
<1>10. (a * b) % m = (s + t) % m
  <2> DEFINE u == a * b
             v == s + t
  <2>1. u \in Int /\ v \in Int /\ u = m * z + v  BY <1>8, <1>9
  <2> HIDE DEF u, v
  <2>2. u % m = v % m  BY <1>1, <1>8, <2>1, SameRemainder
  <2> QED  BY <2>2 DEF u, v
<1> QED  BY <1>2, <1>10
-----------------------------------------------------------------------------
(***************************************************************************)
(* The rewriting rules.                                                    *)
(***************************************************************************)
LEMMA MinusOne == K(-1) \in Word /\ K(-1) = WordMod - 1 /\ K(-1) = Inv(0)
<1>1. 0 \in Word /\ WordMod \in Nat  BY Given
<1>2. K(0) = 0 /\ K(-0 - 1) = Inv(K(0)) /\ K(-0 - 1) \in Word  BY <1>1, Constant
<1>3. -0 - 1 = -1  OBVIOUS
<1> QED  BY <1>1, <1>2, <1>3 DEF Inv

LEMMA NotRules ==
  ASSUME NEW a \in Word
  PROVE  NotByShift(a) = Inv(a) /\ NotByDouble(a) = Inv(a)
<1> DEFINE o == K(-1)
           d == Double(a)
           s == a \oplus o
           t == d \ominus o
<1>1. WordMod \in Nat /\ WordMod >= 1 /\ a \in Nat /\ a < WordMod  BY Given
<1>2. o \in Word /\ o = WordMod - 1  BY MinusOne
<1>3. d \in Word /\ d = IF 2 * a < WordMod THEN 2 * a ELSE 2 * a - WordMod  BY NegWord
<1>4. d \in Nat /\ d < WordMod  BY <1>3, Given
<1> HIDE DEF o, d
<1>5. s \in Word /\ s = IF a + o < WordMod THEN a + o ELSE a + o - WordMod  BY <1>2, SumWord
<1>6. t \in Word /\ t = IF o <= d THEN d - o ELSE d - o + WordMod  BY <1>2, <1>3, SumWord
<1>7. s \in Nat /\ t \in Nat  BY <1>5, <1>6, Given
<1> HIDE DEF s, t
<1>8. (s \ominus d) = IF d <= s THEN s - d ELSE s - d + WordMod  BY <1>3, <1>5, SumWord
<1>9. (a \ominus t) = IF t <= a THEN a - t ELSE a - t + WordMod  BY <1>6, SumWord
<1>10. (s \ominus d) = WordMod - 1 - a
  BY <1>1, <1>2, <1>3, <1>4, <1>5, <1>7, <1>8
<1>11. (a \ominus t) = WordMod - 1 - a
  BY <1>1, <1>2, <1>3, <1>4, <1>6, <1>7, <1>9
<1> QED  BY <1>10, <1>11 DEF NotByShift, NotByDouble, Inv, s, t, d, o

LEMMA OrRules ==
  ASSUME NEW a \in Word, NEW b \in Word
  PROVE  OrBySum(a, b) = (a | b) /\ OrByCarry(a, b) = (a | b)
<1> DEFINE c == a & b
           o == a | b
           z == a ^^ b
           d == a & Inv(b)
           m == WordMod
<1>1. /\ c \in Word /\ c <= a /\ c <= b /\ o \in Word /\ z \in Word /\ Inv(b) \in Word
      /\ o = a + b - c /\ z = a + b - 2 * c /\ d = a - c /\ c = (b & a)
  BY AsNumbers
<1>2. d \in Word  BY <1>1, AsNumbers
<1>3. /\ m \in Nat /\ a \in Nat /\ b \in Nat /\ c \in Nat /\ o \in Nat /\ z \in Nat /\ d \in Nat
      /\ a < m /\ b < m /\ o < m /\ z < m /\ m >= 3 /\ 1 \in Word
  <2>1. Power[1] = 2 /\ Power[2] = 4
    <3>1. Power[0 + 1] = 2 * Power[0] /\ Power[1 + 1] = 2 * Power[1]  BY PowerFacts
    <3> QED  BY <3>1, PowerFacts
  <2>2. W - 2 \in Nat /\ 2 + (W - 2) = W  BY Given
  <2>3. Power[W] = Power[2] * Power[W - 2] /\ Power[W - 2] >= 1 /\ Power[W - 2] \in Nat
    <3>1. Power[2 + (W - 2)] = Power[2] * Power[W - 2]  BY <2>2, PowerSum
    <3>2. Power[W - 2] \in Nat /\ Power[W - 2] >= 1  BY <2>2, PowerFacts
    <3> QED  BY <2>2, <3>1, <3>2
  <2>4. WordMod >= 3  BY <2>1, <2>3, Given
  <2>5. 1 \in Word  BY <2>4, Given
  <2> QED  BY <1>1, <1>2, <2>4, <2>5, Given
<1> DEFINE s == a \oplus z
           t == a \oplus b
<1> HIDE DEF c, o, z, d, m
<1>4. s \in Word /\ s = IF a + z < m THEN a + z ELSE a + z - m  BY <1>1, SumWord DEF m
<1>5. t \in Word /\ t = IF a + b < m THEN a + b ELSE a + b - m  BY SumWord DEF m
<1>6. s \in Nat /\ t \in Nat  BY <1>4, <1>5, Given
<1> HIDE DEF s, t
<1>7. (s \ominus d) = IF d <= s THEN s - d ELSE s - d + m  BY <1>2, <1>4, SumWord DEF m
<1>8. (s \ominus d) = o  BY <1>1, <1>3, <1>4, <1>6, <1>7
<1> DEFINE u == t \oplus 1
           v == Inv(c)
<1>9. u \in Word /\ u = IF t + 1 < m THEN t + 1 ELSE t + 1 - m  BY <1>3, <1>5, SumWord DEF m
<1>10. v \in Word /\ v = m - 1 - c  BY <1>1, AsNumbers DEF m
<1>11. u \in Nat /\ v \in Nat  BY <1>9, <1>10, Given
<1> HIDE DEF u, v
<1>12. (u \oplus v) = IF u + v < m THEN u + v ELSE u + v - m  BY <1>9, <1>10, SumWord DEF m
<1>13. (u \oplus v) = o  BY <1>1, <1>3, <1>5, <1>6, <1>9, <1>10, <1>11, <1>12
<1>14. OrBySum(a, b) = (s \ominus d) /\ OrByCarry(a, b) = (u \oplus v)
  BY <1>1 DEF OrBySum, OrByCarry, s, z, d, u, t, v
<1> QED  BY <1>8, <1>13, <1>14 DEF o

LEMMA BitRules ==
  ASSUME NEW a \in Word, NEW b \in Word, NEW m \in Word
  PROVE  NandMasked(a, b, m) = Inv(a & b) /\ AndByXor(a, b) = (a & b)
<1> DEFINE Full == 0 .. W - 1
<1>1. Bits(a) \subseteq Full /\ Bits(b) \subseteq Full /\ Bits(m) \subseteq Full  BY DEF Bits
<1>2. Inv(a) \in Word /\ Inv(b) \in Word /\ Inv(m) \in Word
      /\ Bits(Inv(a)) = Full \ Bits(a) /\ Bits(Inv(b)) = Full \ Bits(b)
      /\ Bits(Inv(m)) = Full \ Bits(m)
  BY BitsOfInv
<1> DEFINE p == (a & m) | (Inv(a) & Inv(m))
           q == (b & m) | (Inv(b) & Inv(m))
<1>3. ASSUME NEW x \in Word, Inv(x) \in Word, Bits(Inv(x)) = Full \ Bits(x)
      PROVE  LET y == (x & m) | (Inv(x) & Inv(m))
             IN  y \in Word /\ Bits(y) = (Bits(x) \cap Bits(m))
                                         \cup ((Full \ Bits(x)) \cap (Full \ Bits(m)))
  <2>1. (x & m) \in Word /\ (Inv(x) & Inv(m)) \in Word
        /\ Bits(x & m) = Bits(x) \cap Bits(m) /\ Bits(Inv(x) & Inv(m)) = Bits(Inv(x)) \cap Bits(Inv(m))
    BY <1>2, <1>3, BitsOfAnd
  <2> QED  BY <1>2, <1>3, <2>1, BitsOfOr
<1>4. /\ p \in Word
      /\ Bits(p) = (Bits(a) \cap Bits(m)) \cup ((Full \ Bits(a)) \cap (Full \ Bits(m)))
      /\ q \in Word
      /\ Bits(q) = (Bits(b) \cap Bits(m)) \cup ((Full \ Bits(b)) \cap (Full \ Bits(m)))
  BY <1>2, <1>3
<1> DEFINE o == a | b
           z == p ^^ q
           c == a & b
           y == a ^^ b
<1>5. o \in Word /\ Bits(o) = Bits(a) \cup Bits(b) /\ Inv(o) \in Word /\ Bits(Inv(o)) = Full \ Bits(o)
  BY BitsOfOr, BitsOfInv
<1>6. c \in Word /\ Bits(c) = Bits(a) \cap Bits(b) /\ Inv(c) \in Word /\ Bits(Inv(c)) = Full \ Bits(c)
  BY BitsOfAnd, BitsOfInv
<1>7. y \in Word /\ Bits(y) = (Bits(a) \ Bits(b)) \cup (Bits(b) \ Bits(a))
      /\ Inv(y) \in Word /\ Bits(Inv(y)) = Full \ Bits(y)
  BY BitsOfXor, BitsOfInv
<1> HIDE DEF p, q, o, c, y
<1>8. z \in Word /\ Bits(z) = (Bits(p) \ Bits(q)) \cup (Bits(q) \ Bits(p))
  BY <1>4, BitsOfXor
<1> HIDE DEF z
<1>9. (z | Inv(o)) \in Word /\ Bits(z | Inv(o)) = Bits(z) \cup Bits(Inv(o))
  BY <1>5, <1>8, BitsOfOr
<1>10. (o & Inv(y)) \in Word /\ Bits(o & Inv(y)) = Bits(o) \cap Bits(Inv(y))
  BY <1>5, <1>7, BitsOfAnd
<1> HIDE DEF Full
<1>11. Bits(z | Inv(o)) = Bits(Inv(c))
  BY <1>1, <1>4, <1>5, <1>6, <1>8, <1>9
<1>12. Bits(o & Inv(y)) = Bits(c)
  BY <1>1, <1>5, <1>6, <1>7, <1>10
<1>13. (z | Inv(o)) = Inv(c) /\ (o & Inv(y)) = c
  BY <1>6, <1>9, <1>10, <1>11, <1>12, SameBits
<1> QED  BY <1>13 DEF NandMasked, AndByXor, z, p, q, o, c, y

LEMMA ProductRules ==
  ASSUME NEW a \in Word, NEW b \in Word
  PROVE  Product(a, b) = (a \otimes b) /\ ProductByNor(a, b) = (a \otimes b)
<1> DEFINE c == a & b
           o == a | b
           x == a & Inv(b)
           y == b & Inv(a)
           w == Inv(a | Inv(b))
<1>1. /\ c \in Word /\ o \in Word /\ o = a + b - c /\ x = a - c /\ c = (b & a)
      /\ Inv(a) \in Word /\ Inv(b) \in Word
  BY AsNumbers
<1>2. y = b - (b & a)  BY AsNumbers
<1>3. x \in Word /\ y \in Word  BY <1>1, AsNumbers
<1>4. w = y
  <2>1. (a | Inv(b)) \in Word /\ Bits(a | Inv(b)) = Bits(a) \cup Bits(Inv(b))
        /\ Bits(Inv(b)) = (0 .. W - 1) \ Bits(b) /\ Bits(Inv(a)) = (0 .. W - 1) \ Bits(a)
    BY <1>1, BitsOfOr, BitsOfInv
  <2>2. w \in Word /\ Bits(w) = (0 .. W - 1) \ Bits(a | Inv(b))  BY <2>1, BitsOfInv
  <2>3. Bits(y) = Bits(b) \cap Bits(Inv(a))  BY <1>1, BitsOfAnd
  <2>4. Bits(b) \subseteq 0 .. W - 1  BY DEF Bits
  <2> HIDE DEF w, y
  <2> QED  BY <1>3, <2>1, <2>2, <2>3, <2>4, SameBits
<1>5. a \in Nat /\ b \in Nat /\ c \in Nat /\ x \in Nat /\ y \in Nat /\ o \in Nat
  BY <1>1, <1>3, Given
<1> HIDE DEF c, o, x, y, w
<1>6. a = c + x /\ b = c + y /\ o = c + x + y  BY <1>1, <1>2, <1>5
<1>7. ((o \otimes c) \oplus (x \otimes y)) = (a \otimes b)  BY <1>1, <1>3, <1>6, ProductSum
<1>8. (x \otimes y) = (y \otimes x)  BY <1>3, ProductWord
<1> QED  BY <1>4, <1>7, <1>8 DEF Product, ProductByNor, c, o, x, y, w
-----------------------------------------------------------------------------
(***************************************************************************)
(* The constants of the code.                                              *)
(***************************************************************************)
(* All results are words.                                                  *)
LEMMA Closed ==
  ASSUME NEW a \in Word, NEW b \in Word
  PROVE  /\ Inv(a) \in Word /\ Neg(a) \in Word /\ Double(a) \in Word
         /\ (a & b) \in Word /\ (a | b) \in Word /\ (a ^^ b) \in Word
         /\ (a \oplus b) \in Word /\ (a \ominus b) \in Word /\ (a \otimes b) \in Word
BY AsNumbers, SumWord, NegWord, ProductWord

LEMMA SmallWords == {0, 1, 2, 3, 4, 5, 6} \subseteq Word /\ WordMod >= 8
<1>1. /\ Power[0 + 1] = 2 * Power[0] /\ Power[1 + 1] = 2 * Power[1]
      /\ Power[2 + 1] = 2 * Power[2] /\ Power[0] = 1
  BY PowerFacts
<1>2. Power[3] = 8  BY <1>1
<1>3. W - 3 \in Nat /\ 3 + (W - 3) = W  BY Given
<1>4. Power[W] = Power[3] * Power[W - 3] /\ Power[W - 3] >= 1 /\ Power[W - 3] \in Nat
  <2>1. Power[3 + (W - 3)] = Power[3] * Power[W - 3]  BY <1>3, PowerSum
  <2>2. Power[W - 3] \in Nat /\ Power[W - 3] >= 1  BY <1>3, PowerFacts
  <2> QED  BY <1>3, <2>1, <2>2
<1>5. WordMod >= 8  BY <1>2, <1>4, Given
<1> QED  BY <1>5, Given

(* A constant has its own bits, as far as the word goes.                   *)
LEMMA BitsOfConstant ==
  ASSUME NEW c \in Int, NEW k \in 0 .. W - 1
  PROVE  Bit(K(c), k) <=> (c \div Power[k]) % 2 = 1
<1> DEFINE m == WordMod
           p == Power[k]
           h == Power[W - 1 - k]
           r == c % m
           s == r \div p
           t == r % p
<1>1. k \in Nat /\ W - 1 - k \in Nat /\ k + (W - 1 - k) = W - 1 /\ W - 1 \in Nat
      /\ (W - 1) + 1 = W
  BY Given
<1>2. m = 2 * (p * h) /\ m \in Nat /\ m >= 1 /\ p \in Nat /\ p >= 1 /\ h \in Nat
  <2>1. Power[W - 1] = p * h  BY <1>1, PowerSum
  <2>2. Power[W] = 2 * Power[W - 1]  BY <1>1, PowerFacts
  <2> QED  BY <1>1, <2>1, <2>2, Given, PowerFacts
<1> HIDE DEF m, p, h
<1>3. r \in 0 .. m - 1  BY <1>2, Wraps
<1>4. PICK q \in Int : c = m * q + r  BY <1>2, ModParts
<1> HIDE DEF r
<1>5. r \in Nat /\ s \in Nat /\ t \in 0 .. p - 1 /\ r = p * s + t
  BY <1>2, <1>3
<1> HIDE DEF s, t
<1> DEFINE e == h * q
<1>6. e \in Int /\ m * q = p * (2 * e)
  <2>1. 2 * (p * h) * q = p * (2 * (h * q))  BY <1>2
  <2> QED  BY <1>2, <2>1
<1> HIDE DEF e
<1> DEFINE d == 2 * e + s
<1>7. d \in Int /\ c = p * d + t
  <2>1. p * (2 * e) + p * s = p * d  BY <1>2, <1>5, <1>6
  <2> QED  BY <1>2, <1>4, <1>5, <1>6, <2>1
<1>8. d % 2 = s % 2
  <2>1. d = 2 * e + s  OBVIOUS
  <2> HIDE DEF d
  <2> QED  BY <1>5, <1>6, <1>7, <2>1, SameRemainder
<1> HIDE DEF d
<1>9. c \div p = d
  <2>1. ASSUME NEW f \in Nat, f >= 1, NEW u \in Int, NEW v \in 0 .. f - 1
        PROVE  (f * u + v) \div f = u
    BY <2>1
  <2> QED  BY <1>2, <1>5, <1>7, <2>1
<1>10. K(c) = r  BY DEF K, r, m
<1>11. Bit(r, k) <=> s % 2 = 1  BY DEF Bit, s, p
<1>12. (c \div Power[k]) % 2 = d % 2  BY <1>9 DEF p
<1> QED  BY <1>8, <1>10, <1>11, <1>12

(* Constants that are each other's negation, bit by bit or as a number.    *)
LEMMA Opposites ==
  /\ K(\h45552f40) = Inv(K(-\h45552f41)) /\ K(\h45552f41) = Neg(K(-\h45552f41))
  /\ K(-\h293bfff5) = Inv(K(\h293bfff4))
  /\ K(-\h2f63284) = Inv(K(\h2f63283))
  /\ K(-\h1aa40b25) = Inv(K(\h1aa40b24))
  /\ K(-\h528f640f) = Inv(K(\h528f640e))
  /\ K(-\h5c35d8cf) = Inv(K(\h5c35d8ce))
  /\ K(-\h22c5a958) = Neg(K(\h22c5a958))
  /\ K(-3) = Inv(2) /\ K(-4) = Inv(3) /\ K(-5) = Inv(4)
<1>1. ASSUME NEW c \in Int, NEW d \in Int, d = -c - 1 PROVE K(d) = Inv(K(c))
  BY <1>1, Constant
<1>2. ASSUME NEW c \in Int, NEW d \in Int, d = -c PROVE K(d) = Neg(K(c))
  BY <1>2, Constant
<1>3. K(2) = 2 /\ K(3) = 3 /\ K(4) = 4  BY SmallWords, Constant
<1>4. K(\h45552f40) = Inv(K(-\h45552f41)) /\ K(\h45552f41) = Neg(K(-\h45552f41))
  BY <1>1, <1>2
<1>5. K(-\h293bfff5) = Inv(K(\h293bfff4)) /\ K(-\h2f63284) = Inv(K(\h2f63283))
  BY <1>1
<1>6. K(-\h1aa40b25) = Inv(K(\h1aa40b24)) /\ K(-\h528f640f) = Inv(K(\h528f640e))
  BY <1>1
<1>7. K(-\h5c35d8cf) = Inv(K(\h5c35d8ce)) /\ K(-\h22c5a958) = Neg(K(\h22c5a958))
  BY <1>1, <1>2
<1>8. K(-3) = Inv(K(2)) /\ K(-4) = Inv(K(3)) /\ K(-5) = Inv(K(4))
  BY <1>1
<1> QED  BY <1>3, <1>4, <1>5, <1>6, <1>7, <1>8

LEMMA PowerValues ==
  /\ Power[0] = 1 /\ Power[1] = 2 /\ Power[2] = 4 /\ Power[3] = 8
  /\ Power[4] = 16 /\ Power[5] = 32 /\ Power[6] = 64 /\ Power[7] = 128
  /\ Power[8] = 256 /\ Power[9] = 512 /\ Power[10] = 1024 /\ Power[11] = 2048
  /\ Power[12] = 4096 /\ Power[13] = 8192 /\ Power[14] = 16384 /\ Power[15] = 32768
  /\ Power[16] = 65536 /\ Power[17] = 131072 /\ Power[18] = 262144 /\ Power[19] = 524288
  /\ Power[20] = 1048576 /\ Power[21] = 2097152 /\ Power[22] = 4194304 /\ Power[23] = 8388608
  /\ Power[24] = 16777216 /\ Power[25] = 33554432 /\ Power[26] = 67108864 /\ Power[27] = 134217728
  /\ Power[28] = 268435456 /\ Power[29] = 536870912 /\ Power[30] = 1073741824 /\ Power[31] = 2147483648
<1>1. \A k \in Nat : Power[k + 1] = 2 * Power[k]  BY PowerFacts
<1>2. Power[0] = 1 /\ Power[1] = 2 /\ Power[2] = 4 /\ Power[3] = 8
  <2>1. Power[0 + 1] = 2 * Power[0] /\ Power[1 + 1] = 2 * Power[1] /\ Power[2 + 1] = 2 * Power[2]
    BY <1>1
  <2> QED  BY <2>1, PowerFacts
<1>3. Power[4] = 16 /\ Power[5] = 32 /\ Power[6] = 64 /\ Power[7] = 128
  <2>1. /\ Power[3 + 1] = 2 * Power[3] /\ Power[4 + 1] = 2 * Power[4]
        /\ Power[5 + 1] = 2 * Power[5] /\ Power[6 + 1] = 2 * Power[6]
    BY <1>1
  <2> QED  BY <1>2, <2>1
<1>4. Power[8] = 256 /\ Power[9] = 512 /\ Power[10] = 1024 /\ Power[11] = 2048
  <2>1. /\ Power[7 + 1] = 2 * Power[7] /\ Power[8 + 1] = 2 * Power[8]
        /\ Power[9 + 1] = 2 * Power[9] /\ Power[10 + 1] = 2 * Power[10]
    BY <1>1
  <2> QED  BY <1>3, <2>1
<1>5. Power[12] = 4096 /\ Power[13] = 8192 /\ Power[14] = 16384 /\ Power[15] = 32768
  <2>1. /\ Power[11 + 1] = 2 * Power[11] /\ Power[12 + 1] = 2 * Power[12]
        /\ Power[13 + 1] = 2 * Power[13] /\ Power[14 + 1] = 2 * Power[14]
    BY <1>1
  <2> QED  BY <1>4, <2>1
<1>6. Power[16] = 65536 /\ Power[17] = 131072 /\ Power[18] = 262144 /\ Power[19] = 524288
  <2>1. /\ Power[15 + 1] = 2 * Power[15] /\ Power[16 + 1] = 2 * Power[16]
        /\ Power[17 + 1] = 2 * Power[17] /\ Power[18 + 1] = 2 * Power[18]
    BY <1>1
  <2> QED  BY <1>5, <2>1
<1>7. Power[20] = 1048576 /\ Power[21] = 2097152 /\ Power[22] = 4194304 /\ Power[23] = 8388608
  <2>1. /\ Power[19 + 1] = 2 * Power[19] /\ Power[20 + 1] = 2 * Power[20]
        /\ Power[21 + 1] = 2 * Power[21] /\ Power[22 + 1] = 2 * Power[22]
    BY <1>1
  <2> QED  BY <1>6, <2>1
<1>8. Power[24] = 16777216 /\ Power[25] = 33554432 /\ Power[26] = 67108864 /\ Power[27] = 134217728
  <2>1. /\ Power[23 + 1] = 2 * Power[23] /\ Power[24 + 1] = 2 * Power[24]
        /\ Power[25 + 1] = 2 * Power[25] /\ Power[26 + 1] = 2 * Power[26]
    BY <1>1
  <2> QED  BY <1>7, <2>1
<1>9. Power[28] = 268435456 /\ Power[29] = 536870912 /\ Power[30] = 1073741824 /\ Power[31] = 2147483648
  <2>1. /\ Power[27 + 1] = 2 * Power[27] /\ Power[28 + 1] = 2 * Power[28]
        /\ Power[29 + 1] = 2 * Power[29] /\ Power[30 + 1] = 2 * Power[30]
    BY <1>1
  <2> QED  BY <1>8, <2>1
<1> QED  BY <1>2, <1>3, <1>4, <1>5, <1>6, <1>7, <1>8, <1>9

(* What the bits of three constants say of words.                          *)
Odd(c, k) == (c \div Power[k]) % 2 = 1
Differ(c, d, e, k) == Odd(e, k) <=> ~ (Odd(c, k) <=> Odd(d, k))

LEMMA XorOfConstants ==
  ASSUME NEW c \in Int, NEW d \in Int, NEW e \in Int, \A k \in 0 .. 31 : Differ(c, d, e, k)
  PROVE  (K(c) ^^ K(d)) = K(e)
<1>1. K(c) \in Word /\ K(d) \in Word /\ K(e) \in Word  BY Constant
<1>2. (K(c) ^^ K(d)) \in Word
      /\ Bits(K(c) ^^ K(d)) = (Bits(K(c)) \ Bits(K(d))) \cup (Bits(K(d)) \ Bits(K(c)))
  BY <1>1, BitsOfXor
<1>3. ASSUME NEW k \in 0 .. W - 1
      PROVE  Bit(K(e), k) <=> ~ (Bit(K(c), k) <=> Bit(K(d), k))
  <2>1. k \in 0 .. 31  BY Given
  <2>2. (Bit(K(c), k) <=> Odd(c, k)) /\ (Bit(K(d), k) <=> Odd(d, k)) /\ (Bit(K(e), k) <=> Odd(e, k))
    BY BitsOfConstant DEF Odd
  <2>3. Differ(c, d, e, k)  BY <2>1
  <2> QED  BY <2>2, <2>3 DEF Differ
<1>4. Bits(K(e)) = (Bits(K(c)) \ Bits(K(d))) \cup (Bits(K(d)) \ Bits(K(c)))
  BY <1>3 DEF Bits
<1> QED  BY <1>1, <1>2, <1>4, SameBits

LEMMA XorOfInv ==
  ASSUME NEW a \in Word, NEW b \in Word
  PROVE  (a ^^ Inv(b)) = Inv(a ^^ b) /\ (Inv(a) ^^ b) = Inv(a ^^ b)
<1>1. Inv(a) \in Word /\ Inv(b) \in Word /\ (a ^^ b) \in Word
      /\ Bits(Inv(a)) = (0 .. W - 1) \ Bits(a) /\ Bits(Inv(b)) = (0 .. W - 1) \ Bits(b)
      /\ Bits(a ^^ b) = (Bits(a) \ Bits(b)) \cup (Bits(b) \ Bits(a))
  BY BitsOfInv, BitsOfXor
<1>2. Inv(a ^^ b) \in Word /\ Bits(Inv(a ^^ b)) = (0 .. W - 1) \ Bits(a ^^ b)
  BY <1>1, BitsOfInv
<1>3. /\ (a ^^ Inv(b)) \in Word
      /\ Bits(a ^^ Inv(b)) = (Bits(a) \ Bits(Inv(b))) \cup (Bits(Inv(b)) \ Bits(a))
      /\ (Inv(a) ^^ b) \in Word
      /\ Bits(Inv(a) ^^ b) = (Bits(Inv(a)) \ Bits(b)) \cup (Bits(b) \ Bits(Inv(a)))
  BY <1>1, BitsOfXor
<1>4. Bits(a) \subseteq 0 .. W - 1 /\ Bits(b) \subseteq 0 .. W - 1  BY DEF Bits
<1>5. Bits(a ^^ Inv(b)) = Bits(Inv(a ^^ b)) /\ Bits(Inv(a) ^^ b) = Bits(Inv(a ^^ b))
  BY <1>1, <1>2, <1>3, <1>4
<1> QED  BY <1>2, <1>3, <1>5, SameBits

LEMMA Xors ==
  /\ (K(\h293bfff4) ^^ K(-\h6c6ed0b5)) = K(-\h45552f41)
  /\ (K(\h2f63281) ^^ 2) = K(\h2f63283)
  /\ (K(-\h5c35d8cf) ^^ 5) = K(-\h5c35d8cc)
<1> DEFINE D(k) == /\ Differ(\h293bfff4, \h6c6ed0b4, \h45552f40, k)
                   /\ Differ(\h2f63281, 2, \h2f63283, k)
                   /\ Differ(\h5c35d8ce, 5, \h5c35d8cb, k)
<1>1. D(0)  BY PowerValues, SMT DEF Differ, Odd
<1>2. D(1)  BY PowerValues, SMT DEF Differ, Odd
<1>3. D(2)  BY PowerValues, SMT DEF Differ, Odd
<1>4. D(3)  BY PowerValues, SMT DEF Differ, Odd
<1>5. D(4)  BY PowerValues, SMT DEF Differ, Odd
<1>6. D(5)  BY PowerValues, SMT DEF Differ, Odd
<1>7. D(6)  BY PowerValues, SMT DEF Differ, Odd
<1>8. D(7)  BY PowerValues, SMT DEF Differ, Odd
<1>9. D(8)  BY PowerValues, SMT DEF Differ, Odd
<1>10. D(9)  BY PowerValues, SMT DEF Differ, Odd
<1>11. D(10)  BY PowerValues, SMT DEF Differ, Odd
<1>12. D(11)  BY PowerValues, SMT DEF Differ, Odd
<1>13. D(12)  BY PowerValues, SMT DEF Differ, Odd
<1>14. D(13)  BY PowerValues, SMT DEF Differ, Odd
<1>15. D(14)  BY PowerValues, SMT DEF Differ, Odd
<1>16. D(15)  BY PowerValues, SMT DEF Differ, Odd
<1>17. D(16)  BY PowerValues, SMT DEF Differ, Odd
<1>18. D(17)  BY PowerValues, SMT DEF Differ, Odd
<1>19. D(18)  BY PowerValues, SMT DEF Differ, Odd
<1>20. D(19)  BY PowerValues, SMT DEF Differ, Odd
<1>21. D(20)  BY PowerValues, SMT DEF Differ, Odd
<1>22. D(21)  BY PowerValues, SMT DEF Differ, Odd
<1>23. D(22)  BY PowerValues, SMT DEF Differ, Odd
<1>24. D(23)  BY PowerValues, SMT DEF Differ, Odd
<1>25. D(24)  BY PowerValues, SMT DEF Differ, Odd
<1>26. D(25)  BY PowerValues, SMT DEF Differ, Odd
<1>27. D(26)  BY PowerValues, SMT DEF Differ, Odd
<1>28. D(27)  BY PowerValues, SMT DEF Differ, Odd
<1>29. D(28)  BY PowerValues, SMT DEF Differ, Odd
<1>30. D(29)  BY PowerValues, SMT DEF Differ, Odd
<1>31. D(30)  BY PowerValues, SMT DEF Differ, Odd
<1>32. D(31)  BY PowerValues, SMT DEF Differ, Odd
<1> HIDE DEF D
<1>33. \A k \in 0 .. 31 : D(k)
  <2>1. TAKE k \in 0 .. 31
  <2>2. CASE k \in 0 .. 7
    BY <1>1, <1>2, <1>3, <1>4, <1>5, <1>6, <1>7, <1>8, <2>2
  <2>3. CASE k \in 8 .. 15
    BY <1>9, <1>10, <1>11, <1>12, <1>13, <1>14, <1>15, <1>16, <2>3
  <2>4. CASE k \in 16 .. 23
    BY <1>17, <1>18, <1>19, <1>20, <1>21, <1>22, <1>23, <1>24, <2>4
  <2>5. CASE k \in 24 .. 31
    BY <1>25, <1>26, <1>27, <1>28, <1>29, <1>30, <1>31, <1>32, <2>5
  <2> QED  BY <2>1, <2>2, <2>3, <2>4, <2>5
<1>34. K(2) = 2 /\ K(5) = 5  BY SmallWords, Constant
<1>35. ASSUME NEW c \in Int, NEW d \in Int, d = -c - 1 PROVE K(d) = Inv(K(c)) /\ K(c) \in Word
  BY <1>35, Constant
<1>36. (K(\h293bfff4) ^^ K(\h6c6ed0b4)) = K(\h45552f40)
  <2> DEFINE c == \h293bfff4
             d == \h6c6ed0b4
             e == \h45552f40
  <2>1. c \in Int /\ d \in Int /\ e \in Int  BY SMT
  <2>2. \A k \in 0 .. 31 : Differ(c, d, e, k)  BY <1>33, SMT DEF D
  <2> HIDE DEF c, d, e
  <2>3. (K(c) ^^ K(d)) = K(e)  BY <2>1, <2>2, XorOfConstants
  <2> QED  BY <2>3, SMT DEF c, d, e
<1>37. (K(\h2f63281) ^^ K(2)) = K(\h2f63283)
  <2> DEFINE c == \h2f63281
             d == 2
             e == \h2f63283
  <2>1. c \in Int /\ d \in Int /\ e \in Int  BY SMT
  <2>2. \A k \in 0 .. 31 : Differ(c, d, e, k)  BY <1>33, SMT DEF D
  <2> HIDE DEF c, d, e
  <2>3. (K(c) ^^ K(d)) = K(e)  BY <2>1, <2>2, XorOfConstants
  <2> QED  BY <2>3, SMT DEF c, d, e
<1>38. (K(\h5c35d8ce) ^^ K(5)) = K(\h5c35d8cb)
  <2> DEFINE c == \h5c35d8ce
             d == 5
             e == \h5c35d8cb
  <2>1. c \in Int /\ d \in Int /\ e \in Int  BY SMT
  <2>2. \A k \in 0 .. 31 : Differ(c, d, e, k)  BY <1>33, SMT DEF D
  <2> HIDE DEF c, d, e
  <2>3. (K(c) ^^ K(d)) = K(e)  BY <2>1, <2>2, XorOfConstants
  <2> QED  BY <2>3, SMT DEF c, d, e
<1>39. /\ K(-\h6c6ed0b5) = Inv(K(\h6c6ed0b4)) /\ K(-\h45552f41) = Inv(K(\h45552f40))
       /\ K(-\h5c35d8cf) = Inv(K(\h5c35d8ce)) /\ K(-\h5c35d8cc) = Inv(K(\h5c35d8cb))
       /\ K(\h293bfff4) \in Word /\ K(\h6c6ed0b4) \in Word /\ K(\h5c35d8ce) \in Word
       /\ K(2) \in Word /\ K(5) \in Word
  BY <1>35, Constant, SMT
<1>40. (K(\h293bfff4) ^^ Inv(K(\h6c6ed0b4))) = Inv(K(\h45552f40))
  BY <1>36, <1>39, XorOfInv, SMT
<1>41. (Inv(K(\h5c35d8ce)) ^^ K(5)) = Inv(K(\h5c35d8cb))
  BY <1>38, <1>39, XorOfInv, SMT
<1> QED  BY <1>34, <1>37, <1>39, <1>40, <1>41, SMT
-----------------------------------------------------------------------------
(***************************************************************************)
(* Identities of words.                                                    *)
(***************************************************************************)
LEMMA BitLaws ==
  ASSUME NEW k \in 0 .. W - 1
  PROVE  /\ \A x \in Word : Inv(x) \in Word /\ (Bit(Inv(x), k) <=> ~ Bit(x, k))
         /\ \A x, y \in Word :
              /\ (x & y) \in Word /\ (Bit(x & y, k) <=> Bit(x, k) /\ Bit(y, k))
              /\ (x | y) \in Word /\ (Bit(x | y, k) <=> Bit(x, k) \/ Bit(y, k))
              /\ (x ^^ y) \in Word /\ (Bit(x ^^ y, k) <=> ~ (Bit(x, k) <=> Bit(y, k)))
         /\ 0 \in Word /\ ~ Bit(0, k)
<1>1. ASSUME NEW x \in Word PROVE Inv(x) \in Word /\ (Bit(Inv(x), k) <=> ~ Bit(x, k))
  BY BitsOfInv DEF Bits
<1>2. ASSUME NEW x \in Word, NEW y \in Word
      PROVE  /\ (x & y) \in Word /\ (Bit(x & y, k) <=> Bit(x, k) /\ Bit(y, k))
             /\ (x | y) \in Word /\ (Bit(x | y, k) <=> Bit(x, k) \/ Bit(y, k))
             /\ (x ^^ y) \in Word /\ (Bit(x ^^ y, k) <=> ~ (Bit(x, k) <=> Bit(y, k)))
  <2>1. (x & y) \in Word /\ (Bit(x & y, k) <=> Bit(x, k) /\ Bit(y, k))
    BY BitsOfAnd DEF Bits
  <2>2. (x | y) \in Word /\ (Bit(x | y, k) <=> Bit(x, k) \/ Bit(y, k))
    BY BitsOfOr DEF Bits
  <2>3. (x ^^ y) \in Word /\ (Bit(x ^^ y, k) <=> ~ (Bit(x, k) <=> Bit(y, k)))
    BY BitsOfXor DEF Bits
  <2> QED  BY <2>1, <2>2, <2>3
<1>3. 0 \in Word /\ ~ Bit(0, k)  BY Given, BitsOfZero DEF Bits
<1> QED  BY <1>1, <1>2, <1>3

LEMMA Same ==
  ASSUME NEW x \in Word, NEW y \in Word, \A k \in 0 .. W - 1 : Bit(x, k) <=> Bit(y, k)
  PROVE  x = y
<1>1. Bits(x) = Bits(y)  BY DEF Bits
<1> QED  BY <1>1, SameBits

LEMMA OneWord ==
  ASSUME NEW a \in Word
  PROVE  /\ (a | a) = a /\ (a & a) = a /\ Inv(Inv(a)) = a
         /\ (Inv(a) & a) = 0 /\ (a & Inv(a)) = 0 /\ (a ^^ a) = 0 /\ (a | 0) = a
         /\ (a & Inv(0)) = a /\ (Inv(a) | a) = Inv(0)
<1>1. ASSUME NEW k \in 0 .. W - 1
      PROVE  /\ Bit(a | a, k) <=> Bit(a, k)
             /\ Bit(a & a, k) <=> Bit(a, k)
             /\ Bit(Inv(Inv(a)), k) <=> Bit(a, k)
             /\ Bit(Inv(a) & a, k) <=> Bit(0, k)
             /\ Bit(a & Inv(a), k) <=> Bit(0, k)
             /\ Bit(a ^^ a, k) <=> Bit(0, k)
             /\ Bit(a | 0, k) <=> Bit(a, k)
             /\ Bit(a & Inv(0), k) <=> Bit(a, k)
             /\ Bit(Inv(a) | a, k) <=> Bit(Inv(0), k)
  BY BitLaws
<1>2. /\ (a | a) \in Word /\ (a & a) \in Word /\ Inv(Inv(a)) \in Word
      /\ (Inv(a) & a) \in Word /\ (a & Inv(a)) \in Word /\ (a ^^ a) \in Word /\ (a | 0) \in Word
      /\ (a & Inv(0)) \in Word /\ (Inv(a) | a) \in Word /\ 0 \in Word /\ Inv(0) \in Word
  BY Closed, Given
<1> QED  BY <1>1, <1>2, Same

LEMMA TwoWords ==
  ASSUME NEW a \in Word, NEW b \in Word
  PROVE  /\ (Inv(a) | Inv(b)) = Inv(a & b) /\ (Inv(a) & Inv(b)) = Inv(a | b)
         /\ ((Inv(a) & b) | (a & Inv(b))) = (a ^^ b)
         /\ ((a & b) | (Inv(a) & Inv(b))) = Inv(a ^^ b)
         /\ ((a ^^ b) | (a & b)) = (a | b)
         /\ (a & Inv(b ^^ a)) = (a & b)
         /\ (a ^^ b) = (b ^^ a) /\ (a ^^ (a ^^ b)) = b
<1>1. ASSUME NEW k \in 0 .. W - 1
      PROVE  /\ Bit(Inv(a) | Inv(b), k) <=> Bit(Inv(a & b), k)
             /\ Bit(Inv(a) & Inv(b), k) <=> Bit(Inv(a | b), k)
             /\ Bit((Inv(a) & b) | (a & Inv(b)), k) <=> Bit(a ^^ b, k)
             /\ Bit((a & b) | (Inv(a) & Inv(b)), k) <=> Bit(Inv(a ^^ b), k)
             /\ Bit((a ^^ b) | (a & b), k) <=> Bit(a | b, k)
             /\ Bit(a & Inv(b ^^ a), k) <=> Bit(a & b, k)
             /\ Bit(a ^^ b, k) <=> Bit(b ^^ a, k)
             /\ Bit(a ^^ (a ^^ b), k) <=> Bit(b, k)
  BY BitLaws
<1>2. /\ Inv(a) \in Word /\ Inv(b) \in Word /\ (a & b) \in Word /\ (a | b) \in Word
      /\ (a ^^ b) \in Word /\ (b ^^ a) \in Word
  BY Closed
<1>3. /\ (Inv(a) | Inv(b)) \in Word /\ Inv(a & b) \in Word
      /\ (Inv(a) & Inv(b)) \in Word /\ Inv(a | b) \in Word
      /\ (Inv(a) & b) \in Word /\ (a & Inv(b)) \in Word /\ Inv(a ^^ b) \in Word
      /\ ((a ^^ b) | (a & b)) \in Word /\ (a ^^ (a ^^ b)) \in Word /\ Inv(b ^^ a) \in Word
  BY <1>2, Closed
<1>4. /\ ((Inv(a) & b) | (a & Inv(b))) \in Word /\ ((a & b) | (Inv(a) & Inv(b))) \in Word
      /\ (a & Inv(b ^^ a)) \in Word
  BY <1>2, <1>3, Closed
<1> QED  BY <1>1, <1>2, <1>3, <1>4, Same

LEMMA ThreeWords ==
  ASSUME NEW a \in Word, NEW b \in Word, NEW c \in Word
  PROVE  ((a ^^ b) ^^ c) = (a ^^ (b ^^ c))
<1>1. ASSUME NEW k \in 0 .. W - 1
      PROVE  Bit((a ^^ b) ^^ c, k) <=> Bit(a ^^ (b ^^ c), k)
  BY BitLaws
<1>2. (a ^^ b) \in Word /\ (b ^^ c) \in Word  BY Closed
<1>3. ((a ^^ b) ^^ c) \in Word /\ (a ^^ (b ^^ c)) \in Word  BY <1>2, Closed
<1> QED  BY <1>1, <1>3, Same
-----------------------------------------------------------------------------
(***************************************************************************)
(* The branch for the remainder 0.                                         *)
(***************************************************************************)
(* ~a | ~b, less ~a, is what b has less than a.                            *)
LEMMA AddedBack ==
  ASSUME NEW a \in Word, NEW b \in Word
  PROVE  /\ ((Inv(a) | Inv(b)) \oplus (a \ominus K(-1))) = (a & Inv(b))
         /\ ((Inv(a) | Inv(b)) \oplus (a \oplus 1)) = (a & Inv(b))
<1> DEFINE c == a & b
           o == Inv(a) | Inv(b)
           m == WordMod
           s == a \ominus K(-1)
<1>1. o = Inv(c) /\ c \in Word /\ (a & Inv(b)) = a - c /\ c <= a  BY TwoWords, AsNumbers
<1>2. o \in Word /\ o = m - 1 - c  BY <1>1, AsNumbers
<1>3. /\ m \in Nat /\ m >= 8 /\ a \in Nat /\ a < m /\ c \in Nat /\ 1 \in Word
  BY <1>1, Given, SmallWords
<1> HIDE DEF c, o, m
<1>4. s \in Word /\ s = IF a + 1 < m THEN a + 1 ELSE a + 1 - m
  <2>1. K(-1) \in Word /\ K(-1) = m - 1  BY MinusOne DEF m
  <2>2. s \in Word /\ s = IF K(-1) <= a THEN a - K(-1) ELSE a - K(-1) + m
    BY <2>1, SumWord DEF m
  <2> QED  BY <1>3, <2>1, <2>2
<1>5. (a \oplus 1) = IF a + 1 < m THEN a + 1 ELSE a + 1 - m  BY <1>3, SumWord DEF m
<1>6. (a \oplus 1) = s  BY <1>4, <1>5
<1>7. s \in Nat  BY <1>4, Given
<1> HIDE DEF s
<1>8. (o \oplus s) = IF o + s < m THEN o + s ELSE o + s - m  BY <1>2, <1>4, SumWord DEF m
<1>9. (o \oplus s) = a - c  BY <1>1, <1>2, <1>3, <1>4, <1>7, <1>8
<1> QED  BY <1>1, <1>6, <1>9 DEF o, s

(* a + b - 2(a & b).                                                       *)
LEMMA XorBySum ==
  ASSUME NEW a \in Word, NEW b \in Word
  PROVE  /\ ((a \oplus b) \ominus Double(a & b)) = (a ^^ b)
         /\ ((a \oplus b) \oplus Neg(Double(a & b))) = (a ^^ b)
         /\ (Double(a & b) \ominus a) = (b \ominus (a ^^ b))
         /\ ((a ^^ b) \oplus (a & b)) = (a | b)
<1> DEFINE c == a & b
           z == a ^^ b
           o == a | b
           m == WordMod
           s == a \oplus b
           d == Double(c)
           e == Neg(d)
<1>1. /\ c \in Word /\ c <= a /\ c <= b /\ z \in Word /\ z = a + b - 2 * c
      /\ o \in Word /\ o = a + b - c
  BY AsNumbers
<1>2. /\ m \in Nat /\ a \in Nat /\ a < m /\ b \in Nat /\ b < m /\ c \in Nat /\ z \in Nat /\ z < m
      /\ o \in Nat /\ o < m
  BY <1>1, Given
<1> HIDE DEF c, z, o, m
<1>3. s \in Word /\ s = IF a + b < m THEN a + b ELSE a + b - m  BY SumWord DEF m
<1>4. d \in Word /\ d = IF 2 * c < m THEN 2 * c ELSE 2 * c - m  BY <1>1, NegWord DEF m
<1>5. s \in Nat /\ d \in Nat /\ d < m  BY <1>3, <1>4, Given DEF m
<1>6. e \in Word /\ e = IF d = 0 THEN 0 ELSE m - d  BY <1>4, NegWord DEF m
<1>7. e \in Nat  BY <1>6, Given
<1> HIDE DEF s, d, e
<1>8. (s \ominus d) = IF d <= s THEN s - d ELSE s - d + m  BY <1>3, <1>4, SumWord DEF m
<1>9. (s \oplus e) = IF s + e < m THEN s + e ELSE s + e - m  BY <1>3, <1>6, SumWord DEF m
<1>10. (d \ominus a) = IF a <= d THEN d - a ELSE d - a + m  BY <1>4, SumWord DEF m
<1>11. (b \ominus z) = IF z <= b THEN b - z ELSE b - z + m  BY <1>1, SumWord DEF m
<1>12. (z \oplus c) = IF z + c < m THEN z + c ELSE z + c - m  BY <1>1, SumWord DEF m
<1>13. (s \ominus d) = z  BY <1>1, <1>2, <1>3, <1>4, <1>5, <1>8
<1>14. (s \oplus e) = z  BY <1>1, <1>2, <1>3, <1>4, <1>5, <1>6, <1>7, <1>9
<1>15. (d \ominus a) = (b \ominus z)  BY <1>1, <1>2, <1>4, <1>5, <1>10, <1>11
<1>16. (z \oplus c) = o  BY <1>1, <1>2, <1>12
<1> QED  BY <1>13, <1>14, <1>15, <1>16 DEF s, d, e, c, z, o

LEMMA SumsCancel ==
  ASSUME NEW a \in Word, NEW b \in Word
  PROVE  /\ (a \ominus (a \ominus b)) = b
         /\ ((a \oplus b) \ominus b) = a /\ ((a \ominus b) \oplus b) = a
         /\ (a \oplus b) = (b \oplus a)
         /\ ((a \ominus b) \ominus a) = Neg(b)
         /\ Neg(Neg(a)) = a /\ (a \oplus Neg(b)) = (a \ominus b)
         /\ Neg(a \ominus b) = (b \ominus a)
         /\ (a \oplus 0) = a
<1> DEFINE m == WordMod
           s == a \oplus b
           d == a \ominus b
           e == Neg(b)
           f == Neg(a)
<1>1. /\ m \in Nat /\ m >= 1 /\ a \in Nat /\ a < m /\ b \in Nat /\ b < m /\ 0 \in Word  BY Given
<1> HIDE DEF m
<1>2. s \in Word /\ s = IF a + b < m THEN a + b ELSE a + b - m  BY SumWord DEF m
<1>3. d \in Word /\ d = IF b <= a THEN a - b ELSE a - b + m  BY SumWord DEF m
<1>4. /\ e \in Word /\ e = IF b = 0 THEN 0 ELSE m - b
      /\ f \in Word /\ f = IF a = 0 THEN 0 ELSE m - a
  BY NegWord DEF m
<1>5. s \in Nat /\ d \in Nat /\ e \in Nat /\ f \in Nat  BY <1>2, <1>3, <1>4, Given
<1> HIDE DEF s, d, e, f
<1>6. (a \ominus d) = IF d <= a THEN a - d ELSE a - d + m  BY <1>3, SumWord DEF m
<1>7. (s \ominus b) = IF b <= s THEN s - b ELSE s - b + m  BY <1>2, SumWord DEF m
<1>8. (d \oplus b) = IF d + b < m THEN d + b ELSE d + b - m  BY <1>3, SumWord DEF m
<1>9. (b \oplus a) = IF b + a < m THEN b + a ELSE b + a - m  BY SumWord DEF m
<1>10. (d \ominus a) = IF a <= d THEN d - a ELSE d - a + m  BY <1>3, SumWord DEF m
<1>11. Neg(f) = IF f = 0 THEN 0 ELSE m - f  BY <1>4, NegWord DEF m
<1>12. (a \oplus e) = IF a + e < m THEN a + e ELSE a + e - m  BY <1>4, SumWord DEF m
<1>13. (a \oplus 0) = IF a + 0 < m THEN a + 0 ELSE a + 0 - m  BY <1>1, SumWord DEF m
<1>14. Neg(d) = IF d = 0 THEN 0 ELSE m - d  BY <1>3, NegWord DEF m
<1>15. (b \ominus a) = IF a <= b THEN b - a ELSE b - a + m  BY SumWord DEF m
<1>16. (a \ominus d) = b /\ (d \oplus b) = a /\ (d \ominus a) = e
  BY <1>1, <1>3, <1>4, <1>5, <1>6, <1>8, <1>10
<1>17. (s \ominus b) = a /\ s = (b \oplus a)  BY <1>1, <1>2, <1>5, <1>7, <1>9
<1>18. Neg(f) = a /\ (a \oplus e) = d /\ (a \oplus 0) = a
  BY <1>1, <1>3, <1>4, <1>5, <1>11, <1>12, <1>13
<1>19. Neg(d) = (b \ominus a)  BY <1>1, <1>3, <1>5, <1>14, <1>15
<1> QED  BY <1>16, <1>17, <1>18, <1>19 DEF s, d, e, f

LEMMA FirstBranch ==
  ASSUME NEW a \in Word
  PROVE  l807[a] = ((a | K(-\h45552f41)) \otimes (2 ^^ a))
<1> DEFINE A == K(-\h45552f41)
           M == K(\h293bfff4)
           R == K(-\h6c6ed0b5)
           C == K(\h2f63283)
           D == K(\h2f63281)
           U == K(-\h762de927)
           V == K(\h1e85a5ae)
<1>1. A \in Word /\ M \in Word /\ R \in Word /\ C \in Word /\ D \in Word /\ U \in Word /\ V \in Word
  BY Constant, SMT
<1>2. /\ K(\h45552f40) = Inv(A) /\ K(-\h293bfff5) = Inv(M) /\ K(-\h2f63284) = Inv(C)
      /\ K(-3) = Inv(2) /\ (M ^^ R) = A /\ (D ^^ 2) = C
  BY Opposites, Xors, SMT
<1>3. 0 \in Word /\ 1 \in Word /\ 2 \in Word /\ K(-1) \in Word  BY SmallWords, MinusOne
<1> HIDE DEF A, M, R, C, D, U, V
<1>4. Inv(a) \in Word /\ (a & A) \in Word /\ (a ^^ A) \in Word /\ (a | A) \in Word
  BY <1>1, Closed

<1>5. l21[a] = Inv(a)  BY <1>4, OneWord DEF l21
<1>6. l168[a] = (Inv(a) & M)  BY <1>4, <1>5, OneWord, SMT DEF l168, M
<1>7. l180[a] = (a & Inv(M))
  <2>1. l180[a] = ((Inv(a) | Inv(M)) \oplus (a \ominus K(-1)))  BY <1>2, SMT DEF l180
  <2> QED  BY <1>1, <2>1, AddedBack
<1>8. l168[a] \in Word /\ l180[a] \in Word
  <2>1. Inv(M) \in Word  BY <1>1, Closed
  <2>2. (Inv(a) & M) \in Word  BY <1>1, <1>4, Closed
  <2>3. (a & Inv(M)) \in Word  BY <2>1, Closed
  <2> QED  BY <1>6, <1>7, <2>2, <2>3
<1>9. (l168[a] ^^ l180[a]) = (a ^^ M)
  <2> DEFINE x == Inv(a) & M
             y == a & Inv(M)
  <2>1. ASSUME NEW k \in 0 .. W - 1 PROVE Bit(x ^^ y, k) <=> Bit(a ^^ M, k)
    BY <1>1, BitLaws
  <2>2. x \in Word /\ y \in Word  BY <1>6, <1>7, <1>8
  <2>3. (x ^^ y) \in Word /\ (a ^^ M) \in Word
    <3> HIDE DEF x, y
    <3> QED  BY <1>1, <2>2, Closed
  <2>4. (x ^^ y) = (a ^^ M)
    <3> HIDE DEF x, y
    <3> QED  BY <2>1, <2>3, Same
  <2> QED  BY <1>6, <1>7, <2>4
<1>10. l192[a] = Inv(0)
  <2>1. l192[a] = (Inv(l168[a]) | Inv(l180[a]))  BY DEF l192
  <2>2. (l168[a] & l180[a]) = 0
    <3> DEFINE x == Inv(a) & M
               y == a & Inv(M)
    <3>1. ASSUME NEW k \in 0 .. W - 1 PROVE Bit(x & y, k) <=> Bit(0, k)
      BY <1>1, BitLaws
    <3>2. x \in Word /\ y \in Word  BY <1>6, <1>7, <1>8
    <3>3. (x & y) \in Word  BY <3>2, Closed
    <3>4. (x & y) = 0  BY <1>3, <3>1, <3>3, Same
    <3> QED  BY <1>6, <1>7, <3>4
  <2> QED  BY <1>8, <2>1, <2>2, TwoWords
<1>11. l224[a] = (a ^^ M)
  <2> DEFINE z == a ^^ M
  <2>1. l224[a] = NandMasked(l192[a] & l192[a], Inv(l168[a] ^^ l180[a]), U)
    BY SMT DEF l224, U
  <2>2. z \in Word /\ Inv(z) \in Word /\ Inv(0) \in Word  BY <1>1, <1>3, Closed
  <2> HIDE DEF z
  <2>3. (l192[a] & l192[a]) = Inv(0) /\ (l168[a] ^^ l180[a]) = z
    BY <1>9, <1>10, <2>2, OneWord DEF z
  <2>4. NandMasked(Inv(0), Inv(z), U) = Inv(Inv(0) & Inv(z))  BY <1>1, <2>2, BitRules
  <2>5. (Inv(0) & Inv(z)) = (Inv(z) & Inv(0)) /\ (Inv(z) & Inv(0)) = Inv(z) /\ Inv(Inv(z)) = z
    BY <2>2, AsNumbers, OneWord
  <2> QED  BY <2>1, <2>3, <2>4, <2>5 DEF z
<1>12. l267[a] = (a ^^ A)
  <2> DEFINE z == a ^^ M
             c == z & R
  <2>1. l267[a] = ((l224[a] \oplus R) \oplus Neg(ProductByNor(2, l224[a] & R)))
    BY SMT DEF l267, R
  <2>2. z \in Word  BY <1>1, Closed
  <2>3. (z ^^ R) = (a ^^ A)  BY <1>1, <1>2, ThreeWords
  <2> HIDE DEF z
  <2>4. c \in Word  BY <1>1, <2>2, Closed
  <2>5. ((z \oplus R) \oplus Neg(Double(c))) = (z ^^ R)  BY <1>1, <2>2, XorBySum
  <2> HIDE DEF c
  <2>6. ProductByNor(2, c) = Double(c)  BY <1>3, <2>4, ProductRules, ProductWord
  <2> QED  BY <1>11, <2>1, <2>3, <2>5, <2>6 DEF z, c
<1>13. l268[a] = Inv(a & A)
  BY <1>1, <1>2, <1>5, TwoWords, SMT DEF l268
<1>14. l343[a] = Inv(0)
  <2> DEFINE x == a & A
  <2>1. l343[a] = (((Inv(l268[a]) \oplus K(-1)) \oplus 1) \oplus l268[a])  BY DEF l343
  <2>2. Inv(Inv(x)) = x /\ Inv(x) \in Word  BY <1>4, OneWord, Closed
  <2>3. ((x \oplus K(-1)) \oplus 1) = x
    <3> DEFINE s == x \oplus K(-1)
               m == WordMod
    <3>1. K(-1) = m - 1 /\ m \in Nat /\ m >= 8 /\ x \in Nat /\ x < m
      BY <1>4, MinusOne, Given, SmallWords
    <3>2. s \in Word /\ s = IF x + K(-1) < m THEN x + K(-1) ELSE x + K(-1) - m
      BY <1>3, <1>4, SumWord
    <3>3. s \in Nat  BY <3>2, Given
    <3> HIDE DEF s, m, x
    <3>4. (s \oplus 1) = IF s + 1 < m THEN s + 1 ELSE s + 1 - m  BY <1>3, <3>2, SumWord DEF m
    <3>5. (s \oplus 1) = x  BY <3>1, <3>2, <3>3, <3>4
    <3> QED  BY <3>5 DEF s
  <2>4. (x \oplus Inv(x)) = Inv(0)
    <3>1. x \in Nat /\ x < WordMod /\ WordMod \in Nat /\ Inv(x) = WordMod - 1 - x
          /\ Inv(0) = WordMod - 1
      BY <1>4, Given DEF Inv
    <3> HIDE DEF x
    <3>2. (x \oplus Inv(x)) = IF x + Inv(x) < WordMod THEN x + Inv(x) ELSE x + Inv(x) - WordMod
      BY <1>4, <2>2, SumWord DEF x
    <3> QED  BY <3>1, <3>2
  <2> QED  BY <1>13, <2>1, <2>2, <2>3, <2>4
<1>15. l370[a] = (a & A)
  <2> DEFINE x == a & A
             y == Inv(x)
  <2>1. l370[a] = NandMasked(Inv(NotByShift(l268[a]) | Inv(l268[a])), l343[a], V)
    BY SMT DEF l370, V
  <2>2. y \in Word /\ Inv(y) = x /\ Inv(0) \in Word  BY <1>3, <1>4, OneWord, Closed
  <2>3. x \in Word  BY <1>4
  <2>4. l268[a] = y /\ l343[a] = Inv(0)  BY <1>13, <1>14
  <2> HIDE DEF x, y
  <2>5. NotByShift(y) = x  BY <2>2, NotRules
  <2>6. Inv(x | x) = y  BY <2>2, <2>3, OneWord DEF y
  <2>7. NandMasked(y, Inv(0), V) = Inv(y & Inv(0))  BY <1>1, <2>2, BitRules
  <2>8. (y & Inv(0)) = y  BY <2>2, OneWord
  <2> QED  BY <2>1, <2>2, <2>4, <2>5, <2>6, <2>7, <2>8 DEF x
<1>16. l419[a] = (((a & A) & (a ^^ A)) \ominus K(-1))
  <2> DEFINE x == a & A
             z == a ^^ A
             y == x & z
  <2>1. l419[a] = (Inv(NotByShift(Inv((Inv(x) & Inv(x)) | (Inv(z) & Inv(z))))) \ominus K(-1))
    BY <1>12, <1>15 DEF l419
  <2>2. x \in Word /\ z \in Word /\ Inv(x) \in Word /\ Inv(z) \in Word  BY <1>4, Closed
  <2> HIDE DEF x, z
  <2>3. y \in Word /\ Inv(y) \in Word  BY <2>2, Closed
  <2>4. (Inv(x) & Inv(x)) = Inv(x) /\ (Inv(z) & Inv(z)) = Inv(z)  BY <2>2, OneWord
  <2>5. (Inv(x) | Inv(z)) = Inv(y) /\ Inv(Inv(y)) = y  BY <2>2, <2>3, TwoWords, OneWord
  <2>6. NotByShift(y) = Inv(y)  BY <2>3, NotRules
  <2> QED  BY <2>1, <2>4, <2>5, <2>6 DEF x, z
<1>17. l420[a] = (a | A)
  <2> DEFINE x == a & A
             z == a ^^ A
             y == x & z
             s == z \oplus x
             t == y \ominus K(-1)
             u == s \ominus K(-1)
             m == WordMod
  <2>1. l420[a] = (u \ominus t)  BY <1>12, <1>15, <1>16 DEF l420
  <2>2. x \in Word /\ z \in Word /\ (z | x) = (a | A) /\ (z \oplus x) = (a | A)
    BY <1>1, <1>4, TwoWords, XorBySum
  <2>3. y = 0
    <3>1. ASSUME NEW k \in 0 .. W - 1 PROVE Bit(y, k) <=> Bit(0, k)
      BY <1>1, BitLaws
    <3>2. y \in Word
      <4> HIDE DEF x, z
      <4> QED  BY <2>2, Closed
    <3> QED  BY <1>3, <3>1, <3>2, Same
  <2> HIDE DEF x, z, y
  <2>4. s \in Word  BY <1>4, <2>2
  <2> HIDE DEF s
  <2>5. m \in Nat /\ m >= 8 /\ s \in Nat /\ s < m /\ K(-1) = m - 1
    BY <2>4, Given, SmallWords, MinusOne
  <2> HIDE DEF m
  <2>6. u \in Word /\ u = IF K(-1) <= s THEN s - K(-1) ELSE s - K(-1) + m
    BY <1>3, <2>4, SumWord DEF m
  <2>7. t \in Word /\ t = IF K(-1) <= 0 THEN 0 - K(-1) ELSE 0 - K(-1) + m
    BY <1>3, <2>3, SumWord DEF m
  <2>8. u \in Nat /\ t \in Nat  BY <2>6, <2>7, Given
  <2> HIDE DEF u, t
  <2>9. (u \ominus t) = IF t <= u THEN u - t ELSE u - t + m  BY <2>6, <2>7, SumWord DEF m
  <2>10. (u \ominus t) = s  BY <2>5, <2>6, <2>7, <2>8, <2>9
  <2> QED  BY <2>1, <2>2, <2>10 DEF s

<1>18. l571[a] = Inv(0) /\ l579[a] = Inv(a) /\ l582[a] = Inv(a)
  <2>1. l571[a] = Inv(Inv(a) & a) /\ (Inv(a) & a) = 0  BY OneWord DEF l571
  <2>2. l579[a] = Inv(a & l571[a]) /\ (a & Inv(0)) = a  BY OneWord DEF l579
  <2>3. l582[a] = (l579[a] & l579[a])  BY DEF l582
  <2> QED  BY <1>4, <2>1, <2>2, <2>3, OneWord
<1>19. l630[a] = Inv(a ^^ C)
  <2> DEFINE x == AndByXor(a, C)
             y == Inv(a) & Inv(C)
  <2>1. l630[a] = OrBySum(AndByXor(Inv(Inv(a)), C), y)  BY <1>2, <1>18, SMT DEF l630, C
  <2>2. Inv(Inv(a)) = a /\ x = (a & C)  BY <1>1, BitRules, OneWord
  <2>3. x \in Word /\ y \in Word /\ ((a & C) | y) = Inv(a ^^ C)
    <3>1. Inv(C) \in Word /\ (a & C) \in Word  BY <1>1, Closed
    <3> QED  BY <1>1, <1>4, <2>2, <3>1, TwoWords, Closed
  <2> HIDE DEF x, y
  <2>4. OrBySum(x, y) = (x | y)  BY <2>3, OrRules
  <2> QED  BY <2>1, <2>2, <2>3, <2>4 DEF x
<1>20. (D \ominus l637[a]) = Inv(a ^^ 2) /\ Inv(a ^^ 2) \in Word
  <2> DEFINE z == Inv(a ^^ C)
  <2>1. l637[a] = (Double(l630[a] & Inv(D ^^ l630[a])) \ominus l630[a])  BY SMT DEF l637, D
  <2>2. (a ^^ C) \in Word /\ z \in Word /\ (a ^^ 2) \in Word /\ Inv(a ^^ 2) \in Word
    BY <1>1, <1>3, Closed
  <2>3. (z ^^ D) = Inv(a ^^ 2)
    <3>1. (z ^^ D) = Inv((a ^^ C) ^^ D)  BY <1>1, <2>2, XorOfInv
    <3>2. ((a ^^ C) ^^ D) = (a ^^ (C ^^ D))  BY <1>1, ThreeWords
    <3>3. (C ^^ D) = (D ^^ C) /\ (D ^^ (D ^^ 2)) = 2  BY <1>1, <1>3, TwoWords
    <3> QED  BY <1>2, <3>1, <3>2, <3>3
  <2> HIDE DEF z
  <2>4. (z & Inv(D ^^ z)) = (z & D)  BY <1>1, <2>2, TwoWords
  <2>5. (Double(z & D) \ominus z) = (D \ominus (z ^^ D))  BY <1>1, <2>2, XorBySum
  <2>6. (D \ominus (D \ominus (z ^^ D))) = (z ^^ D)  BY <1>1, <2>2, <2>3, SumsCancel
  <2> QED  BY <1>19, <2>1, <2>2, <2>3, <2>4, <2>5, <2>6 DEF z
<1>21. l681[a] = Inv(a)
  <2>1. l681[a] = (l680[a] \ominus ProductByNor(2, l663[a]))  BY DEF l681
  <2>2. l680[a] = (a \oplus K(-1)) /\ l663[a] = a  BY OneWord DEF l680, l663
  <2>3. ProductByNor(2, a) = Double(a)  BY <1>3, ProductRules, ProductWord
  <2>4. ((a \oplus K(-1)) \ominus Double(a)) = Inv(a)  BY NotRules DEF NotByShift
  <2> QED  BY <2>1, <2>2, <2>3, <2>4
<1>22. l711[a] = Inv(Inv(a) & 2) /\ l711[a] \in Word
  <2> DEFINE x == Inv(a)
             e == NotByDouble(x)
  <2>1. l711[a] = Inv(((x \oplus (x ^^ x)) \oplus Neg(x & e)) & 2)  BY <1>21 DEF l711
  <2>2. x \in Word /\ e = Inv(x)  BY <1>4, NotRules
  <2> HIDE DEF x, e
  <2>3. (x ^^ x) = 0 /\ (x & Inv(x)) = 0 /\ Neg(0) = 0
    BY <1>3, <2>2, OneWord, NegWord
  <2>4. (x \oplus 0) = x  BY <1>3, <2>2, SumsCancel
  <2>5. Inv(x & 2) \in Word  BY <1>3, <2>2, Closed
  <2> QED  BY <2>1, <2>2, <2>3, <2>4, <2>5 DEF x
<1>23. l759[a] = Inv(a ^^ 2)
  <2> DEFINE z == Inv(a ^^ 2)
             y == 2 & Inv(a)
             r == Inv(Inv(a) & 2)
  <2>1. l759[a] = (OrByCarry(z, Inv(Inv(2) | Inv(Inv(a)))) & (r & r))
    BY <1>2, <1>18, <1>20, <1>22, SMT DEF l759, D
  <2>2. Inv(a) \in Word /\ Inv(2) \in Word /\ Inv(Inv(a)) \in Word /\ y \in Word
    BY <1>3, <1>4, Closed
  <2>3. Inv(Inv(2) | Inv(Inv(a))) = y
    <3>1. (Inv(2) | Inv(Inv(a))) = Inv(y)  BY <1>3, <1>4, TwoWords
    <3> QED  BY <2>2, <3>1, OneWord
  <2>4. z \in Word /\ r \in Word  BY <1>20, <1>22
  <2>5. ((z | y) & r) = z
    <3>1. ASSUME NEW k \in 0 .. W - 1 PROVE Bit((z | y) & r, k) <=> Bit(z, k)
      BY <1>3, BitLaws
    <3> HIDE DEF z, y, r
    <3>2. (z | y) \in Word  BY <2>2, <2>4, Closed
    <3>3. ((z | y) & r) \in Word  BY <2>4, <3>2, Closed
    <3> QED  BY <2>4, <3>1, <3>3, Same
  <2> HIDE DEF z, y, r
  <2>6. OrByCarry(z, y) = (z | y) /\ (r & r) = r  BY <2>2, <2>4, OrRules, OneWord
  <2> QED  BY <2>1, <2>3, <2>5, <2>6 DEF z
<1>24. l807[a] = ((a | A) \otimes (2 ^^ a))
  <2> DEFINE x == a ^^ 2
             y == a | A
  <2>1. l807[a] = ProductByNor(l420[a], OrByCarry(Inv(l759[a]), l759[a] & Inv(l759[a])))
    BY DEF l807
  <2>2. x \in Word /\ y \in Word /\ Inv(x) \in Word /\ Inv(Inv(x)) = x /\ (2 ^^ a) = x
    BY <1>1, <1>3, Closed, OneWord, TwoWords
  <2> HIDE DEF x, y
  <2>3. (Inv(x) & x) = 0 /\ OrByCarry(x, 0) = x  BY <1>3, <2>2, OneWord, OrRules
  <2>4. ProductByNor(y, x) = (y \otimes x)  BY <2>2, ProductRules
  <2>5. l420[a] = y /\ l759[a] = Inv(x)  BY <1>17, <1>23 DEF x, y
  <2> QED  BY <2>1, <2>2, <2>3, <2>4, <2>5 DEF y
<1> QED  BY <1>24, SMT DEF A
-----------------------------------------------------------------------------
(***************************************************************************)
(* The branch for the remainder 1.                                         *)
(***************************************************************************)
LEMMA Inverses ==
  ASSUME NEW a \in Word, NEW b \in Word
  PROVE  /\ Inv(Inv(a) | b) = (a & Inv(b)) /\ Inv(a | Inv(b)) = (b & Inv(a))
         /\ Inv(Inv(a) | Inv(b)) = (a & b) /\ Inv(Inv(a) & Inv(b)) = (a | b)
         /\ Inv(Inv(a) & b) = (a | Inv(b))
         /\ (a & b) = (b & a) /\ (a | b) = (b | a)
         /\ ((a | b) & Inv(a ^^ b)) = (a & b)
<1>1. ASSUME NEW k \in 0 .. W - 1
      PROVE  /\ Bit(Inv(Inv(a) | b), k) <=> Bit(a & Inv(b), k)
             /\ Bit(Inv(a | Inv(b)), k) <=> Bit(b & Inv(a), k)
             /\ Bit(Inv(Inv(a) | Inv(b)), k) <=> Bit(a & b, k)
             /\ Bit(Inv(Inv(a) & Inv(b)), k) <=> Bit(a | b, k)
             /\ Bit(Inv(Inv(a) & b), k) <=> Bit(a | Inv(b), k)
             /\ Bit(a & b, k) <=> Bit(b & a, k)
             /\ Bit(a | b, k) <=> Bit(b | a, k)
             /\ Bit((a | b) & Inv(a ^^ b), k) <=> Bit(a & b, k)
  BY BitLaws
<1>2. /\ Inv(a) \in Word /\ Inv(b) \in Word /\ (a & b) \in Word /\ (a | b) \in Word
      /\ (b & a) \in Word /\ (b | a) \in Word /\ (a ^^ b) \in Word
  BY Closed
<1>3. /\ (Inv(a) | b) \in Word /\ (a & Inv(b)) \in Word /\ (a | Inv(b)) \in Word
      /\ (b & Inv(a)) \in Word /\ (Inv(a) | Inv(b)) \in Word /\ (Inv(a) & Inv(b)) \in Word
      /\ (Inv(a) & b) \in Word /\ Inv(a ^^ b) \in Word
  BY <1>2, Closed
<1>4. /\ Inv(Inv(a) | b) \in Word /\ Inv(a | Inv(b)) \in Word /\ Inv(Inv(a) | Inv(b)) \in Word
      /\ Inv(Inv(a) & Inv(b)) \in Word /\ Inv(Inv(a) & b) \in Word
      /\ ((a | b) & Inv(a ^^ b)) \in Word
  BY <1>2, <1>3, Closed
<1> QED  BY <1>1, <1>2, <1>3, <1>4, Same

(* The two halves of the rule for a product.                               *)
LEMMA ProductOfHalves ==
  ASSUME NEW a \in Word, NEW b \in Word
  PROVE  /\ (((a | b) \otimes (a & b)) \oplus ((a & Inv(b)) \otimes (b & Inv(a)))) = (a \otimes b)
         /\ (((a | b) \otimes (a & b)) \oplus ((b & Inv(a)) \otimes (a & Inv(b)))) = (a \otimes b)
<1> DEFINE x == a & Inv(b)
           y == b & Inv(a)
<1>1. Inv(a) \in Word /\ Inv(b) \in Word  BY Closed
<1>2. x \in Word /\ y \in Word  BY <1>1, Closed
<1>3. (((a | b) \otimes (a & b)) \oplus (x \otimes y)) = (a \otimes b)
  BY ProductRules DEF Product
<1> HIDE DEF x, y
<1>4. (x \otimes y) = (y \otimes x)  BY <1>2, ProductWord
<1> QED  BY <1>3, <1>4 DEF x, y

LEMMA SumsOfNegs ==
  ASSUME NEW a \in Word, NEW b \in Word
  PROVE  /\ ((Neg(a) \ominus b) \oplus a) = Neg(b)
         /\ Neg(Neg(a) \oplus Neg(b)) = (a \oplus b)
         /\ (a \oplus Neg(Neg(Inv(a)) \oplus K(-1))) = 0
         /\ (Neg(Inv(a)) \oplus K(-1)) = a
<1> DEFINE d == Neg(a)
           e == Neg(b)
           f == d \ominus b
           g == d \oplus e
           h == Neg(Inv(a))
           l == K(-1)
           m == WordMod
<1>1. /\ m \in Nat /\ m >= 8 /\ a \in Nat /\ a < m /\ b \in Nat /\ b < m /\ 0 \in Word
      /\ Inv(a) = m - 1 - a /\ Inv(a) \in Word /\ l \in Word /\ l = m - 1
  BY Given, SmallWords, MinusOne, AsNumbers
<1> HIDE DEF m, l
<1>2. /\ d \in Word /\ d = IF a = 0 THEN 0 ELSE m - a
      /\ e \in Word /\ e = IF b = 0 THEN 0 ELSE m - b
      /\ h \in Word /\ h = IF Inv(a) = 0 THEN 0 ELSE m - Inv(a)
  BY <1>1, NegWord DEF m
<1>3. d \in Nat /\ e \in Nat /\ h \in Nat /\ d < m /\ e < m /\ h < m  BY <1>2, Given DEF m
<1> HIDE DEF d, e, h
<1>4. /\ f \in Word /\ f = IF b <= d THEN d - b ELSE d - b + m
      /\ g \in Word /\ g = IF d + e < m THEN d + e ELSE d + e - m
      /\ (h \oplus l) = IF h + l < m THEN h + l ELSE h + l - m
      /\ (a \oplus b) = IF a + b < m THEN a + b ELSE a + b - m
  <2>1. f \in Word /\ f = IF b <= d THEN d - b ELSE d - b + m  BY <1>2, SumWord DEF m
  <2>2. g \in Word /\ g = IF d + e < m THEN d + e ELSE d + e - m  BY <1>2, SumWord DEF m
  <2>3. (h \oplus l) = IF h + l < m THEN h + l ELSE h + l - m  BY <1>1, <1>2, SumWord DEF m
  <2>4. (a \oplus b) = IF a + b < m THEN a + b ELSE a + b - m  BY SumWord DEF m
  <2> QED  BY <2>1, <2>2, <2>3, <2>4
<1>5. f \in Nat /\ g \in Nat /\ f < m /\ g < m  BY <1>4, Given DEF m
<1> HIDE DEF f, g
<1>6. (f \oplus a) = IF f + a < m THEN f + a ELSE f + a - m  BY <1>4, SumWord DEF m
<1>7. Neg(g) = IF g = 0 THEN 0 ELSE m - g  BY <1>4, NegWord DEF m
<1>8. (a \oplus d) = IF a + d < m THEN a + d ELSE a + d - m  BY <1>2, SumWord DEF m
<1>9. (f \oplus a) = e  BY <1>1, <1>2, <1>3, <1>4, <1>5, <1>6
<1>10. Neg(g) = (a \oplus b)  BY <1>1, <1>2, <1>3, <1>4, <1>5, <1>7
<1>11. (h \oplus l) = a
  <2>1. h = a + 1 \/ (h = 0 /\ a = m - 1)  BY <1>1, <1>2
  <2> QED  BY <1>1, <1>3, <1>4, <2>1
<1>12. (a \oplus d) = 0  BY <1>1, <1>2, <1>3, <1>8
<1> QED  BY <1>9, <1>10, <1>11, <1>12 DEF f, g, d, e, h, l

LEMMA SecondBranch ==
  ASSUME NEW a \in Word
  PROVE  l1266[a] = ((a & K(-\h45552f41)) \otimes (3 \oplus a))
<1> DEFINE A == K(-\h45552f41)
           E == K(\h1aa40b24)
           S == K(\h22c5a958)
<1>1. A \in Word /\ E \in Word /\ S \in Word  BY Constant, SMT
<1>2. /\ K(\h45552f40) = Inv(A) /\ K(-\h1aa40b25) = Inv(E) /\ K(-\h22c5a958) = Neg(S)
      /\ K(-3) = Inv(2) /\ K(-4) = Inv(3)
  BY Opposites, SMT
<1>3. 0 \in Word /\ 1 \in Word /\ 2 \in Word /\ 3 \in Word /\ K(-1) \in Word
  BY SmallWords, MinusOne
<1> HIDE DEF A, E, S
<1>4. Inv(a) \in Word /\ (a & A) \in Word /\ (a & 3) \in Word /\ (a ^^ 3) \in Word
      /\ (a | 3) \in Word /\ (a \oplus 3) \in Word
  BY <1>1, <1>3, Closed
<1>5. l877[a] = Inv(a)
  <2>1. l877[a] = ((AndByXor(Inv(a), Inv(E)) | (a & E)) ^^ E)  BY <1>2, SMT DEF l877, E
  <2>2. Inv(E) \in Word  BY <1>1, Closed
  <2>3. AndByXor(Inv(a), Inv(E)) = (Inv(a) & Inv(E))  BY <1>1, <1>4, <2>2, BitRules
  <2>4. (((Inv(a) & Inv(E)) | (a & E)) ^^ E) = Inv(a)
    <3>1. ASSUME NEW k \in 0 .. W - 1
          PROVE  Bit(((Inv(a) & Inv(E)) | (a & E)) ^^ E, k) <=> Bit(Inv(a), k)
      BY <1>1, BitLaws
    <3>2. (Inv(a) & Inv(E)) \in Word /\ (a & E) \in Word  BY <1>1, <1>4, <2>2, Closed
    <3>3. ((Inv(a) & Inv(E)) | (a & E)) \in Word  BY <3>2, Closed
    <3>4. (((Inv(a) & Inv(E)) | (a & E)) ^^ E) \in Word  BY <1>1, <3>3, Closed
    <3> QED  BY <1>4, <3>1, <3>4, Same
  <2> QED  BY <2>1, <2>3, <2>4
<1>6. l926[a] = a
  <2> DEFINE x == Inv(a)
             t == Neg(x) \oplus K(-1)
  <2>1. l926[a] = Inv((Inv(x) | x) \oplus Neg(t))  BY <1>5 DEF l926
  <2>2. t = a  BY SumsOfNegs
  <2>3. (Inv(x) | x) = Inv(0)  BY <1>4, OneWord
  <2>4. (Inv(0) \oplus Neg(a)) = (Inv(0) \ominus a) /\ Inv(0) \in Word
    <3>1. Inv(0) \in Word  BY <1>3, Closed
    <3> QED  BY <3>1, SumsCancel
  <2>5. (Inv(0) \ominus a) = Inv(a)
    <3>1. /\ a \in Nat /\ a < WordMod /\ WordMod \in Nat
          /\ Inv(0) = WordMod - 1 /\ Inv(a) = WordMod - 1 - a
      BY Given DEF Inv
    <3>2. (Inv(0) \ominus a) = IF a <= Inv(0) THEN Inv(0) - a ELSE Inv(0) - a + WordMod
      BY <2>4, SumWord
    <3> QED  BY <3>1, <3>2
  <2>6. Inv(Inv(a)) = a  BY OneWord
  <2> QED  BY <2>1, <2>2, <2>3, <2>4, <2>5, <2>6
<1>7. l1050[a] = Inv(a & A)
  BY <1>1, <1>2, <1>6, OneWord, TwoWords, SMT DEF l1050
<1>8. l1168[a] = a /\ l1147[a] = (a ^^ 3) /\ l1148[a] = (a ^^ 3)
      /\ l1084[a] = (a | 3) /\ l1068[a] = Inv(a)
  <2>1. l1168[a] = a /\ l1147[a] = (a ^^ 3) /\ l1084[a] = (a | 3)
    BY OneWord DEF l1168, l1147, l1084
  <2>2. l1148[a] = (l1147[a] & l1147[a]) /\ l1068[a] = (Inv(a) & Inv(a))  BY DEF l1148, l1068
  <2> QED  BY <1>4, <2>1, <2>2, OneWord
<1>9. l1189[a] = Neg(a ^^ 3)
  <2> DEFINE z == a ^^ 3
             y == l1181[a]
  <2>1. y = (Double(Inv(Inv(a) | (z & z))) \ominus a)  BY <1>8 DEF l1181
  <2>2. z \in Word /\ (z & z) = z  BY <1>4, OneWord
  <2>3. (a & Inv(z)) = (a & 3)
    <3>1. (a ^^ 3) = (3 ^^ a) /\ (a & Inv(3 ^^ a)) = (a & 3)  BY <1>3, TwoWords
    <3> QED  BY <3>1
  <2>4. (Double(a & 3) \ominus a) = (3 \ominus z)  BY <1>3, XorBySum
  <2> HIDE DEF z, y
  <2>5. Inv(Inv(a) | z) = (a & Inv(z))  BY <2>2, Inverses
  <2>6. y = (3 \ominus z)  BY <2>1, <2>2, <2>3, <2>4, <2>5
  <2>7. (3 \ominus (3 \ominus z)) = z  BY <1>3, <2>2, SumsCancel
  <2>8. l1189[a] = ((Neg(S) \ominus (3 \ominus y)) \oplus S)  BY <1>2, SMT DEF l1189, S, y
  <2>9. ((Neg(S) \ominus z) \oplus S) = Neg(z)  BY <1>1, <2>2, SumsOfNegs
  <2> QED  BY <2>6, <2>7, <2>8, <2>9 DEF z
<1>10. l1090[a] = (a & 3)
  <2> DEFINE o == a | 3
             z == a ^^ 3
             y == Inv(Inv(3) | Inv(a)) | (Inv(3) & Inv(a))
  <2>1. l1090[a] = ((Inv(o) | y) \oplus (o \oplus 1))  BY <1>2, <1>8 DEF l1090
  <2>2. y = Inv(z)
    <3>1. ASSUME NEW k \in 0 .. W - 1 PROVE Bit(y, k) <=> Bit(Inv(z), k)
      BY <1>3, BitLaws
    <3>2. Inv(3) \in Word  BY <1>3, Closed
    <3>3. (Inv(3) | Inv(a)) \in Word /\ (Inv(3) & Inv(a)) \in Word  BY <1>4, <3>2, Closed
    <3>4. Inv(Inv(3) | Inv(a)) \in Word /\ Inv(z) \in Word  BY <1>4, <3>3, Closed
    <3>5. y \in Word  BY <3>3, <3>4, Closed
    <3> HIDE DEF y, z
    <3> QED  BY <3>1, <3>4, <3>5, Same
  <2>3. o \in Word /\ z \in Word /\ (o & Inv(z)) = (a & 3)  BY <1>3, <1>4, Inverses
  <2> HIDE DEF o, z, y
  <2>4. ((Inv(o) | Inv(z)) \oplus (o \oplus 1)) = (o & Inv(z))  BY <2>3, AddedBack
  <2> QED  BY <2>1, <2>2, <2>3, <2>4
<1>11. l1194[a] = (3 \oplus a)
  <2> DEFINE x == a & 3
             z == a ^^ 3
             d == Double(x)
  <2>1. l1194[a] = Neg(l1189[a] \oplus Neg(Product(x | 2, x & 2) \oplus l1129[a]))
    BY <1>10 DEF l1194
  <2>2. l1129[a] = ((x & Inv(2)) \otimes Inv(Inv(2) | x))  BY <1>2, <1>10 DEF l1129
  <2>3. x \in Word /\ z \in Word  BY <1>4
  <2>4. ((a \oplus 3) \ominus d) = z  BY <1>3, XorBySum
  <2> HIDE DEF x, z
  <2>5. d \in Word  BY <2>3, Closed
  <2>6. Inv(Inv(2) | x) = (2 & Inv(x))  BY <1>3, <2>3, Inverses
  <2>7. Product(x | 2, x & 2) = ((x | 2) \otimes (x & 2))
    <3>1. (x | 2) \in Word /\ (x & 2) \in Word  BY <1>3, <2>3, Closed
    <3> QED  BY <3>1, ProductRules
  <2>8. (Product(x | 2, x & 2) \oplus l1129[a]) = d
    <3>1. (((x | 2) \otimes (x & 2)) \oplus ((x & Inv(2)) \otimes (2 & Inv(x)))) = (x \otimes 2)
      BY <1>3, <2>3, ProductOfHalves
    <3>2. (2 \otimes x) = Double(x) /\ (x \otimes 2) = (2 \otimes x)  BY <1>3, <2>3, ProductWord
    <3> QED  BY <2>2, <2>6, <2>7, <3>1, <3>2
  <2> HIDE DEF d
  <2>9. Neg(Neg(z) \oplus Neg(d)) = (z \oplus d)  BY <2>3, <2>5, SumsOfNegs
  <2>10. (((a \oplus 3) \ominus d) \oplus d) = (a \oplus 3)  BY <1>4, <2>5, SumsCancel
  <2>11. (a \oplus 3) = (3 \oplus a)  BY <1>3, SumsCancel
  <2> QED  BY <1>9, <2>1, <2>4, <2>8, <2>9, <2>10, <2>11 DEF z
<1>12. l1266[a] = ((a & A) \otimes (3 \oplus a))
  <2> DEFINE u == a & A
             v == 3 \oplus a
  <2>1. /\ l1050[a] = Inv(u) /\ l1194[a] = v /\ u \in Word /\ v \in Word
        /\ Inv(Inv(u)) = u /\ Inv(u) \in Word /\ Inv(v) \in Word
    <3>1. u \in Word /\ v \in Word  BY <1>3, <1>4, Closed
    <3> HIDE DEF u, v
    <3>2. Inv(Inv(u)) = u /\ Inv(u) \in Word /\ Inv(v) \in Word  BY <3>1, OneWord, Closed
    <3> QED  BY <1>7, <1>11, <3>1, <3>2 DEF u, v
  <2>2. l1265[a] = Product(OrBySum(u, v), Inv(Inv(u) | Inv(v)) | (u & v))
    BY <2>1 DEF l1265
  <2>3. l1266[a] = (l1265[a] \oplus Product(NotByShift(u | Inv(v)), Inv(Inv(u) | v)))
    BY <2>1 DEF l1266
  <2> HIDE DEF u, v
  <2>4. /\ OrBySum(u, v) = (u | v) /\ Inv(Inv(u) | Inv(v)) = (u & v)
        /\ (u & v) \in Word /\ (u | v) \in Word /\ (u | Inv(v)) \in Word
        /\ (v & Inv(u)) \in Word /\ (u & Inv(v)) \in Word
    BY <2>1, OrRules, Inverses, Closed
  <2>5. ((u & v) | (u & v)) = (u & v)  BY <2>4, OneWord
  <2>6. l1265[a] = ((u | v) \otimes (u & v))  BY <2>2, <2>4, <2>5, ProductRules
  <2>7. NotByShift(u | Inv(v)) = (v & Inv(u)) /\ Inv(Inv(u) | v) = (u & Inv(v))
    BY <2>1, <2>4, NotRules, Inverses
  <2>8. Product(v & Inv(u), u & Inv(v)) = ((v & Inv(u)) \otimes (u & Inv(v)))
    BY <2>4, ProductRules
  <2> QED  BY <2>1, <2>3, <2>6, <2>7, <2>8, ProductOfHalves DEF u, v
<1> QED  BY <1>12, SMT DEF A
-----------------------------------------------------------------------------
(***************************************************************************)
(* The branch for the remainder 2.                                         *)
(***************************************************************************)
LEMMA SumsMove ==
  ASSUME NEW a \in Word, NEW b \in Word, NEW c \in Word
  PROVE  (((a \oplus b) \oplus c) \ominus b) = (a \oplus c)
<1> DEFINE m == WordMod
           s == a \oplus b
           t == s \oplus c
<1>1. m \in Nat /\ m >= 1 /\ a \in Nat /\ a < m /\ b \in Nat /\ b < m /\ c \in Nat /\ c < m
  BY Given
<1> HIDE DEF m
<1>2. s \in Word /\ s = IF a + b < m THEN a + b ELSE a + b - m  BY SumWord DEF m
<1>3. s \in Nat /\ s < m  BY <1>2, Given DEF m
<1> HIDE DEF s
<1>4. t \in Word /\ t = IF s + c < m THEN s + c ELSE s + c - m  BY <1>2, SumWord DEF m
<1>5. t \in Nat /\ t < m  BY <1>4, Given DEF m
<1> HIDE DEF t
<1>6. (t \ominus b) = IF b <= t THEN t - b ELSE t - b + m  BY <1>4, SumWord DEF m
<1>7. (a \oplus c) = IF a + c < m THEN a + c ELSE a + c - m  BY SumWord DEF m
<1>8. (t \ominus b) = (a \oplus c)  BY <1>1, <1>2, <1>3, <1>4, <1>5, <1>6, <1>7
<1> QED  BY <1>8 DEF t, s

(* Masking both sides of an exclusive or changes nothing.                  *)
LEMMA MaskedXor ==
  ASSUME NEW x \in Word, NEW y \in Word, NEW g \in Word
  PROVE  LET p == (Inv(x) & g) | (x & Inv(g))
             q == (Inv(y) & g) | (y & Inv(g))
         IN  /\ p \in Word /\ q \in Word
             /\ Inv(Inv(Inv(p) & q) & Inv(p & Inv(q))) = (x ^^ y)
<1> DEFINE p == (Inv(x) & g) | (x & Inv(g))
           q == (Inv(y) & g) | (y & Inv(g))
           r == Inv(p) & q
           s == p & Inv(q)
           z == Inv(Inv(r) & Inv(s))
<1>1. ASSUME NEW k \in 0 .. W - 1
      PROVE  /\ Bit(p, k) <=> ~ (Bit(x, k) <=> Bit(g, k))
             /\ Bit(q, k) <=> ~ (Bit(y, k) <=> Bit(g, k))
  BY BitLaws
<1>2. Inv(x) \in Word /\ Inv(y) \in Word /\ Inv(g) \in Word  BY Closed
<1>3. /\ (Inv(x) & g) \in Word /\ (x & Inv(g)) \in Word
      /\ (Inv(y) & g) \in Word /\ (y & Inv(g)) \in Word
  BY <1>2, Closed
<1>4. p \in Word /\ q \in Word  BY <1>3, Closed
<1> HIDE DEF p, q
<1>5. Inv(p) \in Word /\ Inv(q) \in Word  BY <1>4, Closed
<1>6. r \in Word /\ s \in Word  BY <1>4, <1>5, Closed
<1>7. ASSUME NEW k \in 0 .. W - 1 PROVE Bit(r | s, k) <=> Bit(x ^^ y, k)
  <2>1. /\ Bit(r, k) <=> ~ Bit(p, k) /\ Bit(q, k)
        /\ Bit(s, k) <=> Bit(p, k) /\ ~ Bit(q, k)
    BY <1>4, BitLaws
  <2> HIDE DEF r, s
  <2>2. Bit(r | s, k) <=> Bit(r, k) \/ Bit(s, k)  BY <1>6, BitLaws
  <2>3. Bit(x ^^ y, k) <=> ~ (Bit(x, k) <=> Bit(y, k))  BY BitLaws
  <2> QED  BY <1>1, <2>1, <2>2, <2>3
<1> HIDE DEF r, s
<1>8. (r | s) \in Word /\ (x ^^ y) \in Word  BY <1>6, Closed
<1>9. (r | s) = (x ^^ y)  BY <1>7, <1>8, Same
<1>10. z = (r | s)  BY <1>6, Inverses
<1> QED  BY <1>4, <1>9, <1>10 DEF r, s, p, q

LEMMA ThirdBranch ==
  ASSUME NEW a \in Word
  PROVE  l1828[a] = ((a ^^ K(-\h45552f41)) \otimes (4 | a))
<1> DEFINE A == K(-\h45552f41)
           G == K(\h528f640e)
           F == K(\h6da44705)
           H == K(\h7f4e7180)
           J == K(-\h1e1a447a)
           T == K(\h4cdde188)
           U == K(-\h3773a719)
<1>1. A \in Word /\ G \in Word /\ F \in Word /\ H \in Word /\ J \in Word /\ T \in Word /\ U \in Word
  BY Constant, SMT
<1>2. K(\h45552f40) = Inv(A) /\ K(-\h528f640f) = Inv(G) /\ K(-5) = Inv(4)
  BY Opposites, SMT
<1>3. 0 \in Word /\ 1 \in Word /\ 2 \in Word /\ 4 \in Word /\ 5 \in Word /\ K(-1) \in Word
      /\ Inv(4) \in Word
  BY SmallWords, MinusOne, Closed
<1> HIDE DEF A, G, F, H, J, T, U
<1>4. Inv(a) \in Word /\ (a & A) \in Word /\ Inv(A) \in Word /\ Inv(0) \in Word
      /\ (a ^^ A) \in Word /\ Inv(Inv(a)) = a
  BY <1>1, <1>3, Closed, OneWord
<1>5. (Inv(a) & Inv(A)) \in Word  BY <1>4, Closed
<1>6. l21[a] = Inv(a) /\ l663[a] = a /\ l571[a] = Inv(0) /\ l1068[a] = Inv(a) /\ l1168[a] = a
      /\ l680[a] = (a \oplus K(-1))
  <2>1. l21[a] = Inv(a) /\ l1068[a] = Inv(a)  BY <1>4, OneWord DEF l21, l1068
  <2>2. l663[a] = a /\ l1168[a] = a  BY OneWord DEF l663, l1168
  <2>3. l571[a] = Inv(0)  BY OneWord DEF l571
  <2> QED  BY <2>1, <2>2, <2>3 DEF l680
<1>7. l1376[a] = (a & A)
  <2> DEFINE t == l680[a] \ominus Product(l1168[a], 2)
  <2>1. l1376[a] = (Inv((Inv(a) ^^ Inv(t)) & Inv(a)) & A)  BY SMT DEF l1376, A
  <2>2. t = Inv(a)
    <3>1. Product(a, 2) = (a \otimes 2) /\ (a \otimes 2) = (2 \otimes a) /\ (2 \otimes a) = Double(a)
      BY <1>3, ProductRules, ProductWord
    <3>2. ((a \oplus K(-1)) \ominus Double(a)) = Inv(a)  BY NotRules DEF NotByShift
    <3> QED  BY <1>6, <3>1, <3>2
  <2>3. (Inv(a) ^^ a) = Inv(0)
    <3>1. (Inv(a) ^^ a) = Inv(a ^^ a) /\ (a ^^ a) = 0  BY XorOfInv, OneWord
    <3> QED  BY <3>1
  <2>4. (Inv(0) & Inv(a)) = Inv(a)  BY <1>4, OneWord, Inverses
  <2> QED  BY <1>4, <2>1, <2>2, <2>3, <2>4
<1>8. l1491[a] = (Inv(a) & Inv(A))
  <2> DEFINE x == (A & a) | (Inv(a) & Inv(A))
  <2>1. l1391[a] = Inv(a)
    <3>1. l1391[a] = Inv(a | Inv(Inv(a)))  BY <1>6 DEF l1391
    <3> QED  BY <1>4, <3>1, OneWord
  <2>2. l1465[a] = Inv(a)
    <3>1. l1465[a] = ((Inv(a) | Inv(a)) & Inv(0))  BY <1>6, <2>1 DEF l1465
    <3> QED  BY <1>4, <3>1, OneWord
  <2>3. l1491[a] = AndByXor(x, Inv(a))
    <3>1. l1491[a] = AndByXor((A & Inv(Inv(a))) | (Inv(a) & Inv(A)), Inv(a))
      BY <1>2, <2>2, SMT DEF l1491, A
    <3> QED  BY <1>4, <3>1
  <2>4. (A & a) \in Word  BY <1>1, Closed
  <2>5. x \in Word  BY <1>5, <2>4, Closed
  <2>6. (x & Inv(a)) = (Inv(a) & Inv(A))
    <3>1. ASSUME NEW k \in 0 .. W - 1
          PROVE  Bit(x & Inv(a), k) <=> Bit(Inv(a) & Inv(A), k)
      BY <1>1, BitLaws
    <3> HIDE DEF x
    <3>2. (x & Inv(a)) \in Word  BY <1>4, <2>5, Closed
    <3> QED  BY <1>5, <3>1, <3>2, Same
  <2> HIDE DEF x
  <2> QED  BY <1>4, <2>3, <2>5, <2>6, BitRules
<1>9. l1550[a] = Inv(a ^^ A)
  <2> DEFINE x == a & A
             y == Inv(a) & Inv(A)
             p == (Inv(x) & G) | (x & Inv(G))
             q == (Inv(y) & G) | (y & Inv(G))
  <2>1. l1505[a] = p  BY <1>2, <1>7, SMT DEF l1505, G
  <2>2. x \in Word /\ y \in Word  BY <1>4, <1>5
  <2>3. (x | y) = Inv(a ^^ A)  BY <1>1, TwoWords
  <2> HIDE DEF x, y
  <2>4. p \in Word /\ q \in Word /\ Inv(Inv(Inv(p) & q) & Inv(p & Inv(q))) = (x ^^ y)
    BY <1>1, <2>2, MaskedXor
  <2>5. l1511[a] = q
    <3>1. l1511[a] = OrBySum(Inv(y) & G, y & Inv(G))  BY <1>2, <1>8, SMT DEF l1511, G, y
    <3>2. Inv(y) \in Word /\ Inv(G) \in Word  BY <1>1, <2>2, Closed
    <3>3. (Inv(y) & G) \in Word /\ (y & Inv(G)) \in Word  BY <1>1, <2>2, <3>2, Closed
    <3> QED  BY <3>1, <3>3, OrRules
  <2> HIDE DEF p, q
  <2>6. Inv(p) \in Word /\ Inv(q) \in Word  BY <2>4, Closed
  <2>7. (Inv(p) | Inv(p)) = Inv(p) /\ (Inv(q) | Inv(q)) = Inv(q)  BY <2>6, OneWord
  <2>8. l1519[a] = Inv(Inv(p) & q)  BY <2>1, <2>5, <2>7 DEF l1519
  <2>9. l1550[a] = (Inv(l1519[a] & Inv(p & (Inv(q) | Inv(q)))) | Inv(Inv(x) | Inv(y)))
    BY <1>7, <1>8, <2>1, <2>5 DEF l1550, x, y
  <2>10. Inv(Inv(x) | Inv(y)) = (x & y)  BY <2>2, Inverses
  <2>11. ((x ^^ y) | (x & y)) = (x | y)  BY <2>2, TwoWords
  <2> QED  BY <2>3, <2>4, <2>7, <2>8, <2>9, <2>10, <2>11
<1>10. l1685[a] = (4 | a)
  <2> DEFINE s == Inv(4) & a
             t == 4 & Inv(a)
             w == (Inv(4) | a) \oplus 5
  <2>1. l1608[a] = s  BY <1>2, <1>4, <1>6 DEF l1608
  <2>2. l1649[a] = a
    <3>1. l1649[a] = Inv(Inv(a) | Inv(a))  BY NotRules DEF l1649
    <3> QED  BY <1>4, <3>1, OneWord
  <2>3. s \in Word /\ t \in Word /\ (s | t) \in Word /\ (4 & a) \in Word /\ (4 | a) \in Word
    <3>1. s \in Word /\ t \in Word  BY <1>3, <1>4, Closed
    <3> HIDE DEF s, t
    <3> QED  BY <1>3, <3>1, Closed
  <2>4. l1685[a] = OrByCarry(w, OrBySum(NotByDouble(Inv(s & s)), 4 & Inv(a & a)))
    BY <1>2, <2>1, <2>2 DEF l1685
  <2>5. w = (4 & a)
    <3>1. ((Inv(4) | Inv(Inv(a))) \oplus (4 \oplus 1)) = (4 & Inv(Inv(a)))
      BY <1>3, <1>4, AddedBack
    <3>2. (4 \oplus 1) = 5
      <4>1. (4 \oplus 1) = IF 4 + 1 < WordMod THEN 4 + 1 ELSE 4 + 1 - WordMod  BY <1>3, SumWord
      <4> QED  BY <4>1, SmallWords, Given
    <3> QED  BY <1>4, <3>1, <3>2
  <2>6. ((4 & a) | (s | t)) = (4 | a)
    <3>1. ASSUME NEW k \in 0 .. W - 1
          PROVE  Bit((4 & a) | (s | t), k) <=> Bit(4 | a, k)
      BY <1>3, BitLaws
    <3>2. ((4 & a) | (s | t)) \in Word  BY <2>3, Closed
    <3> QED  BY <2>3, <3>1, <3>2, Same
  <2>7. (a & a) = a  BY OneWord
  <2> HIDE DEF w, s
  <2>8. (s & s) = s /\ NotByDouble(Inv(s)) = s
    <3>1. Inv(s) \in Word /\ Inv(Inv(s)) = s /\ (s & s) = s  BY <2>3, Closed, OneWord
    <3> QED  BY <3>1, NotRules
  <2>9. OrBySum(s, t) = (s | t)  BY <2>3, OrRules
  <2>10. OrByCarry(4 & a, s | t) = ((4 & a) | (s | t))  BY <2>3, OrRules
  <2> QED  BY <2>4, <2>5, <2>6, <2>7, <2>8, <2>9, <2>10
<1>11. l1828[a] = ((a ^^ A) \otimes (4 | a))
  <2> DEFINE u == a ^^ A
             v == 4 | a
             o == u | v
             c == u & v
             x == u & Inv(v)
             y == v & Inv(u)
  <2>1. u \in Word /\ v \in Word /\ l1550[a] = Inv(u) /\ l1685[a] = v
    BY <1>3, <1>4, <1>9, <1>10, Closed
  <2> HIDE DEF u, v
  <2>2. Inv(u) \in Word /\ Inv(v) \in Word /\ Inv(Inv(u)) = u /\ Inv(Inv(v)) = v
        /\ (v & v) = v /\ (Inv(v) & Inv(v)) = Inv(v) /\ (Inv(u) | Inv(u)) = Inv(u)
    <3>1. Inv(u) \in Word /\ Inv(v) \in Word /\ Inv(Inv(u)) = u /\ Inv(Inv(v)) = v /\ (v & v) = v
      BY <2>1, Closed, OneWord
    <3> QED  BY <3>1, OneWord
  <2>3. o \in Word /\ c \in Word /\ x \in Word /\ y \in Word  BY <2>1, <2>2, Closed
  <2>4. (o \otimes c) \in Word /\ (x \otimes y) \in Word
    <3> HIDE DEF o, c, x, y
    <3> QED  BY <2>3, Closed
  <2>5. l1810[a] = ((o \otimes c) \oplus F)
    <3>1. l1782[a] = o /\ l1781[a] = c  BY <2>1, <2>2 DEF l1782, l1781
    <3>2. l1810[a] = (ProductByNor(OrByCarry(o, c), o & c) \oplus F)  BY <3>1, SMT DEF l1810, F
    <3>3. (o | c) = o /\ (o & c) = c
      <4>1. ASSUME NEW k \in 0 .. W - 1
            PROVE  (Bit(o | c, k) <=> Bit(o, k)) /\ (Bit(o & c, k) <=> Bit(c, k))
        BY <2>1, BitLaws
      <4>2. (o | c) \in Word /\ (o & c) \in Word
        <5> HIDE DEF o, c
        <5> QED  BY <2>3, Closed
      <4> QED  BY <2>3, <4>1, <4>2, Same
    <3> HIDE DEF o, c
    <3>4. OrByCarry(o, c) = o /\ ProductByNor(o, c) = (o \otimes c)
      BY <2>3, <3>3, OrRules, ProductRules
    <3> QED  BY <3>2, <3>3, <3>4
  <2>6. l1811[a] = l1810[a]
    <3>1. l1782[a] = o /\ l1781[a] = c  BY <2>1, <2>2 DEF l1782, l1781
    <3>2. l1811[a] = (l1810[a] \oplus (Inv(o | Inv(c)) \otimes (o & Inv(c))))
      BY <3>1 DEF l1811
    <3>3. (c & Inv(o)) = 0
      <4>1. ASSUME NEW k \in 0 .. W - 1 PROVE Bit(c & Inv(o), k) <=> Bit(0, k)
        BY <2>1, BitLaws
      <4>2. Inv(o) \in Word
        <5> HIDE DEF o
        <5> QED  BY <2>3, Closed
      <4>3. (c & Inv(o)) \in Word  BY <2>3, <4>2, Closed
      <4> QED  BY <1>3, <4>1, <4>3, Same
    <3> HIDE DEF o, c
    <3>4. Inv(o | Inv(c)) = 0  BY <2>3, <3>3, Inverses
    <3>5. Inv(c) \in Word  BY <2>3, Closed
    <3> DEFINE f == o & Inv(c)
    <3>6. f \in Word  BY <2>3, <3>5, Closed
    <3> HIDE DEF f
    <3>7. (0 \otimes f) = 0  BY <3>6, Given DEF \otimes
    <3>8. l1810[a] \in Word
      <4>1. (o \otimes c) \in Word  BY <2>3, Closed
      <4> QED  BY <1>1, <2>5, <4>1, Closed
    <3>9. (l1810[a] \oplus 0) = l1810[a]  BY <3>8, SumsCancel
    <3> QED  BY <3>2, <3>4, <3>7, <3>9 DEF f
  <2>7. (l1767[a] \ominus H) = x
    <3> DEFINE p == Inv(u) | Inv(v)
               q == u \oplus 1
    <3>1. l1766[a] = ((Inv(u) | NandMasked(v, Inv(v & Inv(v)), U)) \oplus H)
      BY <2>1, SMT DEF l1766, H, U
    <3>2. NandMasked(v, Inv(v & Inv(v)), U) = Inv(v)
      <4>1. (v & Inv(v)) = 0 /\ (v & Inv(0)) = v  BY <2>1, OneWord
      <4>2. NandMasked(v, Inv(0), U) = Inv(v & Inv(0))  BY <1>1, <1>4, <2>1, BitRules
      <4> QED  BY <4>1, <4>2
    <3>3. l1767[a] = (l1766[a] \oplus (((u \oplus J) \oplus 1) \ominus J))
      BY <2>1, <2>2, SMT DEF l1767, J
    <3>4. (((u \oplus J) \oplus 1) \ominus J) = q  BY <1>1, <1>3, <2>1, SumsMove
    <3>5. l1767[a] = ((p \oplus H) \oplus q)  BY <2>2, <3>1, <3>2, <3>3, <3>4
    <3>6. (p \oplus q) = x  BY <2>1, AddedBack
    <3>7. p \in Word /\ q \in Word  BY <1>3, <2>1, <2>2, Closed
    <3> HIDE DEF p, q, x
    <3>8. (((p \oplus H) \oplus q) \ominus H) = (p \oplus q)  BY <1>1, <3>7, SumsMove
    <3> QED  BY <3>5, <3>6, <3>8
  <2>8. l1715[a] = y
    <3>1. l1715[a] = ((Inv(v) | (Inv(u) | Inv(u))) \oplus (v \oplus 1))  BY <2>1 DEF l1715
    <3> QED  BY <2>1, <2>2, <3>1, AddedBack
  <2>9. ((o \otimes c) \oplus (x \otimes y)) = (u \otimes v)  BY <2>1, ProductOfHalves
  <2> HIDE DEF o, c, x, y
  <2>10. l1780[a] = (x \otimes y)
    <3>1. l1780[a] = ProductByNor(x, y)  BY <2>7, <2>8, SMT DEF l1780, H
    <3> QED  BY <2>3, <3>1, ProductRules
  <2> DEFINE X == o \otimes c
             Y == x \otimes y
  <2>11. (l1811[a] \ominus F) = X  BY <1>1, <2>4, <2>5, <2>6, SumsCancel
  <2>12. l1828[a] = Neg(Neg(X) \ominus Neg((T \ominus Y) \ominus T))
    BY <2>10, <2>11, SMT DEF l1828, T, F
  <2>13. X \in Word /\ Y \in Word  BY <2>4
  <2> HIDE DEF X, Y
  <2>14. ((T \ominus Y) \ominus T) = Neg(Y) /\ Neg(Neg(Y)) = Y  BY <1>1, <2>13, SumsCancel
  <2>15. Neg(X) \in Word  BY <2>13, Closed
  <2>16. Neg(Neg(X) \ominus Y) = (Y \ominus Neg(X))  BY <2>13, <2>15, SumsCancel
  <2>17. (Y \oplus Neg(Neg(X))) = (Y \ominus Neg(X)) /\ Neg(Neg(X)) = X /\ (Y \oplus X) = (X \oplus Y)
    BY <2>13, <2>15, SumsCancel
  <2> QED  BY <2>9, <2>12, <2>14, <2>16, <2>17 DEF X, Y, u, v
<1> QED  BY <1>11, SMT DEF A
-----------------------------------------------------------------------------
(***************************************************************************)
(* The branch for any other remainder.                                     *)
(***************************************************************************)
LEMMA SumOfHalves ==
  ASSUME NEW a \in Word, NEW b \in Word
  PROVE  ((a & b) \oplus (a | b)) = (a \oplus b)
<1> DEFINE c == a & b
           o == a | b
           m == WordMod
<1>1. c \in Word /\ o \in Word /\ o = a + b - c  BY AsNumbers
<1>2. m \in Nat /\ m >= 1 /\ a \in Nat /\ b \in Nat /\ c \in Nat /\ o \in Nat  BY <1>1, Given
<1> HIDE DEF c, o, m
<1>3. (c \oplus o) = IF c + o < m THEN c + o ELSE c + o - m  BY <1>1, SumWord DEF m
<1>4. (a \oplus b) = IF a + b < m THEN a + b ELSE a + b - m  BY SumWord DEF m
<1>5. (c \oplus o) = (a \oplus b)  BY <1>1, <1>2, <1>3, <1>4
<1> QED  BY <1>5 DEF c, o

LEMMA LastBranch ==
  ASSUME NEW a \in Word
  PROVE  l2185[a] = ((a \oplus K(-\h45552f41)) \otimes (5 & a))
<1> DEFINE A == K(-\h45552f41)
           G == K(\h5c35d8ce)
           Q == K(-\h5c35d8cc)
           U == K(-\h7a0becda)
           Z == K(-\h61921520)
<1>1. A \in Word /\ G \in Word /\ Q \in Word /\ U \in Word /\ Z \in Word
  BY Constant, SMT
<1>2. K(\h45552f41) = Neg(A) /\ K(-\h5c35d8cf) = Inv(G) /\ (Inv(G) ^^ 5) = Q
  BY Opposites, Xors, SMT
<1>3. 0 \in Word /\ 1 \in Word /\ 5 \in Word /\ 6 \in Word  BY SmallWords
<1> HIDE DEF A, G, Q, U, Z
<1>4. Inv(a) \in Word /\ Inv(Inv(a)) = a /\ Inv(5) \in Word /\ Inv(G) \in Word
      /\ Neg(a) \in Word /\ Neg(A) \in Word /\ (a \oplus A) \in Word /\ (5 & a) \in Word
  BY <1>1, <1>3, Closed, OneWord
<1>5. l1846[a] = (a \oplus A)
  <2>1. l1846[a] = Neg((Neg(a) & Neg(A)) \oplus (Neg(a) | Neg(A)))
    BY <1>2, SMT DEF l1846, l1838
  <2>2. ((Neg(a) & Neg(A)) \oplus (Neg(a) | Neg(A))) = (Neg(a) \oplus Neg(A))
    BY <1>4, SumOfHalves
  <2> QED  BY <1>1, <2>1, <2>2, SumsOfNegs
<1>6. l1877[a] = Inv(a) /\ l1068[a] = Inv(a)
  BY <1>4, NotRules, OneWord DEF l1877, l1068
<1>7. l1966[a] = (a ^^ G)
  <2> DEFINE x == a | Inv(G)
             y == Inv(a) | G
             z == x & y
  <2>1. l1966[a] = NandMasked(x, y, U)  BY <1>2, <1>4, <1>6, SMT DEF l1966, G, U
  <2>2. Inv(z) = (a ^^ G)
    <3>1. ASSUME NEW k \in 0 .. W - 1 PROVE Bit(Inv(z), k) <=> Bit(a ^^ G, k)
      BY <1>1, BitLaws
    <3>2. x \in Word /\ y \in Word  BY <1>1, <1>4, Closed
    <3> HIDE DEF x, y
    <3>3. z \in Word /\ (a ^^ G) \in Word  BY <1>1, <3>2, Closed
    <3> HIDE DEF z
    <3>4. Inv(z) \in Word  BY <3>3, Closed
    <3> QED  BY <3>1, <3>3, <3>4, Same
  <2>3. x \in Word /\ y \in Word  BY <1>1, <1>4, Closed
  <2> HIDE DEF x, y
  <2>4. NandMasked(x, y, U) = Inv(z)  BY <1>1, <2>3, BitRules
  <2> QED  BY <2>1, <2>2, <2>4
<1>8. l1974[a] = (a & Inv(5))
  BY <1>3, <1>6, Inverses DEF l1974
<1>9. l2003[a] = (5 & a)
  <2> DEFINE z == a ^^ G
             x == Q ^^ z
             y == a & Inv(5)
  <2>1. l2003[a] = ((((Q \oplus z) \ominus Double(Q & z)) | (y | y)) \oplus 6)
    BY <1>7, <1>8, SMT DEF l2003, Q
  <2>2. z \in Word /\ y \in Word  BY <1>1, <1>4, Closed
  <2>3. x \in Word
    <3> HIDE DEF z
    <3> QED  BY <1>1, <2>2, Closed
  <2>4. (x | y) = (Inv(5) | a)
    <3>1. ASSUME NEW k \in 0 .. W - 1 PROVE Bit(x | y, k) <=> Bit(Inv(5) | a, k)
      <4>1. Bit(Q, k) <=> Bit(Inv(G) ^^ 5, k)  BY <1>2
      <4>2. Bit(Q, k) <=> ~ (~ Bit(G, k) <=> Bit(5, k))  BY <1>1, <1>3, <1>4, <4>1, BitLaws
      <4>3. Bit(x, k) <=> ~ (Bit(Q, k) <=> ~ (Bit(a, k) <=> Bit(G, k)))
        BY <1>1, BitLaws
      <4>4. Bit(y, k) <=> Bit(a, k) /\ ~ Bit(5, k)  BY <1>3, BitLaws
      <4>5. Bit(Inv(5) | a, k) <=> ~ Bit(5, k) \/ Bit(a, k)  BY <1>3, BitLaws
      <4> HIDE DEF x, y
      <4>6. Bit(x | y, k) <=> Bit(x, k) \/ Bit(y, k)  BY <2>2, <2>3, BitLaws
      <4> QED  BY <4>2, <4>3, <4>4, <4>5, <4>6
    <3> HIDE DEF x, y
    <3>2. (x | y) \in Word /\ (Inv(5) | a) \in Word  BY <1>4, <2>2, <2>3, Closed
    <3> QED  BY <3>1, <3>2, Same
  <2> HIDE DEF z, y
  <2>5. ((Q \oplus z) \ominus Double(Q & z)) = x /\ (y | y) = y  BY <1>1, <2>2, XorBySum, OneWord
  <2>6. ((Inv(5) | Inv(Inv(a))) \oplus (5 \oplus 1)) = (5 & Inv(Inv(a)))
    BY <1>3, <1>4, AddedBack
  <2>7. (5 \oplus 1) = 6
    <3>1. (5 \oplus 1) = IF 5 + 1 < WordMod THEN 5 + 1 ELSE 5 + 1 - WordMod  BY <1>3, SumWord
    <3> QED  BY <3>1, SmallWords, Given
  <2> HIDE DEF x
  <2> QED  BY <1>4, <2>1, <2>4, <2>5, <2>6, <2>7
<1>10. l2185[a] = ((a \oplus A) \otimes (5 & a))
  <2> DEFINE p == a \oplus A
             q == 5 & a
             x == p & Inv(q)
             y == q & Inv(p)
             X == (p | q) \otimes (p & q)
             Y == x \otimes y
  <2>1. p \in Word /\ q \in Word /\ l1846[a] = p /\ l2003[a] = q  BY <1>4, <1>5, <1>9
  <2> HIDE DEF p, q
  <2>2. /\ Inv(p) \in Word /\ Inv(q) \in Word /\ Inv(Inv(p)) = p /\ Inv(Inv(q)) = q
        /\ (p & q) \in Word /\ (p | q) \in Word
    BY <2>1, Closed, OneWord
  <2>3. Inv(p & q) \in Word /\ Inv(Inv(p & q)) = (p & q) /\ (Inv(p) | Inv(q)) = Inv(p & q)
    BY <2>1, <2>2, Closed, OneWord, TwoWords
  <2>4. x \in Word /\ y \in Word  BY <2>1, <2>2, Closed
  <2>5. X \in Word /\ Y \in Word
    <3> HIDE DEF x, y
    <3> QED  BY <2>2, <2>4, Closed
  <2>6. l2165[a] = Inv(p & q)
    <3>1. l2165[a] = Inv((Inv(p) | Inv(Inv(q))) \oplus (p \oplus 1))  BY <2>1, <2>2 DEF l2165
    <3>2. ((Inv(p) | Inv(Inv(q))) \oplus (p \oplus 1)) = (p & Inv(Inv(q)))
      BY <2>1, <2>2, AddedBack
    <3> QED  BY <2>2, <3>1, <3>2
  <2>7. l2180[a] = X
    <3> DEFINE r == Inv(p & q)
    <3>1. l2180[a] = (OrByCarry(p, q) \otimes Inv(AndByXor(r, r)))
      BY <2>1, <2>3, <2>6 DEF l2180
    <3>2. r \in Word /\ Inv(r) = (p & q)  BY <2>3
    <3> HIDE DEF r
    <3>3. AndByXor(r, r) = r  BY <3>2, BitRules, OneWord
    <3>4. OrByCarry(p, q) = (p | q)  BY <2>1, OrRules
    <3> QED  BY <3>1, <3>2, <3>3, <3>4
  <2>8. l2044[a] = q
    <3>1. (Inv(q) & Inv(q)) = Inv(q) /\ (q | q) = q /\ (Inv(q) | Inv(q)) = Inv(q)
      BY <2>1, <2>2, OneWord
    <3>2. NotByDouble(q) = Inv(q)  BY <2>1, NotRules
    <3> QED  BY <2>1, <2>2, <3>1, <3>2 DEF l2044
  <2>9. l2131[a] = Inv(q)
    <3>1. (Inv(q) | Inv(q)) = Inv(q) /\ (q | q) = q /\ (q & Inv(q)) = 0 /\ (Inv(q) | 0) = Inv(q)
      BY <2>1, <2>2, OneWord
    <3>2. ((Inv(q) | Inv(q)) \oplus (q \oplus 1)) = (q & Inv(q))  BY <2>1, AddedBack
    <3>3. NotByShift(q) = Inv(q)  BY <2>1, NotRules
    <3> QED  BY <2>1, <2>8, <3>1, <3>2, <3>3 DEF l2131
  <2>10. l2145[a] = Y
    <3> DEFINE s == Inv(q)
    <3>1. l2145[a] = ((Inv(Inv(p) | Inv(s)) | (p & s)) \otimes Inv(s | p))
      BY <2>1, <2>9 DEF l2145
    <3>2. Inv(s | p) = y  BY <2>1, Inverses
    <3>3. s \in Word /\ x = (p & s)  BY <2>2
    <3> HIDE DEF s, x
    <3>4. Inv(Inv(p) | Inv(s)) = (p & s)  BY <2>1, <3>3, Inverses
    <3>5. (x | x) = x  BY <2>4, OneWord
    <3> QED  BY <3>1, <3>2, <3>3, <3>4, <3>5
  <2>11. (X \oplus Y) = (p \otimes q)  BY <2>1, ProductOfHalves
  <2>12. l2185[a] = (((X \ominus Z) \oplus Y) \oplus Z)  BY <2>7, <2>10, SMT DEF l2185, Z
  <2> HIDE DEF X, Y
  <2> DEFINE N == Neg(Z)
             t == (X \oplus N) \oplus Y
  <2>13. N \in Word /\ Neg(N) = Z /\ (X \oplus N) = (X \ominus Z) /\ (X \oplus N) \in Word
    <3>1. N \in Word  BY <1>1, Closed
    <3> QED  BY <1>1, <2>5, <3>1, SumsCancel, Closed
  <2>14. (((X \oplus N) \oplus Y) \ominus N) = (X \oplus Y)  BY <2>5, <2>13, SumsMove
  <2> HIDE DEF N
  <2>15. t \in Word  BY <2>5, <2>13, Closed
  <2> HIDE DEF t
  <2>16. (t \oplus Neg(N)) = (t \ominus N)  BY <2>13, <2>15, SumsCancel
  <2> QED  BY <2>11, <2>12, <2>13, <2>14, <2>16 DEF t, p, q
<1> QED  BY <1>10, SMT DEF A
-----------------------------------------------------------------------------
(***************************************************************************)
(* The remainder that calc_0 chooses its branch by, and the program.       *)
(***************************************************************************)
LEMMA BranchOfRemainder ==
  ASSUME NEW a \in Word
  PROVE  LET b == Signed(a \ominus 1)
             r == Remainder(b, 4)
             k == IF b < 0 /\ a % 4 # 1 THEN 3 ELSE (a \ominus 1) % 4
         IN  /\ b \in Int /\ r \in -3 .. 3 /\ (r # 0 => (r < 0 <=> b < 0))
             /\ r = 0 => k = 0
             /\ r = 1 => k = 1
             /\ r = 2 => k = 2
             /\ r \notin {0, 1, 2} => k = 3
<1> DEFINE m == WordMod
           q == Power[W - 2]
           h == Power[W - 1]
           t == a \ominus 1
           b == Signed(t)
           r == Remainder(b, 4)
           k == IF b < 0 /\ a % 4 # 1 THEN 3 ELSE t % 4
<1>1. m = 4 * q /\ h = 2 * q /\ q \in Nat /\ q >= 1
  <2>1. W - 2 \in Nat /\ W - 1 \in Nat /\ (W - 2) + 1 = W - 1 /\ (W - 1) + 1 = W  BY Given
  <2>2. Power[W - 1] = 2 * Power[W - 2] /\ Power[W] = 2 * Power[W - 1]  BY <2>1, PowerFacts
  <2> QED  BY <2>1, <2>2, PowerFacts, Given
<1>2. t \in Word /\ t = IF 1 <= a THEN a - 1 ELSE a - 1 + m  BY SmallWords, SumWord
<1>3. a \in Nat /\ a < m /\ t \in Nat /\ t < m  BY <1>2, Given
<1>4. b = IF t < h THEN t ELSE t - m  BY DEF Signed
<1>5. r = IF b < 0 THEN -((-b) % 4) ELSE b % 4  BY DEF Remainder
<1> HIDE DEF m, q, h, t
<1>6. b \in Int  BY <1>1, <1>3, <1>4
<1> HIDE DEF b
<1>7. r \in -3 .. 3 /\ (r # 0 => (r < 0 <=> b < 0))  BY <1>5, <1>6
<1>8. r = 0 => a % 4 = 1 /\ t % 4 = 0
  BY <1>1, <1>2, <1>3, <1>4, <1>5, <1>6
<1>9. r > 0 => b >= 0 /\ t % 4 = r
  BY <1>1, <1>3, <1>4, <1>5, <1>6
<1>10. r < 0 => b < 0 /\ a % 4 # 1
  BY <1>1, <1>2, <1>3, <1>4, <1>5, <1>6
<1> HIDE DEF r
<1>11. /\ r = 0 => k = 0
       /\ r = 1 => k = 1
       /\ r = 2 => k = 2
       /\ r \notin {0, 1, 2} => k = 3
  BY <1>6, <1>7, <1>8, <1>9, <1>10
<1> QED  BY <1>6, <1>7, <1>11 DEF k, r, b, t

LEMMA Formulas ==
  ASSUME NEW a \in Word
  PROVE  /\ l807[a] = Formula(0, a) /\ l1266[a] = Formula(1, a)
         /\ l1828[a] = Formula(2, a) /\ l2185[a] = Formula(3, a)
         /\ l807[a] \in Word /\ l1266[a] \in Word /\ l1828[a] \in Word /\ l2185[a] \in Word
<1> DEFINE A == K(-\h45552f41)
<1>1. A \in Word  BY Constant, SMT
<1>2. /\ l807[a] = ((a | A) \otimes (2 ^^ a)) /\ l1266[a] = ((a & A) \otimes (3 \oplus a))
      /\ l1828[a] = ((a ^^ A) \otimes (4 | a)) /\ l2185[a] = ((a \oplus A) \otimes (5 & a))
  BY FirstBranch, SecondBranch, ThirdBranch, LastBranch, SMT
<1>3. /\ Formula(0, a) = ((a | A) \otimes (2 ^^ a)) /\ Formula(1, a) = ((a & A) \otimes (3 \oplus a))
      /\ Formula(2, a) = ((a ^^ A) \otimes (4 | a)) /\ Formula(3, a) = ((a \oplus A) \otimes (5 & a))
  BY SMT DEF Formula
<1> HIDE DEF A
<1>4. /\ (a | A) \in Word /\ (a & A) \in Word /\ (a ^^ A) \in Word /\ (a \oplus A) \in Word
      /\ (2 ^^ a) \in Word /\ (3 \oplus a) \in Word /\ (4 | a) \in Word /\ (5 & a) \in Word
  BY <1>1, SmallWords, Closed
<1>5. /\ ((a | A) \otimes (2 ^^ a)) \in Word /\ ((a & A) \otimes (3 \oplus a)) \in Word
      /\ ((a ^^ A) \otimes (4 | a)) \in Word /\ ((a \oplus A) \otimes (5 & a)) \in Word
  BY <1>4, Closed
<1> QED  BY <1>2, <1>3, <1>5

(* What the code has chosen its branch by.                                 *)
Chosen == pc # "enter" => mod = Remainder(Signed(n \ominus 1), 4)

IInv == TypeOK /\ Deobfuscated /\ Chosen

LEMMA InitIInv == Init => IInv
<1> SUFFICES ASSUME Init PROVE IInv  OBVIOUS
<1>1. 0 \in Word  BY SmallWords
<1> QED  BY <1>1 DEF Init, IInv, TypeOK, Deobfuscated, Chosen

LEMMA EnterIInv == IInv /\ Enter => IInv'
<1> SUFFICES ASSUME IInv, Enter PROVE IInv'  OBVIOUS
<1>1. n \in Word /\ i \in Word /\ n' = n /\ i' = i /\ pc' = "choose" /\ result' = 0
      /\ mod' = Remainder(Signed(n \ominus 1), 4)
  BY DEF IInv, TypeOK, Enter
<1>2. mod' \in -3 .. 3 /\ (mod' # 0 => (mod' < 0 <=> Signed(n \ominus 1) < 0))
  BY <1>1, BranchOfRemainder
<1>3. mod' # Unknown  BY <1>2, CalcAssumption
<1>4. 0 \in Word  BY SmallWords
<1>5. TypeOK'  BY <1>1, <1>2, <1>3, <1>4 DEF TypeOK
<1> QED  BY <1>1, <1>5 DEF IInv, Deobfuscated, Chosen

LEMMA ComputeIInv == IInv /\ (First \/ Second \/ Third \/ Last) => IInv'
<1> SUFFICES ASSUME IInv, First \/ Second \/ Third \/ Last PROVE IInv'  OBVIOUS
<1> DEFINE k == IF Signed(n \ominus 1) < 0 /\ n % 4 # 1 THEN 3 ELSE (n \ominus 1) % 4
<1>1. n \in Word /\ i \in Word /\ n' = n /\ i' = i /\ mod' = mod /\ pc = "choose" /\ pc' = "returned"
      /\ mod = Remainder(Signed(n \ominus 1), 4)
      /\ mod # Unknown /\ mod \in -3 .. 3 /\ (mod # 0 => (mod < 0 <=> Signed(n \ominus 1) < 0))
  BY DEF IInv, TypeOK, Chosen, First, Second, Third, Last, Compute
<1>2. /\ mod = 0 => k = 0
      /\ mod = 1 => k = 1
      /\ mod = 2 => k = 2
      /\ mod \notin {0, 1, 2} => k = 3
  BY <1>1, BranchOfRemainder
<1>3. result' = Formula(k, n) /\ result' \in Word
  <2>1. CASE First
    BY <1>1, <1>2, <2>1, Formulas DEF First, Compute
  <2>2. CASE Second
    BY <1>1, <1>2, <2>2, Formulas DEF Second, Compute
  <2>3. CASE Third
    BY <1>1, <1>2, <2>3, Formulas DEF Third, Compute
  <2>4. CASE Last
    BY <1>1, <1>2, <2>4, Formulas DEF Last, Compute
  <2> QED  BY <2>1, <2>2, <2>3, <2>4
<1>4. TypeOK'  BY <1>1, <1>3 DEF TypeOK
<1>5. Deobfuscated'  BY <1>1, <1>3 DEF Deobfuscated
<1>6. Chosen'  BY <1>1 DEF Chosen
<1> QED  BY <1>4, <1>5, <1>6 DEF IInv

LEMMA ExtraTestIInv == IInv /\ ExtraTest => IInv'
<1> SUFFICES ASSUME IInv, ExtraTest PROVE IInv'  OBVIOUS
<1>1. /\ n' = n /\ mod' = mod /\ result' = result /\ pc # "enter"
      /\ pc' \in {"testing", "error"} /\ (i' = i \/ i' = (i + 1) % WordMod)
      /\ TypeOK /\ Chosen
  BY DEF ExtraTest, IInv
<1>2. i' \in Word
  <2>1. i \in Word  BY <1>1 DEF TypeOK
  <2>2. (i + 1) % WordMod \in Word  BY <2>1, Given
  <2> QED  BY <1>1, <2>1, <2>2
<1>3. TypeOK'  BY <1>1, <1>2 DEF TypeOK
<1> QED  BY <1>1, <1>3 DEF IInv, Deobfuscated, Chosen

(* Whatever the argument and the width of a word, what the obfuscated      *)
(* branches return is the formula that calc_org has for it, and the types  *)
(* are right: BitTricksRight, for w2c_squanchy_calc_0 and main_0.          *)
THEOREM CalcRight == Spec => []BitTricksRight
<1>1. Init => IInv  BY InitIInv
<1>2. IInv /\ [Next]_vars => IInv'
  <2> SUFFICES ASSUME IInv, [Next]_vars PROVE IInv'  OBVIOUS
  <2>1. CASE Enter  BY <2>1, EnterIInv
  <2>2. CASE First \/ Second \/ Third \/ Last  BY <2>2, ComputeIInv
  <2>3. CASE ExtraTest  BY <2>3, ExtraTestIInv
  <2>4. CASE UNCHANGED vars
    BY <2>4 DEF vars, IInv, TypeOK, Deobfuscated, Chosen
  <2> QED  BY <2>1, <2>2, <2>3, <2>4 DEF Next
<1>3. IInv => BitTricksRight  BY DEF IInv, BitTricksRight
<1> QED  BY <1>1, <1>2, <1>3, PTL DEF Spec
=============================================================================
