---------------------------- MODULE LibraryProofs ----------------------------
(***************************************************************************)
(* Theorems about printf and the functions of the C library behind it:     *)
(* about Printf for every format, every value of its arguments and every   *)
(* int, and about Library for every call, every size of a word's byte, of  *)
(* a buffer and of a block.                                                *)
(***************************************************************************)
EXTENDS Printf, Library, FiniteSetTheorems, SequenceTheorems, WellFoundedInduction, TLAPS

(***************************************************************************)
(* Functions defined by recursion.                                         *)
(***************************************************************************)
(* The least of some numbers.                                              *)
LEMMA NatMin ==
  ASSUME NEW T, T \subseteq Nat, T # {}
  PROVE  \E n \in T : \A m \in T : n <= m
<1> DEFINE R == OpToRel(<, Nat)
<1>1. R = {p \in Nat \X Nat : p[1] < p[2]}  BY DEF OpToRel
<1>2. IsWellFoundedOn(R, Nat)  BY NatLessThanWellFounded
<1> HIDE DEF R
<1>3. PICK n \in T : \A m \in T : ~ (<<m, n>> \in R)  BY <1>2, WFMin
<1>4. ASSUME NEW m \in T, m < n PROVE FALSE
  <2> DEFINE p == <<m, n>>
  <2>1. p \in Nat \X Nat /\ p[1] = m /\ p[2] = n  OBVIOUS
  <2> HIDE DEF p
  <2>2. p \in R  BY <1>1, <1>4, <2>1
  <2>3. p \notin R  BY <1>3 DEF p
  <2> QED  BY <2>2, <2>3
<1>5. ASSUME NEW m \in T PROVE n <= m
  <2>1. m \in Nat /\ n \in Nat  OBVIOUS
  <2> QED  BY <1>4, <2>1
<1> QED  BY <1>5

(* The function on 0 .. n that is a at 0, and at i what step gives for the  *)
(* value at an earlier argument.                                           *)
Recursive(n, S, a, before, step) ==
  /\ n \in Nat /\ a \in S
  /\ before \in [1 .. n -> Nat] /\ \A i \in 1 .. n : before[i] < i
  /\ step \in [1 .. n -> [S -> S]]

Defined(n, S, a, before, step, h) ==
  /\ h \in [0 .. n -> S]
  /\ h[0] = a
  /\ \A i \in 1 .. n : h[i] = step[i][h[before[i]]]

LEMMA Recursion ==
  ASSUME NEW n, NEW S, NEW a, NEW before, NEW step, Recursive(n, S, a, before, step)
  PROVE  \E h : Defined(n, S, a, before, step, h)
<1>0. /\ n \in Nat /\ a \in S
      /\ before \in [1 .. n -> Nat] /\ \A i \in 1 .. n : before[i] < i
      /\ step \in [1 .. n -> [S -> S]]
  BY DEF Recursive
<1> DEFINE Solves(k, h) == \A i \in 0 .. k : h[i] = IF i = 0 THEN a ELSE step[i][h[before[i]]]
           Missing == {k \in 0 .. n : ~ \E h \in [0 .. k -> S] : Solves(k, h)}
<1>1. Missing = {}
  <2> SUFFICES ASSUME Missing # {} PROVE FALSE  OBVIOUS
  <2>1. PICK k \in Missing : \A m \in Missing : k <= m
    <3>1. Missing \subseteq Nat  OBVIOUS
    <3> HIDE DEF Missing
    <3> QED  BY <3>1, NatMin
  <2>2. k \in Nat /\ k <= n  BY <1>0
  <2>3. CASE k = 0
    <3> DEFINE h == [i \in 0 .. k |-> a]
    <3>1. h \in [0 .. k -> S] /\ Solves(k, h)  BY <1>0, <2>3
    <3> QED  BY <3>1
  <2>4. CASE k # 0
    <3> DEFINE j == k - 1
    <3>1. j \in 0 .. n /\ j < k /\ k \in 1 .. n /\ j \in Nat  BY <1>0, <2>2, <2>4
    <3>2. j \notin Missing
      <4> HIDE DEF Missing, j
      <4> QED  BY <2>1, <2>2, <3>1
    <3>3. PICK g \in [0 .. j -> S] : Solves(j, g)  BY <3>1, <3>2
    <3> DEFINE h == [i \in 0 .. k |-> IF i = k THEN step[k][g[before[k]]] ELSE g[i]]
    <3>4. before[k] \in 0 .. j  BY <1>0, <3>1
    <3>5. h \in [0 .. k -> S]
      <4>1. g[before[k]] \in S  BY <3>4
      <4>2. step[k][g[before[k]]] \in S  BY <1>0, <3>1, <4>1
      <4>3. \A i \in 0 .. k : i # k => i \in 0 .. j  BY <2>2
      <4> QED  BY <4>2, <4>3
    <3>6. ASSUME NEW i \in 0 .. k
          PROVE  h[i] = IF i = 0 THEN a ELSE step[i][h[before[i]]]
      <4>1. CASE i = k
        <5>1. h[before[k]] = g[before[k]]  BY <3>1, <3>4
        <5> QED  BY <2>4, <4>1, <5>1
      <4>2. CASE i # k
        <5>1. i \in 0 .. j  BY <2>2, <4>2
        <5>2. h[i] = g[i]  BY <4>2
        <5>3. CASE i = 0  BY <3>3, <5>1, <5>2, <5>3
        <5>4. CASE i # 0
          <6>1. i \in 1 .. n  BY <1>0, <2>2, <5>4
          <6>2. before[i] \in 0 .. k /\ before[i] # k  BY <1>0, <2>2, <5>1, <6>1
          <6>3. h[before[i]] = g[before[i]]  BY <6>2
          <6> QED  BY <3>3, <5>1, <5>2, <5>4, <6>3
        <5> QED  BY <5>3, <5>4
      <4> QED  BY <4>1, <4>2
    <3> QED  BY <3>5, <3>6
  <2> QED  BY <2>3, <2>4
<1>2. PICK h \in [0 .. n -> S] : Solves(n, h)
  <2>1. n \in 0 .. n  BY <1>0
  <2> HIDE DEF Solves
  <2> QED  BY <1>1, <2>1
<1>3. Defined(n, S, a, before, step, h)
  <2>1. h[0] = a /\ \A i \in 1 .. n : h[i] = step[i][h[before[i]]]  BY <1>0, <1>2
  <2> QED  BY <1>2, <2>1 DEF Defined
<1> HIDE DEF Solves
<1> QED  BY <1>3

(* What holds at 0, and at i if it holds at an earlier value, holds to n.  *)
LEMMA RecursionType ==
  ASSUME NEW n \in Nat, NEW S, NEW h, h[0] \in S,
         NEW before \in [1 .. n -> Nat], \A i \in 1 .. n : before[i] < i,
         \A i \in 1 .. n : h[before[i]] \in S => h[i] \in S
  PROVE  \A i \in 0 .. n : h[i] \in S
<1> DEFINE Outside == {k \in 0 .. n : h[k] \notin S}
<1>1. Outside = {}
  <2> SUFFICES ASSUME Outside # {} PROVE FALSE  OBVIOUS
  <2>1. PICK k \in Outside : \A m \in Outside : k <= m
    <3>1. Outside \subseteq Nat  OBVIOUS
    <3> HIDE DEF Outside
    <3> QED  BY <3>1, NatMin
  <2>2. k \in 1 .. n
    <3>1. k \in 0 .. n /\ h[k] \notin S  OBVIOUS
    <3>2. k # 0  BY <3>1
    <3> QED  BY <3>1, <3>2
  <2>3. before[k] \in 0 .. n /\ before[k] < k  BY <2>2
  <2>4. before[k] \notin Outside
    <3> HIDE DEF Outside
    <3>1. k \in Nat /\ before[k] \in Nat  BY <2>2, <2>3
    <3> QED  BY <2>1, <2>3, <3>1
  <2>5. h[before[k]] \in S  BY <2>3, <2>4
  <2> QED  BY <2>2, <2>5
<1> QED  BY <1>1

(* The sums of what a sequence begins with.                                *)
LEMMA TotalSums ==
  ASSUME NEW s \in Seq(Nat)
  PROVE  \E h \in [0 .. Len(s) -> Nat] :
           /\ h[0] = 0
           /\ \A i \in 1 .. Len(s) : h[i] = h[i - 1] + s[i]
           /\ Total(s) = h[Len(s)]
<1> DEFINE n == Len(s)
           G(h) == [i \in 0 .. n |-> IF i = 0 THEN 0 ELSE h[i - 1] + s[i]]
           before == [i \in 1 .. n |-> i - 1]
           step == [i \in 1 .. n |-> [x \in Nat |-> x + s[i]]]
<1>1. n \in Nat /\ \A i \in 1 .. n : s[i] \in Nat  OBVIOUS
<1>2. before \in [1 .. n -> Nat] /\ \A i \in 1 .. n : before[i] < i
  BY <1>1
<1>3. step \in [1 .. n -> [Nat -> Nat]]
  <2>1. ASSUME NEW i \in 1 .. n PROVE [x \in Nat |-> x + s[i]] \in [Nat -> Nat]
    BY <1>1
  <2> QED  BY <2>1
<1>4. PICK h : Defined(n, Nat, 0, before, step, h)
  <2>1. Recursive(n, Nat, 0, before, step)
    BY <1>1, <1>2, <1>3 DEF Recursive
  <2> QED  BY <2>1, Recursion
<1>5. h \in [0 .. n -> Nat] /\ h[0] = 0 /\ \A i \in 1 .. n : h[i] = step[i][h[before[i]]]
  <2> HIDE DEF n, before, step
  <2> QED  BY <1>4 DEF Defined
<1>6. h = G(h)
  <2>1. ASSUME NEW i \in 1 .. n PROVE h[i] = h[i - 1] + s[i]
    <3>1. i - 1 \in 0 .. n /\ before[i] = i - 1 /\ step[i] = [x \in Nat |-> x + s[i]]
      BY <1>1
    <3>2. h[i - 1] \in Nat
      <4> HIDE DEF n, before, step
      <4> QED  BY <1>5, <3>1
    <3> HIDE DEF before, step
    <3> QED  BY <1>5, <3>1, <3>2
  <2>2. \A i \in 0 .. n : h[i] = IF i = 0 THEN 0 ELSE h[i - 1] + s[i]
    <3> HIDE DEF n, before, step
    <3> SUFFICES ASSUME NEW i \in 0 .. n PROVE h[i] = IF i = 0 THEN 0 ELSE h[i - 1] + s[i]
      OBVIOUS
    <3>1. CASE i = 0  BY <1>5, <3>1
    <3>2. CASE i # 0
      <4>1. i \in 1 .. n  BY <1>1, <3>2
      <4>2. h[i] = h[i - 1] + s[i]  BY <2>1, <4>1
      <4> QED  BY <3>2, <4>2
    <3> QED  BY <3>1, <3>2
  <2>3. h = [i \in 0 .. n |-> h[i]]
    <3> HIDE DEF n, before, step
    <3> QED  BY <1>5
  <2> HIDE DEF n, before, step
  <2> QED  BY <2>2, <2>3
<1>7. PICK f : f = G(f) /\ Total(s) = f[n]
  BY <1>6 DEF Total
<1>8. f[0] = 0 /\ \A i \in 1 .. n : f[i] = f[i - 1] + s[i]
  <2>1. \A i \in 0 .. n : f[i] = IF i = 0 THEN 0 ELSE f[i - 1] + s[i]
    BY <1>7
  <2> HIDE DEF n, G
  <2> QED  BY <1>1, <2>1
<1>9. \A i \in 0 .. n : f[i] \in Nat
  <2>1. f[0] \in Nat  BY <1>8
  <2>2. ASSUME NEW i \in 1 .. n, f[before[i]] \in Nat PROVE f[i] \in Nat
    <3>1. before[i] = i - 1  OBVIOUS
    <3>2. s[i] \in Nat /\ f[i] = f[i - 1] + s[i]  BY <1>1, <1>8
    <3> QED  BY <2>2, <3>1, <3>2
  <2> HIDE DEF n, before, step, G
  <2> QED  BY <1>1, <1>2, <2>1, <2>2, RecursionType
<1>10. f \in [0 .. n -> Nat]
  <2>1. f = [i \in 0 .. n |-> f[i]]  BY <1>7
  <2> HIDE DEF n, G
  <2> QED  BY <1>9, <2>1
<1> QED  BY <1>7, <1>8, <1>10

LEMMA TotalType ==
  ASSUME NEW s \in Seq(Nat)
  PROVE  Total(s) \in Nat
<1>1. PICK h \in [0 .. Len(s) -> Nat] : Total(s) = h[Len(s)]  BY TotalSums
<1>2. Len(s) \in 0 .. Len(s)  OBVIOUS
<1> QED  BY <1>1, <1>2

(* The sums of one, three and six pieces.                                  *)
LEMMA TotalOne ==
  ASSUME NEW a \in Nat
  PROVE  Total(<<a>>) = a
<1> DEFINE s == <<a>>
<1>1. s \in Seq(Nat) /\ Len(s) = 1 /\ s[1] = a  OBVIOUS
<1> HIDE DEF s
<1>2. PICK h \in [0 .. Len(s) -> Nat] :
        h[0] = 0 /\ (\A i \in 1 .. Len(s) : h[i] = h[i - 1] + s[i]) /\ Total(s) = h[Len(s)]
  BY <1>1, TotalSums
<1>3. h[1] = h[0] + s[1]  BY <1>1, <1>2
<1>4. Total(s) = a  BY <1>1, <1>2, <1>3
<1> QED  BY <1>4 DEF s

LEMMA TotalThree ==
  ASSUME NEW a \in Nat, NEW b \in Nat, NEW c \in Nat
  PROVE  Total(<<a, b, c>>) = a + b + c
<1> DEFINE s == <<a, b, c>>
<1>1. s \in Seq(Nat) /\ Len(s) = 3 /\ s[1] = a /\ s[2] = b /\ s[3] = c  OBVIOUS
<1> HIDE DEF s
<1>2. PICK h \in [0 .. Len(s) -> Nat] :
        h[0] = 0 /\ (\A i \in 1 .. Len(s) : h[i] = h[i - 1] + s[i]) /\ Total(s) = h[Len(s)]
  BY <1>1, TotalSums
<1>3. h[1] = h[0] + s[1] /\ h[2] = h[1] + s[2] /\ h[3] = h[2] + s[3]  BY <1>1, <1>2
<1>4. Total(s) = a + b + c  BY <1>1, <1>2, <1>3
<1> QED  BY <1>4 DEF s

LEMMA PieceType ==
  ASSUME NEW s \in Seq(Nat)
  PROVE  \A i \in 1 .. Len(s) : s[i] \in Nat
OBVIOUS

LEMMA TotalSix ==
  ASSUME NEW s \in Seq(Nat), Len(s) = 6
  PROVE  Total(s) = s[1] + s[2] + s[3] + s[4] + s[5] + s[6]
<1>1. PICK h \in [0 .. Len(s) -> Nat] :
        h[0] = 0 /\ (\A i \in 1 .. Len(s) : h[i] = h[i - 1] + s[i]) /\ Total(s) = h[Len(s)]
  BY TotalSums
<1>2. /\ h[1] = h[0] + s[1] /\ h[2] = h[1] + s[2] /\ h[3] = h[2] + s[3]
      /\ h[4] = h[3] + s[4] /\ h[5] = h[4] + s[5] /\ h[6] = h[5] + s[6]
  BY <1>1
<1>3. \A i \in 1 .. Len(s) : s[i] \in Nat  BY PieceType
<1>4. \A i \in 1 .. 6 : s[i] \in Nat  BY <1>3
<1> QED  BY <1>1, <1>2, <1>4

(* A number has so many digits.                                            *)
LEMMA DigitsType ==
  ASSUME NEW v \in Nat, NEW base \in Nat, base > 1
  PROVE  Digits(v, base) \in Nat
<1> DEFINE G(h) == [n \in 0 .. v |-> IF n = 0 THEN 0 ELSE h[n \div base] + 1]
           before == [n \in 1 .. v |-> n \div base]
           step == [n \in 1 .. v |-> [x \in Nat |-> x + 1]]
<1>1. \A n \in 1 .. v : n \div base \in Nat /\ n \div base < n
  OBVIOUS
<1>2. before \in [1 .. v -> Nat] /\ \A n \in 1 .. v : before[n] < n
  BY <1>1
<1>3. step \in [1 .. v -> [Nat -> Nat]]
  <2>1. [x \in Nat |-> x + 1] \in [Nat -> Nat]  OBVIOUS
  <2> QED  BY <2>1
<1>4. PICK h : Defined(v, Nat, 0, before, step, h)
  <2>1. Recursive(v, Nat, 0, before, step)
    BY <1>2, <1>3 DEF Recursive
  <2> QED  BY <2>1, Recursion
<1>5. h \in [0 .. v -> Nat] /\ h[0] = 0 /\ \A n \in 1 .. v : h[n] = step[n][h[before[n]]]
  <2> HIDE DEF before, step
  <2> QED  BY <1>4 DEF Defined
<1>6. h = G(h)
  <2>1. ASSUME NEW n \in 1 .. v PROVE h[n] = h[n \div base] + 1
    <3>1. n \div base \in 0 .. v /\ before[n] = n \div base /\ step[n] = [x \in Nat |-> x + 1]
      BY <1>1
    <3>2. h[n \div base] \in Nat
      <4> HIDE DEF before, step
      <4> QED  BY <1>5, <3>1
    <3> HIDE DEF before, step
    <3> QED  BY <1>5, <3>1, <3>2
  <2>2. \A n \in 0 .. v : h[n] = IF n = 0 THEN 0 ELSE h[n \div base] + 1
    <3>1. \A n \in 0 .. v : n = 0 \/ (n # 0 /\ n \in 1 .. v)  OBVIOUS
    <3> HIDE DEF before, step
    <3> QED  BY <1>5, <2>1, <3>1
  <2>3. h = [n \in 0 .. v |-> h[n]]
    <3> HIDE DEF before, step
    <3> QED  BY <1>5
  <2> HIDE DEF before, step
  <2> QED  BY <2>2, <2>3
<1>7. PICK f : f = G(f) /\ Digits(v, base) = f[v]
  BY <1>6 DEF Digits
<1>8. \A n \in 0 .. v : f[n] = IF n = 0 THEN 0 ELSE f[n \div base] + 1
  BY <1>7
<1>9. \A n \in 0 .. v : f[n] \in Nat
  <2>1. f[0] \in Nat
    <3> HIDE DEF G
    <3> QED  BY <1>8
  <2>2. ASSUME NEW n \in 1 .. v, f[before[n]] \in Nat PROVE f[n] \in Nat
    <3>1. before[n] = n \div base  OBVIOUS
    <3>2. f[n] = f[n \div base] + 1
      <4> HIDE DEF G, before, step
      <4> QED  BY <1>8
    <3> HIDE DEF G, before, step
    <3> QED  BY <2>2, <3>1, <3>2
  <2> HIDE DEF before, step, G
  <2> QED  BY <1>2, <2>1, <2>2, RecursionType
<1> HIDE DEF G
<1> QED  BY <1>7, <1>9

(***************************************************************************)
(* Types.                                                                  *)
(***************************************************************************)
LEMMA ConstantFacts ==
  /\ IntMax \in Nat /\ IntMax >= 1 /\ IntMin \in Int /\ IntMin < 0
  /\ NL_ARGMAX \in Nat /\ NL_ARGMAX >= 1
  /\ Values \subseteq Int /\ 0 \in Values
  /\ \A v \in Values : v >= IntMin /\ v <= IntMax
  /\ FloatLens \subseteq Nat
  /\ Formats \subseteq Seq(Item)
  /\ Unset \notin Int /\ Unset \notin ArgType
BY PrintfAssumption DEF IntMin

LEMMA CountTypes ==
  ASSUME NEW c \in Count
  PROVE  /\ c.how \in {"number", "position", "next"}
         /\ c.how = "number" => c.n \in -1 .. IntMax
         /\ c.how = "position" => c.n \in 1 .. NL_ARGMAX
BY DEF Count

LEMMA ItemTypes ==
  ASSUME NEW item \in Item
  PROVE  /\ IsText(item) => item.text \in Nat
         /\ ~IsText(item) =>
              /\ item.pos \in 0 .. NL_ARGMAX /\ item.flags \subseteq Flag
              /\ item.width \in Count /\ item.prec \in Count \cup {NoCount}
              /\ item.prefix \in Prefix /\ item.conv \in Conversion
BY DEF Item, IsText

LEMMA FormatTypes ==
  ASSUME format \in Formats
  PROVE  /\ Len(format) \in Nat /\ DOMAIN format = 1 .. Len(format)
         /\ \A i \in DOMAIN format : format[i] \in Item
<1>1. format \in Seq(Item)  BY ConstantFacts
<1> QED  BY <1>1

LEMMA ArgumentTypes ==
  ASSUME NEW prefix, NEW conv
  PROVE  Type(prefix, conv) \in ArgType \cup {Unset}
BY DEF Type, ArgType

LEMMA Positions ==
  ASSUME NEW t, NEW a \in Nat
  PROVE  Aligned(t, a) \in Nat /\ Aligned(t, a) + Words(t) \in Nat
BY DEF Aligned, Words

(* An argument is taken.                                                   *)
LEMMA TakeTypes ==
  ASSUME taken \in Seq([at : Nat, type : ArgType]), ap \in Nat, NEW t \in ArgType, Take(t)
  PROVE  /\ taken' \in Seq([at : Nat, type : ArgType])
         /\ ap' \in Nat
         /\ Len(taken') = Len(taken) + 1
         /\ \A i \in 1 .. Len(taken) : taken'[i] = taken[i]
         /\ taken'[Len(taken) + 1].type = t
<1> DEFINE r == [at |-> Aligned(t, ap), type |-> t]
<1>1. Aligned(t, ap) \in Nat /\ ap' \in Nat  BY Positions DEF Take
<1>2. r \in [at : Nat, type : ArgType] /\ r.type = t  BY <1>1
<1>3. taken' = Append(taken, r)  BY DEF Take
<1> HIDE DEF r
<1>4. /\ taken' \in Seq([at : Nat, type : ArgType])
      /\ Len(taken') = Len(taken) + 1
      /\ \A i \in 1 .. Len(taken) : taken'[i] = taken[i]
      /\ taken'[Len(taken) + 1] = r
  BY <1>2, <1>3
<1> QED  BY <1>1, <1>2, <1>4

(* What a stream took of some pieces: all of them, or it has failed.       *)
LEMMA WriteFacts ==
  ASSUME out \in Nat, err \in BOOLEAN, NEW pieces \in Seq(Nat), Write(pieces)
  PROVE  /\ out' \in Nat /\ err' \in BOOLEAN
         /\ ~err' => ~err /\ out' = out + Total(pieces)
<1>1. CASE err  BY <1>1 DEF Write
<1>2. CASE ~err /\ out' = out + Total(pieces) /\ UNCHANGED err
  BY <1>2, TotalType
<1>3. ASSUME ~err, NEW i \in DOMAIN pieces, out' = out + Total(SubSeq(pieces, 1, i - 1)),
             err' = TRUE
      PROVE  out' \in Nat
  <2> DEFINE front == SubSeq(pieces, 1, i - 1)
  <2>1. front \in Seq(Nat)
    <3>1. i \in 1 .. Len(pieces) /\ Len(pieces) \in Nat  OBVIOUS
    <3>2. 1 \in Int /\ i - 1 \in Int /\ i - 1 <= Len(pieces)  BY <3>1
    <3>3. front = [j \in 1 .. i - 1 |-> pieces[j]]  BY <3>1, <3>2
    <3>4. \A j \in 1 .. i - 1 : pieces[j] \in Nat  BY <3>1
    <3>5. front \in [1 .. i - 1 -> Nat]  BY <3>3, <3>4
    <3>6. i - 1 \in Nat  BY <3>1
    <3> HIDE DEF front
    <3> QED  BY <3>5, <3>6
  <2> HIDE DEF front
  <2>2. Total(front) \in Nat  BY <2>1, TotalType
  <2>3. out' = out + Total(front)  BY <1>3 DEF front
  <2> QED  BY <2>2, <2>3
<1> QED  BY <1>1, <1>2, <1>3 DEF Write

(* A directive that is formatted is one of the format.                     *)
Formatting == {"width", "prec", "arg", "convert", "put"}

PhaseInv ==
  /\ pc = "next" => at \in 1 .. Len(format) + 1
  /\ pc \in Formatting => at \in DOMAIN format /\ ~IsText(format[at]) /\ pending = 0
  /\ pc \in {"convert", "put"} => pass = 2
  /\ pc = "fetch" => pass = 1 /\ at \in 1 .. NL_ARGMAX + 1
  /\ pc \in {"returned", "done"} => result \in -1 .. IntMax
  /\ pc = "done" /\ result >= 0 => pass = 2
  /\ pass = 1 => out = 0

(* The flags of the directive, with "left" for a negative width and        *)
(* without "zero" where the padding goes to the right.                     *)
FlagInv ==
  /\ pc \in {"width", "prec", "arg"} =>
       /\ format[at].flags \subseteq cur.fl
       /\ cur.fl \subseteq format[at].flags \cup {"left"}
  /\ pc = "convert" =>
       /\ format[at].flags \ {"zero"} \subseteq cur.fl
       /\ cur.fl \subseteq format[at].flags \cup {"left"}
  /\ pc \in {"convert", "put"} => "left" \notin cur.fl \/ "zero" \notin cur.fl

(* What is written is what is counted, with what the last item added.      *)
CountInv ==
  Regular /\ pass = 2 =>
    /\ pc \in Formatting \cup {"next"} /\ ~err => out = cnt + pending
    /\ pc = "returned" /\ ~err /\ result >= 0 => out = result
    /\ pc = "done" /\ result >= 0 => out = result /\ (err => stream.err)

PrintfInv == TypeOK /\ PhaseInv /\ FlagInv /\ CountInv

(* The common facts of a state.                                            *)
LEMMA Here ==
  ASSUME TypeOK
  PROVE  /\ Len(format) \in Nat /\ DOMAIN format = 1 .. Len(format)
         /\ \A i \in DOMAIN format :
              /\ format[i] \in Item
              /\ IsText(format[i]) => format[i].text \in Nat
              /\ ~IsText(format[i]) =>
                   /\ format[i].pos \in 0 .. NL_ARGMAX /\ format[i].flags \subseteq Flag
                   /\ format[i].width \in Count /\ format[i].prec \in Count \cup {NoCount}
                   /\ format[i].prefix \in Prefix /\ format[i].conv \in Conversion
         /\ cnt \in Nat /\ cnt <= IntMax /\ pending \in Nat /\ at \in Nat
BY FormatTypes, ItemTypes, ConstantFacts DEF TypeOK

LEMMA CurrentTypes ==
  ASSUME NEW c \in Current
  PROVE  /\ c.fl \subseteq Flag /\ c.w \in Int /\ (c.w = IntMin \/ c.w \in 0 .. IntMax)
         /\ c.p \in Int /\ c.xp \in BOOLEAN /\ c.arg \in Values /\ c.arg \in Int
         /\ c.pl \in 0 .. 2 /\ c.len \in Nat
<1>1. c.fl \subseteq Flag /\ c.w \in {IntMin} \cup 0 .. IntMax /\ c.p \in Int /\ c.xp \in BOOLEAN
      /\ c.arg \in Values /\ c.pl \in 0 .. 2 /\ c.len \in Nat
  BY DEF Current
<1>2. c.w = IntMin \/ c.w \in 0 .. IntMax  BY <1>1
<1>3. c.w \in Int  BY <1>2, ConstantFacts
<1>4. c.arg \in Int  BY <1>1, ConstantFacts
<1> QED  BY <1>1, <1>2, <1>3, <1>4

LEMMA BlankType == Blank \in Current
BY ConstantFacts DEF Blank, Current

LEMMA Starts == Init => PrintfInv
<1> SUFFICES ASSUME Init PROVE PrintfInv  OBVIOUS
<1>1. /\ format \in Formats /\ pass = 1 /\ pc = "next" /\ at = 1 /\ cnt = 0 /\ pending = 0
      /\ positional = FALSE /\ cur = Blank /\ taken = <<>> /\ ap = 0 /\ out = 0
      /\ err = stream.err /\ unset = FALSE /\ result = Unset
      /\ stream \in [err : BOOLEAN, buffered : BOOLEAN, writable : BOOLEAN]
  BY DEF Init
<1>2. /\ nl_type \in [1 .. NL_ARGMAX -> ArgType \cup {Unset}]
      /\ nl_arg \in [1 .. NL_ARGMAX -> Values \cup {Unset}]
  BY DEF Init
<1>3. err \in BOOLEAN  BY <1>1
<1>4. Len(format) \in Nat  BY <1>1, FormatTypes
<1>5. at \in 1 .. Larger(Len(format), NL_ARGMAX) + 1  BY <1>1, <1>4, ConstantFacts DEF Larger
<1>6. TypeOK
  <2>1. taken \in Seq([at : Nat, type : ArgType])  BY <1>1
  <2>2. cnt \in 0 .. IntMax /\ pending \in Nat  BY <1>1, ConstantFacts
  <2>3. cur \in Current  BY <1>1, BlankType
  <2> QED  BY <1>1, <1>2, <1>3, <1>5, <2>1, <2>2, <2>3 DEF TypeOK
<1> QED  BY <1>1, <1>4, <1>6 DEF PrintfInv, PhaseInv, FlagInv, CountInv, Formatting

LEMMA SameFormat ==
  ASSUME format' = format
  PROVE  /\ Regular' <=> Regular
         /\ (Larger(Len(format), NL_ARGMAX))' = Larger(Len(format), NL_ARGMAX)
         /\ Formatting' = Formatting
BY DEF Regular, IsText, Larger, Formatting

(* The next item is one of the format, or its end.                         *)
LEMMA NextItem ==
  ASSUME TypeOK, NEW i \in 1 .. Len(format) + 1
  PROVE  i \in 1 .. Larger(Len(format), NL_ARGMAX) + 1
BY Here, ConstantFacts DEF Larger

(***************************************************************************)
(* The inductive step, one lemma per action.                               *)
(***************************************************************************)
LEMMA TooLongStep == PrintfInv /\ TooLong => PrintfInv'
<1> SUFFICES ASSUME PrintfInv, TooLong PROVE PrintfInv'  OBVIOUS
<1> USE DEF PrintfInv
<1>1. /\ pc = "next" /\ pc' = "returned" /\ result' = -1
      /\ format' = format /\ stream' = stream /\ pass' = pass /\ at' = at /\ cnt' = cnt
      /\ pending' = pending /\ positional' = positional /\ cur' = cur
      /\ nl_type' = nl_type /\ nl_arg' = nl_arg /\ taken' = taken /\ ap' = ap
      /\ out' = out /\ err' = err /\ unset' = unset
  BY DEF TooLong, Return, args
<1>2. TypeOK'  BY <1>1, ConstantFacts, SameFormat DEF TypeOK
<1>3. PhaseInv' /\ FlagInv'  BY <1>1, ConstantFacts DEF PhaseInv, FlagInv, Formatting
<1>4. CountInv'  BY <1>1 DEF CountInv, Formatting
<1> QED  BY <1>2, <1>3, <1>4

(* What the last item added fits.                                          *)
LEMMA CountFits ==
  ASSUME TypeOK, Room
  PROVE  Counted \in 0 .. IntMax
BY Here, ConstantFacts DEF Room, Counted

LEMMA LiteralStep == PrintfInv /\ Literal => PrintfInv'
<1> SUFFICES ASSUME PrintfInv, Literal PROVE PrintfInv'  OBVIOUS
<1> USE DEF PrintfInv
<1>1. /\ pc = "next" /\ Room /\ at <= Len(format) /\ IsText(format[at])
      /\ format' = format /\ stream' = stream /\ pass' = pass /\ cnt' = Counted
      /\ positional' = positional /\ cur' = cur
      /\ nl_type' = nl_type /\ nl_arg' = nl_arg /\ taken' = taken /\ ap' = ap
      /\ unset' = unset
  BY DEF Literal, call, args
<1>2. cnt' \in 0 .. IntMax /\ cnt' = cnt + pending  BY <1>1, CountFits DEF Counted
<1>3. at \in DOMAIN format /\ format[at].text \in Nat /\ at + 1 \in 1 .. Len(format) + 1
  <2>1. at \in 1 .. Len(format) + 1  BY <1>1 DEF PhaseInv
  <2> QED  BY <1>1, <2>1, Here
<1>4. CASE pc' = "returned"
  <2>1. result' = -1 /\ at' = at /\ pending' = pending /\ out' = out /\ err' = err
    BY <1>1, <1>4 DEF Literal, Return
  <2>2. TypeOK'  BY <1>1, <1>2, <1>4, <2>1, ConstantFacts, SameFormat DEF TypeOK
  <2>3. PhaseInv' /\ FlagInv'
    BY <1>1, <1>4, <2>1, ConstantFacts DEF PhaseInv, FlagInv, Formatting
  <2>4. CountInv'  BY <1>1, <1>4, <2>1 DEF CountInv, Formatting
  <2> QED  BY <2>2, <2>3, <2>4
<1>5. CASE pc' # "returned"
  <2>1. /\ pending' = format[at].text /\ at' = at + 1 /\ pc' = pc /\ result' = result
        /\ IF pass = 2 THEN Write(<<format[at].text>>) ELSE out' = out /\ err' = err
    BY <1>5 DEF Literal, Return
  <2>2. /\ out' \in Nat /\ err' \in BOOLEAN
        /\ pass = 1 => out' = out
        /\ pass = 2 /\ ~err' => ~err /\ out' = out + format[at].text
    <3>1. CASE pass = 1  BY <2>1, <3>1 DEF TypeOK
    <3>2. CASE pass = 2
      <4> DEFINE s == <<format[at].text>>
      <4>1. s \in Seq(Nat) /\ Total(s) = format[at].text  BY <1>3, TotalOne
      <4>2. Write(s)  BY <2>1, <3>2
      <4>3. out \in Nat /\ err \in BOOLEAN  BY DEF TypeOK
      <4> HIDE DEF s
      <4>4. out' \in Nat /\ err' \in BOOLEAN /\ (~err' => ~err /\ out' = out + Total(s))
        BY <4>1, <4>2, <4>3, WriteFacts
      <4> QED  BY <3>2, <4>1, <4>4
    <3> QED  BY <3>1, <3>2 DEF TypeOK
  <2>3. at' \in 1 .. Larger(Len(format), NL_ARGMAX) + 1  BY <1>3, <2>1, NextItem
  <2>4. TypeOK'  BY <1>1, <1>2, <1>3, <2>1, <2>2, <2>3, SameFormat DEF TypeOK
  <2>5. PhaseInv' /\ FlagInv'
    BY <1>1, <1>3, <2>1, <2>2 DEF PhaseInv, FlagInv, Formatting
  <2>6. CountInv'
    <3>1. ASSUME Regular, pass = 2, ~err' PROVE out' = cnt' + pending'
      <4>1. out = cnt + pending  BY <1>1, <2>2, <3>1 DEF CountInv, Formatting
      <4> QED  BY <1>2, <1>3, <2>1, <2>2, <3>1, <4>1, Here
    <3> QED  BY <1>1, <2>1, <3>1, SameFormat DEF CountInv, Formatting
  <2> QED  BY <2>4, <2>5, <2>6
<1> QED  BY <1>4, <1>5

LEMMA DirectiveStep == PrintfInv /\ Directive => PrintfInv'
<1> SUFFICES ASSUME PrintfInv, Directive PROVE PrintfInv'  OBVIOUS
<1> USE DEF PrintfInv
<1>1. /\ pc = "next" /\ Room /\ at <= Len(format) /\ ~IsText(format[at])
      /\ format' = format /\ stream' = stream /\ pass' = pass /\ at' = at /\ cnt' = Counted
      /\ pending' = 0 /\ pc' = "width" /\ positional' \in BOOLEAN
      /\ cur' = [Blank EXCEPT !.fl = format[at].flags]
      /\ nl_type' = nl_type /\ nl_arg' = nl_arg /\ taken' = taken /\ ap' = ap
      /\ out' = out /\ err' = err /\ unset' = unset /\ result' = result
  BY DEF Directive, call, args, TypeOK
<1>2. cnt' \in 0 .. IntMax /\ cnt' = cnt + pending  BY <1>1, CountFits DEF Counted
<1>3. at \in DOMAIN format /\ format[at].flags \subseteq Flag
  <2>1. at \in 1 .. Len(format) + 1  BY <1>1 DEF PhaseInv
  <2> QED  BY <1>1, <2>1, Here
<1>4. cur' \in Current /\ cur'.fl = format[at].flags
  <2>1. Blank \in Current  BY BlankType
  <2> QED  BY <1>1, <1>3, <2>1 DEF Current, Blank
<1>5. TypeOK'  BY <1>1, <1>2, <1>4, SameFormat DEF TypeOK
<1>6. PhaseInv'  BY <1>1, <1>3 DEF PhaseInv, Formatting, IsText
<1>7. FlagInv'  BY <1>1, <1>4 DEF FlagInv
<1>8. CountInv'
  <2>1. cnt' \in Nat  BY <1>2
  <2> QED  BY <1>1, <1>2, <2>1, SameFormat DEF CountInv, Formatting
<1> QED  BY <1>5, <1>6, <1>7, <1>8

(* A width or precision taken from an argument.                            *)
LEMMA StarFacts ==
  ASSUME TypeOK, NEW c \in Count, c.how \in {"next", "position"}, Star(c)
  PROVE  /\ nl_type' \in [1 .. NL_ARGMAX -> ArgType \cup {Unset}]
         /\ nl_arg' = nl_arg
         /\ taken' \in Seq([at : Nat, type : ArgType]) /\ ap' \in Nat
         /\ unset' \in BOOLEAN
<1>1. /\ nl_type \in [1 .. NL_ARGMAX -> ArgType \cup {Unset}] /\ "int" \in ArgType
      /\ taken \in Seq([at : Nat, type : ArgType]) /\ ap \in Nat /\ unset \in BOOLEAN
  BY DEF TypeOK, ArgType
<1>2. CASE pass = 1
  <2>1. CASE c.how = "next"  BY <1>1, <1>2, <2>1 DEF Star
  <2>2. CASE c.how # "next"
    <3>1. nl_type' = [nl_type EXCEPT ![c.n] = "int"]  BY <1>2, <2>2 DEF Star
    <3>2. nl_type' \in [1 .. NL_ARGMAX -> ArgType \cup {Unset}]  BY <1>1, <3>1
    <3> QED  BY <1>1, <1>2, <3>2 DEF Star
  <2> QED  BY <2>1, <2>2
<1>3. CASE pass # 1 /\ c.how = "next"
  <2>1. Take("int") /\ nl_type' = nl_type /\ nl_arg' = nl_arg /\ unset' = unset
    BY <1>3 DEF Star
  <2> QED  BY <1>1, <2>1, TakeTypes
<1>4. CASE pass # 1 /\ c.how # "next"
  <2>1. /\ nl_type' = nl_type /\ nl_arg' = nl_arg /\ taken' = taken /\ ap' = ap
        /\ unset' = (unset \/ nl_arg[c.n] = Unset)
    BY <1>4 DEF Star, args
  <2> QED  BY <1>1, <2>1
<1> QED  BY <1>2, <1>3, <1>4

LEMMA StarValueTypes ==
  ASSUME TypeOK, NEW c \in Count, c.how \in {"next", "position"}, NEW v \in StarValues(c)
  PROVE  v \in Values
<1>1. c.how = "position" => Fetched(c.n) \subseteq Values
  BY CountTypes DEF TypeOK, Fetched
<1> QED  BY <1>1, ConstantFacts DEF StarValues

(* The width is set, and the flag with it.                                 *)
LEMMA SetWidthFacts ==
  ASSUME TypeOK, NEW v \in IntMin .. IntMax, SetWidth(v)
  PROVE  /\ cur' \in Current
         /\ cur.fl \subseteq cur'.fl /\ cur'.fl \subseteq cur.fl \cup {"left"}
<1>1. cur \in Current  BY DEF TypeOK
<1>2. v \in Int /\ (v < 0 /\ v # IntMin => -v \in 0 .. IntMax) /\ (v >= 0 => v \in 0 .. IntMax)
  BY ConstantFacts DEF IntMin
<1>3. CASE v < 0
  <2> DEFINE w == IF v = IntMin THEN v ELSE -v
  <2>1. w \in {IntMin} \cup 0 .. IntMax  BY <1>2, <1>3
  <2>2. cur' = [cur EXCEPT !.w = w, !.fl = cur.fl \cup {"left"}]  BY <1>3 DEF SetWidth
  <2>3. cur.fl \cup {"left"} \in SUBSET Flag  BY <1>1 DEF Current, Flag
  <2> HIDE DEF w
  <2> QED  BY <1>1, <2>1, <2>2, <2>3 DEF Current
<1>4. CASE ~(v < 0)
  <2>1. cur' = [cur EXCEPT !.w = v]  BY <1>4 DEF SetWidth
  <2>2. v \in {IntMin} \cup 0 .. IntMax  BY <1>2, <1>4
  <2> QED  BY <1>1, <2>1, <2>2 DEF Current
<1> QED  BY <1>3, <1>4

LEMMA WidthStep == PrintfInv /\ Width => PrintfInv'
<1> SUFFICES ASSUME PrintfInv, Width PROVE PrintfInv'  OBVIOUS
<1> USE DEF PrintfInv
<1> DEFINE c == format[at].width
<1>1. /\ pc = "width" /\ format' = format /\ stream' = stream /\ pass' = pass /\ at' = at
      /\ cnt' = cnt /\ pending' = pending /\ out' = out /\ err' = err /\ positional' \in BOOLEAN
  BY DEF Width, call, TypeOK
<1>2. at \in DOMAIN format /\ ~IsText(format[at]) /\ pending = 0  BY <1>1 DEF PhaseInv, Formatting
<1>3. c \in Count  BY <1>2, Here
<1>4. /\ nl_type' \in [1 .. NL_ARGMAX -> ArgType \cup {Unset}]
      /\ nl_arg' \in [1 .. NL_ARGMAX -> Values \cup {Unset}]
      /\ taken' \in Seq([at : Nat, type : ArgType]) /\ ap' \in Nat /\ unset' \in BOOLEAN
      /\ cur' \in Current
      /\ \/ pc' = "returned" /\ result' = -1 /\ cur' = cur
         \/ /\ pc' = "prec" /\ result' = result
            /\ cur.fl \subseteq cur'.fl /\ cur'.fl \subseteq cur.fl \cup {"left"}
  <2> HIDE DEF c
  <2>1. CASE c.how = "number" \/ (c.how = "next" /\ positional)
    <3>1. /\ nl_type' = nl_type /\ nl_arg' = nl_arg /\ taken' = taken /\ ap' = ap
          /\ unset' = unset
          /\ \/ pc' = "returned" /\ result' = -1 /\ cur' = cur
             \/ /\ c.how = "number" /\ c.n >= 0 /\ SetWidth(c.n)
                /\ pc' = "prec" /\ result' = result
      <4>1. CASE c.how = "number"
        <5>1. /\ IF c.n < 0 THEN Return(-1) /\ UNCHANGED cur
                 ELSE SetWidth(c.n) /\ pc' = "prec" /\ UNCHANGED result
              /\ UNCHANGED <<args, unset>>
          BY <2>1, <4>1 DEF Width, c
        <5>2. c.n \in -1 .. IntMax  BY <1>3, <4>1, CountTypes
        <5>3. c.n \in Int  BY <5>2
        <5> QED  BY <4>1, <5>1, <5>3 DEF Return, args
      <4>2. CASE c.how # "number"
        BY <2>1, <4>2 DEF Width, Return, args, c
      <4> QED  BY <4>1, <4>2
    <3>2. c.how = "number" /\ c.n >= 0 => c.n \in IntMin .. IntMax
      <4>1. c.how = "number" => c.n \in -1 .. IntMax  BY <1>3, CountTypes
      <4> QED  BY <4>1, ConstantFacts
    <3>3. CASE pc' = "returned" /\ result' = -1 /\ cur' = cur  BY <3>1, <3>3 DEF TypeOK
    <3>4. CASE c.how = "number" /\ c.n >= 0 /\ SetWidth(c.n) /\ pc' = "prec" /\ result' = result
      BY <3>1, <3>2, <3>4, SetWidthFacts DEF TypeOK
    <3> QED  BY <3>1, <3>3, <3>4
  <2>2. CASE ~(c.how = "number" \/ (c.how = "next" /\ positional))
    <3>1. /\ \E v \in StarValues(c) : SetWidth(v)
          /\ Star(c) /\ pc' = "prec" /\ result' = result
      BY <2>2 DEF Width, c
    <3>2. c.how \in {"next", "position"}  BY <1>3, <2>2, CountTypes
    <3>3. PICK v \in StarValues(c) : SetWidth(v)  BY <3>1
    <3>4. v \in Values /\ v \in IntMin .. IntMax
      <4>1. v \in Values  BY <1>3, <3>2, StarValueTypes
      <4> QED  BY <4>1, PrintfAssumption
    <3> QED  BY <1>3, <3>1, <3>2, <3>3, <3>4, SetWidthFacts, StarFacts DEF TypeOK
  <2> QED  BY <2>1, <2>2
<1> HIDE DEF c
<1>5. TypeOK'  BY <1>1, <1>4, ConstantFacts, SameFormat DEF TypeOK
<1>6. PhaseInv'
  BY <1>1, <1>2, <1>4, ConstantFacts DEF PhaseInv, Formatting, IsText
<1>7. FlagInv'
  BY <1>1, <1>4 DEF FlagInv
<1>8. CountInv'  BY <1>1, <1>2, <1>4, SameFormat DEF CountInv, Formatting
<1> QED  BY <1>5, <1>6, <1>7, <1>8

LEMMA PrecisionStep == PrintfInv /\ Precision => PrintfInv'
<1> SUFFICES ASSUME PrintfInv, Precision PROVE PrintfInv'  OBVIOUS
<1> USE DEF PrintfInv
<1> DEFINE c == format[at].prec
<1>1. /\ pc = "prec" /\ format' = format /\ stream' = stream /\ pass' = pass /\ at' = at
      /\ cnt' = cnt /\ pending' = pending /\ out' = out /\ err' = err /\ positional' = positional
  BY DEF Precision, call
<1>2. at \in DOMAIN format /\ ~IsText(format[at]) /\ pending = 0  BY <1>1 DEF PhaseInv, Formatting
<1>3. c \in Count \cup {NoCount}  BY <1>2, Here
<1>4. /\ nl_type' \in [1 .. NL_ARGMAX -> ArgType \cup {Unset}]
      /\ nl_arg' \in [1 .. NL_ARGMAX -> Values \cup {Unset}]
      /\ taken' \in Seq([at : Nat, type : ArgType]) /\ ap' \in Nat /\ unset' \in BOOLEAN
      /\ cur' \in Current /\ cur'.fl = cur.fl
      /\ \/ pc' = "returned" /\ result' = -1
         \/ pc' = "arg" /\ result' = result
  <2> HIDE DEF c
  <2>0. cur \in Current  BY DEF TypeOK
  <2>1. CASE c.how = "none"
    <3>1. /\ pc' = "arg" /\ cur' = cur /\ nl_type' = nl_type /\ nl_arg' = nl_arg
          /\ taken' = taken /\ ap' = ap /\ unset' = unset /\ result' = result
      BY <2>1 DEF Precision, args, c
    <3> QED  BY <3>1 DEF TypeOK
  <2>2. CASE c.how = "number"
    <3>1. c \in Count  BY <1>3, <2>2 DEF NoCount
    <3>2. /\ pc' = "arg" /\ cur' = [cur EXCEPT !.p = c.n, !.xp = TRUE]
          /\ nl_type' = nl_type /\ nl_arg' = nl_arg
          /\ taken' = taken /\ ap' = ap /\ unset' = unset /\ result' = result
      BY <2>2 DEF Precision, args, c
    <3>3. c.n \in Int
      <4>1. c.n \in -1 .. IntMax  BY <2>2, <3>1, CountTypes
      <4> QED  BY <4>1
    <3>4. cur' \in Current /\ cur'.fl = cur.fl  BY <2>0, <3>2, <3>3 DEF Current
    <3> QED  BY <3>2, <3>4 DEF TypeOK
  <2>3. CASE c.how = "next" /\ positional
    <3>1. /\ pc' = "returned" /\ result' = -1 /\ cur' = cur
          /\ nl_type' = nl_type /\ nl_arg' = nl_arg
          /\ taken' = taken /\ ap' = ap /\ unset' = unset
      BY <2>3 DEF Precision, Return, args, c
    <3> QED  BY <3>1 DEF TypeOK
  <2>4. CASE c.how \notin {"none", "number"} /\ ~(c.how = "next" /\ positional)
    <3>1. /\ \E v \in StarValues(c) : SetPrecision(v)
          /\ Star(c) /\ pc' = "arg" /\ result' = result
      BY <2>4 DEF Precision, c
    <3>2. c \in Count /\ c.how \in {"next", "position"}
      <4>1. c \in Count  BY <1>3, <2>4 DEF NoCount
      <4> QED  BY <2>4, <4>1, CountTypes
    <3>3. PICK v \in StarValues(c) : SetPrecision(v)  BY <3>1
    <3>4. v \in Int
      <4>1. v \in Values  BY <3>2, StarValueTypes
      <4> QED  BY <4>1, ConstantFacts
    <3>5. cur' = [cur EXCEPT !.p = v, !.xp = v >= 0]  BY <3>3 DEF SetPrecision
    <3>6. cur' \in Current /\ cur'.fl = cur.fl
      <4>1. (v >= 0) \in BOOLEAN  OBVIOUS
      <4> QED  BY <2>0, <3>4, <3>5, <4>1 DEF Current
    <3> QED  BY <3>1, <3>2, <3>6, StarFacts DEF TypeOK
  <2> QED  BY <2>1, <2>2, <2>3, <2>4
<1> HIDE DEF c
<1>5. TypeOK'  BY <1>1, <1>4, ConstantFacts, SameFormat DEF TypeOK
<1>6. PhaseInv'
  BY <1>1, <1>2, <1>4, ConstantFacts DEF PhaseInv, Formatting, IsText
<1>7. FlagInv'
  BY <1>1, <1>4 DEF FlagInv
<1>8. CountInv'  BY <1>1, <1>2, <1>4, SameFormat DEF CountInv, Formatting
<1> QED  BY <1>5, <1>6, <1>7, <1>8

(* Where an argument goes: it is remembered, or given to the conversion.   *)
LEMMA ArgumentCases ==
  ASSUME PrintfInv, Argument
  PROVE  /\ pc = "arg" /\ format' = format /\ stream' = stream /\ pass' = pass /\ cnt' = cnt
         /\ pending' = pending /\ out' = out /\ err' = err /\ positional' = positional
         /\ nl_type' \in [1 .. NL_ARGMAX -> ArgType \cup {Unset}]
         /\ nl_arg' = nl_arg
         /\ taken' \in Seq([at : Nat, type : ArgType]) /\ ap' \in Nat /\ unset' \in BOOLEAN
         /\ \/ /\ pc' = "returned" /\ result' \in {-1, 0}
               /\ at' = at /\ cur' = cur
            \/ /\ pc' = "next" /\ result' = result /\ pass = 1
               /\ at' = at + 1 /\ cur' = Blank
            \/ /\ pc' = "convert" /\ result' = result /\ pass = 2 /\ ~err
               /\ at' = at
               /\ \E v \in Values :
                    cur' = [cur EXCEPT !.arg = v,
                                       !.fl = IF "left" \in @ THEN @ \ {"zero"} ELSE @]
<1> USE DEF PrintfInv
<1> DEFINE item == format[at]
           type == Type(item.prefix, item.conv)
           Go(v) == IF err THEN Return(-1) /\ UNCHANGED cur
                    ELSE /\ cur' = [cur EXCEPT !.arg = v, !.fl = IF "left" \in @ THEN @ \ {"zero"} ELSE @]
                         /\ pc' = "convert" /\ UNCHANGED result
<1>1. /\ pc = "arg" /\ format' = format /\ stream' = stream /\ pass' = pass /\ cnt' = cnt
      /\ pending' = pending /\ out' = out /\ err' = err /\ positional' = positional
  BY DEF Argument, call
<1>2. at \in DOMAIN format /\ ~IsText(item)  BY <1>1 DEF PhaseInv, Formatting
<1>3. item.pos \in 0 .. NL_ARGMAX  BY <1>2, Here
<1>4. type \in ArgType \cup {Unset}  BY ArgumentTypes
<1>5. /\ nl_type \in [1 .. NL_ARGMAX -> ArgType \cup {Unset}]
      /\ nl_arg \in [1 .. NL_ARGMAX -> Values \cup {Unset}]
      /\ taken \in Seq([at : Nat, type : ArgType]) /\ ap \in Nat /\ unset \in BOOLEAN
      /\ pass \in {1, 2}
  BY DEF TypeOK
<1>6. IF type = Unset THEN Return(-1) /\ UNCHANGED <<at, cur, args, unset>>
      ELSE IF pass = 1 /\ item.pos = 0
      THEN Return(0) /\ UNCHANGED <<at, cur, args, unset>>
      ELSE IF pass = 1
      THEN /\ nl_type' = [nl_type EXCEPT ![item.pos] = type]
           /\ at' = at + 1 /\ pc' = "next" /\ cur' = Blank
           /\ UNCHANGED <<nl_arg, taken, ap, unset, result>>
      ELSE IF item.pos # 0
      THEN /\ unset' = (unset \/ nl_arg[item.pos] = Unset)
           /\ \E v \in Fetched(item.pos) : Go(v)
           /\ UNCHANGED <<args, at>>
      ELSE /\ Take(type)
           /\ \E v \in Values : Go(v)
           /\ UNCHANGED <<nl_type, nl_arg, unset, at>>
  BY DEF Argument
<1>7. ASSUME NEW v \in Values, Go(v)
      PROVE  \/ pc' = "returned" /\ result' = -1 /\ cur' = cur
             \/ /\ pc' = "convert" /\ result' = result /\ ~err
                /\ cur' = [cur EXCEPT !.arg = v, !.fl = IF "left" \in @ THEN @ \ {"zero"} ELSE @]
  BY <1>7 DEF Return
<1> HIDE DEF item, type, Go
<1>8. CASE type = Unset \/ (pass = 1 /\ item.pos = 0)
  <2>1. /\ pc' = "returned" /\ result' \in {-1, 0} /\ at' = at /\ cur' = cur
        /\ nl_type' = nl_type /\ nl_arg' = nl_arg /\ taken' = taken /\ ap' = ap /\ unset' = unset
    BY <1>6, <1>8 DEF Return, args
  <2> QED  BY <1>1, <1>5, <2>1
<1>9. CASE type # Unset /\ pass = 1 /\ item.pos # 0
  <2>1. /\ nl_type' = [nl_type EXCEPT ![item.pos] = type]
        /\ at' = at + 1 /\ pc' = "next" /\ cur' = Blank
        /\ nl_arg' = nl_arg /\ taken' = taken /\ ap' = ap /\ unset' = unset /\ result' = result
    BY <1>6, <1>9
  <2>2. nl_type' \in [1 .. NL_ARGMAX -> ArgType \cup {Unset}]  BY <1>4, <1>5, <2>1
  <2> QED  BY <1>1, <1>5, <1>9, <2>1, <2>2
<1>10. CASE type # Unset /\ pass # 1 /\ item.pos # 0
  <2>1. /\ unset' = (unset \/ nl_arg[item.pos] = Unset)
        /\ \E v \in Fetched(item.pos) : Go(v)
        /\ nl_type' = nl_type /\ nl_arg' = nl_arg /\ taken' = taken /\ ap' = ap /\ at' = at
    BY <1>6, <1>10 DEF args
  <2>2. PICK v \in Fetched(item.pos) : Go(v)  BY <2>1
  <2>3. v \in Values
    <3>1. item.pos \in 1 .. NL_ARGMAX  BY <1>3, <1>10, ConstantFacts
    <3> QED  BY <1>5, <3>1 DEF Fetched
  <2>4. unset' \in BOOLEAN  BY <1>5, <2>1
  <2>5. \/ pc' = "returned" /\ result' = -1 /\ cur' = cur
        \/ /\ pc' = "convert" /\ result' = result /\ ~err
           /\ cur' = [cur EXCEPT !.arg = v, !.fl = IF "left" \in @ THEN @ \ {"zero"} ELSE @]
    BY <1>7, <2>2, <2>3
  <2>6. pass = 2  BY <1>5, <1>10
  <2> QED  BY <1>1, <1>5, <2>1, <2>3, <2>4, <2>5, <2>6
<1>11. CASE type # Unset /\ pass # 1 /\ item.pos = 0
  <2>1. /\ Take(type)
        /\ \E v \in Values : Go(v)
        /\ nl_type' = nl_type /\ nl_arg' = nl_arg /\ unset' = unset /\ at' = at
    BY <1>6, <1>11
  <2>2. PICK v \in Values : Go(v)  BY <2>1
  <2>3. \/ pc' = "returned" /\ result' = -1 /\ cur' = cur
        \/ /\ pc' = "convert" /\ result' = result /\ ~err
           /\ cur' = [cur EXCEPT !.arg = v, !.fl = IF "left" \in @ THEN @ \ {"zero"} ELSE @]
    BY <1>7, <2>2
  <2>4. taken' \in Seq([at : Nat, type : ArgType]) /\ ap' \in Nat
    <3>1. type \in ArgType  BY <1>4, <1>11
    <3> QED  BY <1>5, <2>1, <3>1, TakeTypes
  <2>5. pass = 2  BY <1>5, <1>11
  <2> QED  BY <1>1, <1>5, <2>1, <2>3, <2>4, <2>5
<1> QED  BY <1>8, <1>9, <1>10, <1>11

LEMMA ArgumentStep == PrintfInv /\ Argument => PrintfInv'
<1> SUFFICES ASSUME PrintfInv, Argument PROVE PrintfInv'  OBVIOUS
<1> USE DEF PrintfInv
<1>1. /\ pc = "arg" /\ format' = format /\ stream' = stream /\ pass' = pass /\ cnt' = cnt
      /\ pending' = pending /\ out' = out /\ err' = err /\ positional' = positional
      /\ nl_type' \in [1 .. NL_ARGMAX -> ArgType \cup {Unset}]
      /\ nl_arg' = nl_arg
      /\ taken' \in Seq([at : Nat, type : ArgType]) /\ ap' \in Nat /\ unset' \in BOOLEAN
  BY ArgumentCases
<1>2. at \in DOMAIN format /\ ~IsText(format[at]) /\ pending = 0  BY <1>1 DEF PhaseInv, Formatting
<1>3. Len(format) \in Nat /\ DOMAIN format = 1 .. Len(format)  BY Here
<1>4. CASE pc' = "returned" /\ result' \in {-1, 0} /\ at' = at /\ cur' = cur
  <2>1. TypeOK'  BY <1>1, <1>4, ConstantFacts, SameFormat DEF TypeOK
  <2>2. PhaseInv' /\ FlagInv'
    BY <1>1, <1>4, ConstantFacts DEF PhaseInv, FlagInv, Formatting
  <2>3. CountInv'
    <3>1. result' = 0 => pass = 1
      BY <1>1, <1>4 DEF Argument, Return, TypeOK
    <3> QED  BY <1>1, <1>4, <3>1 DEF CountInv, Formatting
  <2> QED  BY <2>1, <2>2, <2>3
<1>5. CASE pc' = "next" /\ result' = result /\ pass = 1 /\ at' = at + 1 /\ cur' = Blank
  <2>1. at' \in 1 .. Len(format) + 1  BY <1>2, <1>3, <1>5
  <2>2. at' \in 1 .. Larger(Len(format), NL_ARGMAX) + 1  BY <2>1, NextItem
  <2>3. TypeOK'  BY <1>1, <1>5, <2>2, BlankType, SameFormat DEF TypeOK
  <2>4. PhaseInv' /\ FlagInv'
    BY <1>1, <1>5, <2>1 DEF PhaseInv, FlagInv, Formatting
  <2>5. CountInv'  BY <1>1, <1>5 DEF CountInv
  <2> QED  BY <2>3, <2>4, <2>5
<1>6. ASSUME pc' = "convert", result' = result, pass = 2, ~err, at' = at,
             NEW v \in Values,
             cur' = [cur EXCEPT !.arg = v, !.fl = IF "left" \in @ THEN @ \ {"zero"} ELSE @]
      PROVE  PrintfInv'
  <2>1. /\ cur' \in Current
        /\ cur'.fl = IF "left" \in cur.fl THEN cur.fl \ {"zero"} ELSE cur.fl
    <3> DEFINE fl == IF "left" \in cur.fl THEN cur.fl \ {"zero"} ELSE cur.fl
    <3>1. cur \in Current  BY DEF TypeOK
    <3>2. fl \in SUBSET Flag  BY <3>1 DEF Current
    <3>3. cur' = [cur EXCEPT !.arg = v, !.fl = fl]  BY <1>6
    <3> HIDE DEF fl
    <3>4. cur' \in Current /\ cur'.fl = fl  BY <3>1, <3>2, <3>3 DEF Current
    <3> QED  BY <3>4 DEF fl
  <2>2. TypeOK'  BY <1>1, <1>6, <2>1, SameFormat DEF TypeOK
  <2>3. PhaseInv'  BY <1>1, <1>2, <1>6 DEF PhaseInv, Formatting, IsText
  <2>4. FlagInv'  BY <1>1, <1>6, <2>1 DEF FlagInv
  <2>5. CountInv'  BY <1>1, <1>2, <1>6, SameFormat DEF CountInv, Formatting
  <2> QED  BY <2>2, <2>3, <2>4, <2>5
<1> QED  BY <1>4, <1>5, <1>6, ArgumentCases

(***************************************************************************)
(* The conversions.                                                        *)
(***************************************************************************)
(* A step inside a directive, with the stream left alone: it fails, or     *)
(* goes on to the common end.                                              *)
LEMMA Prepared ==
  ASSUME PrintfInv, pc = "convert",
         format' = format, stream' = stream, pass' = pass, at' = at, cnt' = cnt,
         pending' = pending, positional' = positional,
         nl_type' = nl_type, nl_arg' = nl_arg, taken' = taken, ap' = ap,
         out' = out, err' = err, unset' = unset,
         \/ pc' = "returned" /\ result' = -1 /\ cur' = cur
         \/ /\ pc' = "put" /\ result' = result /\ cur' \in Current
            /\ "left" \notin cur'.fl \/ "zero" \notin cur'.fl
  PROVE  PrintfInv'
<1> USE DEF PrintfInv
<1>1. at \in DOMAIN format /\ ~IsText(format[at]) /\ pending = 0 /\ pass = 2
  BY DEF PhaseInv, Formatting
<1>2. TypeOK'  BY ConstantFacts, SameFormat DEF TypeOK
<1>3. PhaseInv'  BY <1>1, ConstantFacts DEF PhaseInv, Formatting, IsText
<1>4. FlagInv'  BY DEF FlagInv
<1>5. CountInv'  BY <1>1, SameFormat DEF CountInv, Formatting
<1> QED  BY <1>2, <1>3, <1>4, <1>5

(* The facts about a directive with its argument.                          *)
LEMMA Converting ==
  ASSUME PrintfInv, pc = "convert"
  PROVE  /\ at \in DOMAIN format /\ ~IsText(format[at]) /\ pending = 0 /\ pass = 2
         /\ cur \in Current /\ ("left" \notin cur.fl \/ "zero" \notin cur.fl)
BY DEF PrintfInv, PhaseInv, FlagInv, Formatting, TypeOK

LEMMA UnsignedType ==
  ASSUME NEW v \in Values
  PROVE  Unsigned(v) \in Nat
<1>1. v \in Int /\ v >= IntMin /\ IntMax \in Nat  BY ConstantFacts
<1>2. CASE v < 0
  <2>1. Unsigned(v) = v + 2 * IntMax + 2  BY <1>2 DEF Unsigned
  <2> QED  BY <1>1, <1>2, <2>1 DEF IntMin
<1>3. CASE ~(v < 0)  BY <1>1, <1>3 DEF Unsigned
<1> QED  BY <1>2, <1>3

LEMMA LargerType ==
  ASSUME NEW a \in Int, NEW b \in Int
  PROVE  /\ Larger(a, b) \in Int /\ Larger(a, b) >= a /\ Larger(a, b) >= b
         /\ Larger(a, b) = a \/ Larger(a, b) = b
BY DEF Larger

LEMMA IntegerFacts ==
  ASSUME TypeOK, NEW item, item.conv \in {"d", "u", "o", "x", "p"}
  PROVE  /\ Integer(item) \in Current
         /\ Integer(item).fl \subseteq cur.fl \cup {"alt"} /\ Integer(item).w = cur.w
<1> DEFINE v == cur.arg
           len == CASE item.conv = "d" -> Digits(IF v < 0 THEN -v ELSE v, 10)
                    [] item.conv = "u" -> Digits(Unsigned(v), 10)
                    [] item.conv = "o" -> Digits(Unsigned(v), 8)
                    [] OTHER -> Digits(Unsigned(v), 16)
           p == CASE item.conv = "o" -> IF "alt" \in cur.fl THEN Larger(cur.p, len + 1) ELSE cur.p
                  [] item.conv = "p" -> IF cur.p < 0 THEN cur.p ELSE Larger(cur.p, 8)
                  [] OTHER -> cur.p
           pl == CASE item.conv = "d" -> IF v < 0 \/ cur.fl \cap {"plus", "space"} # {} THEN 1 ELSE 0
                   [] item.conv = "x" -> IF "alt" \in cur.fl /\ v # 0 THEN 2 ELSE 0
                   [] item.conv = "p" -> IF v # 0 THEN 2 ELSE 0
                   [] OTHER -> cur.pl
           fl == IF item.conv = "p" THEN cur.fl \cup {"alt"} ELSE cur.fl
<1>1. cur \in Current  BY DEF TypeOK
<1>2. /\ v \in Values /\ v \in Int /\ cur.p \in Int /\ cur.pl \in 0 .. 2
      /\ cur.fl \subseteq Flag
  BY <1>1, CurrentTypes
<1>3. len \in Nat
  <2>1. Unsigned(v) \in Nat  BY <1>2, UnsignedType
  <2> DEFINE m == IF v < 0 THEN -v ELSE v
  <2>2. m \in Nat  BY <1>2
  <2> HIDE DEF m
  <2>3. Digits(m, 10) \in Nat  BY <2>2, DigitsType
  <2>4. Digits(Unsigned(v), 10) \in Nat  BY <2>1, DigitsType
  <2>5. Digits(Unsigned(v), 8) \in Nat  BY <2>1, DigitsType
  <2>6. Digits(Unsigned(v), 16) \in Nat  BY <2>1, DigitsType
  <2> HIDE DEF v
  <2> QED  BY <2>3, <2>4, <2>5, <2>6 DEF m
<1> HIDE DEF len
<1>4. p \in Int  BY <1>2, <1>3, LargerType
<1>5. pl \in 0 .. 2  BY <1>2
<1>6. fl \in SUBSET Flag  BY <1>2 DEF Flag
<1>7. Integer(item) = [cur EXCEPT !.len = len, !.p = p, !.fl = fl, !.pl = pl]
  <2>1. cur = [fl |-> cur.fl, w |-> cur.w, p |-> cur.p, xp |-> cur.xp, arg |-> cur.arg,
               pl |-> cur.pl, len |-> cur.len]
    BY <1>1 DEF Current
  <2>2. CASE item.conv = "d"  BY <2>1, <2>2 DEF Integer, len
  <2>3. CASE item.conv = "u"  BY <2>1, <2>3 DEF Integer, len
  <2>4. CASE item.conv = "o"  BY <2>1, <2>4 DEF Integer, len
  <2>5. CASE item.conv = "x"  BY <2>1, <2>5 DEF Integer, len
  <2>6. CASE item.conv = "p"  BY <2>1, <2>6 DEF Integer, len
  <2> QED  BY <2>2, <2>3, <2>4, <2>5, <2>6
<1>8. fl \subseteq cur.fl \cup {"alt"}  OBVIOUS
<1> HIDE DEF p, pl, fl
<1> QED  BY <1>1, <1>3, <1>4, <1>5, <1>6, <1>7, <1>8 DEF Current

LEMMA ConvertIntegerStep == PrintfInv /\ ConvertInteger => PrintfInv'
<1> SUFFICES ASSUME PrintfInv, ConvertInteger PROVE PrintfInv'  OBVIOUS
<1> DEFINE c == Integer(format[at])
           zero == cur.arg = 0
<1>1. pc = "convert" /\ format[at].conv \in {"d", "u", "o", "x", "p"}  BY DEF ConvertInteger
<1>2. /\ format' = format /\ stream' = stream /\ pass' = pass /\ at' = at /\ cnt' = cnt
      /\ pending' = pending /\ positional' = positional
      /\ nl_type' = nl_type /\ nl_arg' = nl_arg /\ taken' = taken /\ ap' = ap
      /\ out' = out /\ err' = err /\ unset' = unset
  BY DEF ConvertInteger, call, args
<1>3. \/ pc' = "returned" /\ result' = -1 /\ cur' = cur
      \/ /\ pc' = "put" /\ result' = result
         /\ cur' = [c EXCEPT
              !.fl = IF c.xp THEN c.fl \ {"zero"} ELSE c.fl,
              !.p = IF zero /\ c.p = 0 THEN 0
                    ELSE Larger(c.p, c.len + (IF zero THEN 1 ELSE 0))]
  BY DEF ConvertInteger, Return
<1>4. c \in Current /\ c.fl \subseteq cur.fl \cup {"alt"}
  BY <1>1, IntegerFacts DEF PrintfInv
<1> HIDE DEF c
<1>5. ASSUME pc' = "put", NEW fl, fl = IF c.xp THEN c.fl \ {"zero"} ELSE c.fl,
             NEW p, p = IF zero /\ c.p = 0 THEN 0
                        ELSE Larger(c.p, c.len + (IF zero THEN 1 ELSE 0)),
             cur' = [c EXCEPT !.fl = fl, !.p = p]
      PROVE  cur' \in Current /\ ("left" \notin cur'.fl \/ "zero" \notin cur'.fl)
  <2>1. p \in Int
    <3> DEFINE n == c.len + (IF zero THEN 1 ELSE 0)
    <3>1. c.p \in Int /\ n \in Int  BY <1>4, CurrentTypes
    <3>2. Larger(c.p, n) \in Int  BY <3>1, LargerType
    <3> QED  BY <1>5, <3>2
  <2>2. fl \in SUBSET Flag /\ fl \subseteq cur.fl \cup {"alt"}
    <3>1. c.fl \subseteq Flag  BY <1>4, CurrentTypes
    <3> QED  BY <1>4, <1>5, <3>1
  <2>3. "left" \notin fl \/ "zero" \notin fl  BY <1>1, <2>2, Converting
  <2>4. cur' \in Current /\ cur'.fl = fl  BY <1>4, <1>5, <2>1, <2>2 DEF Current
  <2> QED  BY <2>3, <2>4
<1>6. \/ pc' = "returned" /\ result' = -1 /\ cur' = cur
      \/ /\ pc' = "put" /\ result' = result /\ cur' \in Current
         /\ "left" \notin cur'.fl \/ "zero" \notin cur'.fl
  BY <1>3, <1>5
<1> QED  BY <1>1, <1>2, <1>6, Prepared

(* The precision and length are set, and nothing is padded with zeroes.    *)
LEMMA EditedType ==
  ASSUME cur \in Current, NEW p \in Int, NEW len \in Nat,
         cur' = [cur EXCEPT !.p = p, !.len = len, !.fl = cur.fl \ {"zero"}]
  PROVE  cur' \in Current /\ "zero" \notin cur'.fl
<1>1. ASSUME NEW fl \in SUBSET Flag, cur' = [cur EXCEPT !.p = p, !.len = len, !.fl = fl]
      PROVE  cur' \in Current /\ cur'.fl = fl
  BY <1>1 DEF Current
<1> DEFINE fl == cur.fl \ {"zero"}
<1>2. fl \in SUBSET Flag /\ "zero" \notin fl  BY DEF Current
<1>3. cur' = [cur EXCEPT !.p = p, !.len = len, !.fl = fl]  OBVIOUS
<1> HIDE DEF fl
<1> QED  BY <1>1, <1>2, <1>3

LEMMA ConvertCharacterStep == PrintfInv /\ ConvertCharacter => PrintfInv'
<1> SUFFICES ASSUME PrintfInv, ConvertCharacter PROVE PrintfInv'  OBVIOUS
<1>1. /\ pc = "convert" /\ pc' = "put" /\ result' = result
      /\ cur' = [cur EXCEPT !.p = 1, !.len = 1, !.fl = cur.fl \ {"zero"}]
      /\ format' = format /\ stream' = stream /\ pass' = pass /\ at' = at /\ cnt' = cnt
      /\ pending' = pending /\ positional' = positional
      /\ nl_type' = nl_type /\ nl_arg' = nl_arg /\ taken' = taken /\ ap' = ap
      /\ out' = out /\ err' = err /\ unset' = unset
  BY DEF ConvertCharacter, call, args
<1>2. cur \in Current  BY <1>1, Converting
<1>3. cur' \in Current /\ "zero" \notin cur'.fl
  <2> DEFINE n == 1
  <2>1. n \in Int /\ n \in Nat  OBVIOUS
  <2>2. cur' = [cur EXCEPT !.p = n, !.len = n, !.fl = cur.fl \ {"zero"}]  BY <1>1
  <2> HIDE DEF n
  <2> QED  BY <1>2, <2>1, <2>2, EditedType
<1> QED  BY <1>1, <1>3, Prepared

LEMMA ConvertStringStep == PrintfInv /\ ConvertString => PrintfInv'
<1> SUFFICES ASSUME PrintfInv, ConvertString PROVE PrintfInv'  OBVIOUS
<1> DEFINE n == StringLength(cur.arg)
           most == IF cur.p < 0 THEN IntMax ELSE cur.p
           len == IF n < most THEN n ELSE most
<1>1. /\ pc = "convert"
      /\ format' = format /\ stream' = stream /\ pass' = pass /\ at' = at /\ cnt' = cnt
      /\ pending' = pending /\ positional' = positional
      /\ nl_type' = nl_type /\ nl_arg' = nl_arg /\ taken' = taken /\ ap' = ap
      /\ out' = out /\ err' = err /\ unset' = unset
      /\ \/ pc' = "returned" /\ result' = -1 /\ cur' = cur
         \/ /\ pc' = "put" /\ result' = result
            /\ cur' = [cur EXCEPT !.p = len, !.len = len, !.fl = cur.fl \ {"zero"}]
  BY DEF ConvertString, Return, call, args
<1>2. cur \in Current  BY <1>1, Converting
<1>3. len \in Nat
  <2>1. cur.arg \in Values /\ cur.p \in Int  BY <1>2, CurrentTypes
  <2>2. n \in Nat  BY <2>1, UnsignedType DEF StringLength
  <2>3. most \in Nat  BY <2>1, ConstantFacts
  <2> HIDE DEF n, most
  <2> QED  BY <2>2, <2>3
<1> HIDE DEF len
<1>4. ASSUME cur' = [cur EXCEPT !.p = len, !.len = len, !.fl = cur.fl \ {"zero"}]
      PROVE  cur' \in Current /\ "zero" \notin cur'.fl
  <2>1. len \in Int  BY <1>3
  <2> QED  BY <1>2, <1>3, <1>4, <2>1, EditedType
<1>5. \/ pc' = "returned" /\ result' = -1 /\ cur' = cur
      \/ /\ pc' = "put" /\ result' = result /\ cur' \in Current
         /\ "left" \notin cur'.fl \/ "zero" \notin cur'.fl
  BY <1>1, <1>4
<1> QED  BY <1>1, <1>5, Prepared

(* A conversion fails, or it ends with the item counted and, unless the    *)
(* stream failed, as much written as counted.                              *)
LEMMA ArgumentConverted ==
  ASSUME PrintfInv, pc \in {"convert", "put"},
         format' = format, stream' = stream, pass' = pass, cnt' = cnt,
         positional' = positional,
         nl_type' = nl_type, nl_arg' = nl_arg, taken' = taken, ap' = ap, unset' = unset,
         \/ /\ pc' = "returned" /\ result' = -1
            /\ at' = at /\ pending' = pending /\ cur' = cur /\ out' = out /\ err' = err
         \/ /\ pc' = "next" /\ result' = result /\ at' = at + 1 /\ cur' = Blank
            /\ pending' \in Nat /\ out' \in Nat /\ err' \in BOOLEAN
            /\ ~err' => ~err
            /\ ~err' /\ Regular => out' = out + pending'
  PROVE  PrintfInv'
<1> USE DEF PrintfInv
<1>1. at \in DOMAIN format /\ pending = 0 /\ pass = 2  BY DEF PhaseInv, Formatting
<1>2. Len(format) \in Nat /\ DOMAIN format = 1 .. Len(format) /\ cnt \in Nat  BY Here
<1>3. CASE /\ pc' = "returned" /\ result' = -1
           /\ at' = at /\ pending' = pending /\ cur' = cur /\ out' = out /\ err' = err
  <2>1. TypeOK'  BY <1>3, ConstantFacts, SameFormat DEF TypeOK
  <2>2. PhaseInv' /\ FlagInv'
    BY <1>1, <1>3, ConstantFacts DEF PhaseInv, FlagInv, Formatting
  <2>3. CountInv'  BY <1>3 DEF CountInv, Formatting
  <2> QED  BY <2>1, <2>2, <2>3
<1>4. CASE /\ pc' = "next" /\ result' = result /\ at' = at + 1 /\ cur' = Blank
           /\ pending' \in Nat /\ out' \in Nat /\ err' \in BOOLEAN
           /\ ~err' => ~err
           /\ ~err' /\ Regular => out' = out + pending'
  <2>1. at' \in 1 .. Len(format) + 1  BY <1>1, <1>2, <1>4
  <2>2. at' \in 1 .. Larger(Len(format), NL_ARGMAX) + 1  BY <2>1, NextItem
  <2>3. TypeOK'  BY <1>4, <2>2, BlankType, SameFormat DEF TypeOK
  <2>4. PhaseInv' /\ FlagInv'
    BY <1>1, <1>4, <2>1 DEF PhaseInv, FlagInv, Formatting
  <2>5. CountInv'
    <3>1. ASSUME Regular, ~err' PROVE out' = cnt' + pending'
      <4>1. out = cnt + pending  BY <1>1, <1>4, <3>1 DEF CountInv, Formatting
      <4> QED  BY <1>1, <1>2, <1>4, <3>1, <4>1
    <3> QED  BY <1>4, <3>1, SameFormat DEF CountInv, Formatting
  <2> QED  BY <2>3, <2>4, <2>5
<1> QED  BY <1>3, <1>4

LEMMA PadType ==
  ASSUME NEW w \in Int, NEW n \in Int, NEW fl
  PROVE  Pad(w, n, fl) \in Nat
BY DEF Pad

(* The padding of a width is written once: before, as zeroes, or after.    *)
LEMMA PadsFill ==
  ASSUME NEW w \in Nat, NEW n \in Nat, n <= w, NEW fl, "left" \notin fl \/ "zero" \notin fl
  PROVE  Pad(w, n, fl) + Pad(w, n, Flip(fl, "zero")) + Pad(w, n, Flip(fl, "left")) = w - n
<1>1. CASE "left" \in fl
  <2>1. /\ "left" \in Flip(fl, "zero")
        /\ "left" \notin Flip(fl, "left") /\ "zero" \notin Flip(fl, "left")
    BY <1>1 DEF Flip
  <2>2. Pad(w, n, fl) = 0 /\ Pad(w, n, Flip(fl, "zero")) = 0  BY <1>1, <2>1 DEF Pad
  <2>3. Pad(w, n, Flip(fl, "left")) = w - n  BY <2>1 DEF Pad
  <2> QED  BY <2>2, <2>3
<1>2. CASE "zero" \in fl
  <2>1. /\ "zero" \in Flip(fl, "left")
        /\ "left" \notin Flip(fl, "zero") /\ "zero" \notin Flip(fl, "zero")
    BY <1>2 DEF Flip
  <2>2. Pad(w, n, fl) = 0 /\ Pad(w, n, Flip(fl, "left")) = 0  BY <1>2, <2>1 DEF Pad
  <2>3. Pad(w, n, Flip(fl, "zero")) = w - n  BY <2>1 DEF Pad
  <2> QED  BY <2>2, <2>3
<1>3. CASE "left" \notin fl /\ "zero" \notin fl
  <2>1. "zero" \in Flip(fl, "zero") /\ "left" \in Flip(fl, "left")  BY <1>3 DEF Flip
  <2>2. Pad(w, n, Flip(fl, "zero")) = 0 /\ Pad(w, n, Flip(fl, "left")) = 0  BY <2>1 DEF Pad
  <2>3. Pad(w, n, fl) = w - n  BY <1>3 DEF Pad
  <2> QED  BY <2>2, <2>3
<1> QED  BY <1>1, <1>2, <1>3

(* The same without zeroes.                                                *)
LEMMA SpacesFill ==
  ASSUME NEW w \in Int, NEW n \in Nat, NEW fl, "zero" \notin fl
  PROVE  Pad(w, n, fl) + n + Pad(w, n, Flip(fl, "left")) = Larger(w, n)
<1>1. CASE "left" \in fl
  <2>1. "left" \notin Flip(fl, "left") /\ "zero" \notin Flip(fl, "left")  BY <1>1 DEF Flip
  <2>2. Pad(w, n, fl) = 0  BY <1>1 DEF Pad
  <2>3. Pad(w, n, Flip(fl, "left")) = IF n >= w THEN 0 ELSE w - n  BY <2>1 DEF Pad
  <2> QED  BY <2>2, <2>3 DEF Larger
<1>2. CASE "left" \notin fl
  <2>1. "left" \in Flip(fl, "left")  BY <1>2 DEF Flip
  <2>2. Pad(w, n, Flip(fl, "left")) = 0  BY <2>1 DEF Pad
  <2>3. Pad(w, n, fl) = IF n >= w THEN 0 ELSE w - n  BY <1>2 DEF Pad
  <2> QED  BY <2>2, <2>3 DEF Larger
<1> QED  BY <1>1, <1>2

LEMMA ConvertCountStep == PrintfInv /\ ConvertCount => PrintfInv'
<1> SUFFICES ASSUME PrintfInv, ConvertCount PROVE PrintfInv'  OBVIOUS
<1>1. /\ pc = "convert" /\ pc' = "next" /\ at' = at + 1 /\ cur' = Blank
      /\ format' = format /\ stream' = stream /\ pass' = pass /\ cnt' = cnt
      /\ pending' = pending /\ positional' = positional
      /\ nl_type' = nl_type /\ nl_arg' = nl_arg /\ taken' = taken /\ ap' = ap
      /\ out' = out /\ err' = err /\ unset' = unset /\ result' = result
  BY DEF ConvertCount, call, args
<1>2. pending = 0  BY <1>1, Converting
<1>3. out \in Nat /\ err \in BOOLEAN  BY DEF PrintfInv, TypeOK
<1>4. /\ pending' \in Nat /\ out' \in Nat /\ err' \in BOOLEAN /\ (~err' => ~err)
      /\ out' = out + pending'
  BY <1>1, <1>2, <1>3
<1> QED  BY <1>1, <1>4, ArgumentConverted

LEMMA ConvertFloatStep == PrintfInv /\ ConvertFloat => PrintfInv'
<1> SUFFICES ASSUME PrintfInv, ConvertFloat PROVE PrintfInv'  OBVIOUS
<1>1. /\ pc = "convert"
      /\ format' = format /\ stream' = stream /\ pass' = pass /\ cnt' = cnt
      /\ positional' = positional
      /\ nl_type' = nl_type /\ nl_arg' = nl_arg /\ taken' = taken /\ ap' = ap
      /\ unset' = unset
  BY DEF ConvertFloat, call, args
<1>2. CASE /\ pc' = "returned" /\ result' = -1
           /\ at' = at /\ pending' = pending /\ cur' = cur /\ out' = out /\ err' = err
  BY <1>1, <1>2, ArgumentConverted
<1>3. ASSUME NEW n \in FloatLens, Write(<<Larger(cur.w, n)>>), pending' = Larger(cur.w, n),
             at' = at + 1, pc' = "next", cur' = Blank, result' = result
      PROVE  PrintfInv'
  <2> DEFINE len == Larger(cur.w, n)
             s == <<len>>
  <2>1. cur.w \in Int /\ n \in Nat
    <3>1. cur \in Current  BY <1>1, Converting
    <3> QED  BY <3>1, CurrentTypes, ConstantFacts
  <2>2. len \in Nat  BY <2>1 DEF Larger
  <2> HIDE DEF len
  <2>3. s \in Seq(Nat) /\ Total(s) = len  BY <2>2, TotalOne
  <2>4. out \in Nat /\ err \in BOOLEAN  BY DEF PrintfInv, TypeOK
  <2>5. Write(s) /\ pending' = len  BY <1>3 DEF len
  <2> HIDE DEF s
  <2>6. out' \in Nat /\ err' \in BOOLEAN /\ (~err' => ~err /\ out' = out + Total(s))
    BY <2>3, <2>4, <2>5, WriteFacts
  <2>7. /\ pending' \in Nat /\ (~err' => ~err) /\ (~err' => out' = out + pending')
    BY <2>2, <2>3, <2>5, <2>6
  <2> QED  BY <1>1, <1>3, <2>6, <2>7, ArgumentConverted
<1> QED  BY <1>2, <1>3 DEF ConvertFloat, Return

LEMMA ConvertWideStep == PrintfInv /\ ConvertWide => PrintfInv'
<1> SUFFICES ASSUME PrintfInv, ConvertWide PROVE PrintfInv'  OBVIOUS
<1>1. /\ pc = "convert" /\ (WideString \/ WideCharacter)
      /\ format' = format /\ stream' = stream /\ pass' = pass /\ cnt' = cnt
      /\ positional' = positional
      /\ nl_type' = nl_type /\ nl_arg' = nl_arg /\ taken' = taken /\ ap' = ap
      /\ unset' = unset
  BY DEF ConvertWide, call, args
<1>2. CASE /\ pc' = "returned" /\ result' = -1
           /\ at' = at /\ pending' = pending /\ cur' = cur /\ out' = out /\ err' = err
  BY <1>1, <1>2, ArgumentConverted
<1>3. ASSUME NEW len, len = (IF cur.arg < 0 THEN 0 ELSE WideLength),
             Write(<<Pad(cur.w, len, cur.fl), len, Pad(cur.w, len, Flip(cur.fl, "left"))>>),
             pending' = Larger(cur.w, len),
             at' = at + 1, pc' = "next", cur' = Blank, result' = result
      PROVE  PrintfInv'
  <2> DEFINE a == Pad(cur.w, len, cur.fl)
             b == Pad(cur.w, len, Flip(cur.fl, "left"))
             s == <<a, len, b>>
  <2>0. cur \in Current  BY <1>1, Converting
  <2>1. cur.w \in Int /\ cur.p \in Int /\ cur.arg \in Int  BY <2>0, CurrentTypes
  <2>2. len \in Nat
    <3>1. CASE cur.arg < 0  BY <1>3, <3>1
    <3>2. CASE ~(cur.arg < 0)
      <4> DEFINE n == IF WideCharacter THEN 2 ELSE 2 * cur.arg
      <4>1. n \in Nat  BY <2>1, <3>2
      <4>2. len = IF WideString /\ cur.p >= 0 /\ cur.p < n THEN 2 * (cur.p \div 2) ELSE n
        BY <1>3, <3>2 DEF WideLength
      <4>3. cur.p >= 0 => 2 * (cur.p \div 2) \in Nat  BY <2>1
      <4> HIDE DEF n
      <4> QED  BY <4>1, <4>2, <4>3
    <3> QED  BY <3>1, <3>2
  <2>3. a \in Nat /\ b \in Nat
    <3>1. len \in Int  BY <2>2
    <3> QED  BY <2>1, <3>1, PadType
  <2>4. Regular => a + len + b = Larger(cur.w, len)
    <3>1. ASSUME Regular PROVE "zero" \notin cur.fl
      <4>1. at \in DOMAIN format /\ ~IsText(format[at])  BY <1>1, Converting
      <4>2. "left" \in format[at].flags \/ "zero" \notin format[at].flags
        BY <1>1, <3>1, <4>1 DEF Regular, WideString, WideCharacter
      <4>3. /\ format[at].flags \ {"zero"} \subseteq cur.fl
            /\ cur.fl \subseteq format[at].flags \cup {"left"}
            /\ "left" \notin cur.fl \/ "zero" \notin cur.fl
        BY <1>1 DEF PrintfInv, FlagInv
      <4> QED  BY <4>2, <4>3
    <3> QED  BY <2>1, <2>2, <3>1, SpacesFill
  <2>5. Larger(cur.w, len) \in Nat  BY <2>1, <2>2 DEF Larger
  <2>6. Write(s)  BY <1>3
  <2> HIDE DEF a, b
  <2>7. s \in Seq(Nat) /\ Total(s) = a + len + b  BY <2>2, <2>3, TotalThree
  <2>8. out \in Nat /\ err \in BOOLEAN  BY DEF PrintfInv, TypeOK
  <2> HIDE DEF s
  <2>9. out' \in Nat /\ err' \in BOOLEAN /\ (~err' => ~err /\ out' = out + Total(s))
    BY <2>6, <2>7, <2>8, WriteFacts
  <2>10. /\ pending' \in Nat /\ (~err' => ~err) /\ (~err' /\ Regular => out' = out + pending')
    BY <1>3, <2>4, <2>5, <2>7, <2>9
  <2> QED  BY <1>1, <1>3, <2>9, <2>10, ArgumentConverted
<1>4. \/ /\ pc' = "returned" /\ result' = -1
         /\ at' = at /\ pending' = pending /\ cur' = cur /\ out' = out /\ err' = err
      \/ \E len : 
         /\ len = (IF cur.arg < 0 THEN 0 ELSE WideLength)
         /\ Write(<<Pad(cur.w, len, cur.fl), len, Pad(cur.w, len, Flip(cur.fl, "left"))>>)
         /\ pending' = Larger(cur.w, len)
         /\ at' = at + 1 /\ pc' = "next" /\ cur' = Blank /\ result' = result
  BY DEF ConvertWide, Return
<1> QED  BY <1>2, <1>3, <1>4

LEMMA PutStep == PrintfInv /\ Put => PrintfInv'
<1> SUFFICES ASSUME PrintfInv, Put PROVE PrintfInv'  OBVIOUS
<1>1. /\ pc = "put"
      /\ format' = format /\ stream' = stream /\ pass' = pass /\ cnt' = cnt
      /\ positional' = positional
      /\ nl_type' = nl_type /\ nl_arg' = nl_arg /\ taken' = taken /\ ap' = ap
      /\ unset' = unset
  BY DEF Put, call, args
<1>2. CASE /\ pc' = "returned" /\ result' = -1
           /\ at' = at /\ pending' = pending /\ cur' = cur /\ out' = out /\ err' = err
  BY <1>1, <1>2, ArgumentConverted
<1>3. ASSUME NEW p, p = Larger(cur.p, cur.len), NEW w, w = Larger(cur.w, cur.pl + p),
             Write(<<Pad(w, cur.pl + p, cur.fl), cur.pl, Pad(w, cur.pl + p, Flip(cur.fl, "zero")),
                     Pad(p, cur.len, {}), cur.len,
                     Pad(w, cur.pl + p, Flip(cur.fl, "left"))>>),
             pending' = w,
             at' = at + 1, pc' = "next", cur' = Blank, result' = result
      PROVE  PrintfInv'
  <2> DEFINE a == Pad(w, cur.pl + p, cur.fl)
             b == Pad(w, cur.pl + p, Flip(cur.fl, "zero"))
             c == Pad(p, cur.len, {})
             d == Pad(w, cur.pl + p, Flip(cur.fl, "left"))
             pl == cur.pl
             len == cur.len
             s == <<a, pl, b, c, len, d>>
  <2>0. cur \in Current /\ ("left" \notin cur.fl \/ "zero" \notin cur.fl)
    BY <1>1 DEF PrintfInv, TypeOK, FlagInv
  <2>1. cur.w \in Int /\ cur.p \in Int /\ pl \in Nat /\ len \in Nat  BY <2>0, CurrentTypes
  <2>2. p \in Nat /\ len <= p  BY <1>3, <2>1 DEF Larger
  <2>3. w \in Nat /\ pl + p <= w /\ pl + p \in Nat  BY <1>3, <2>1, <2>2 DEF Larger
  <2>4. a \in Nat /\ b \in Nat /\ c \in Nat /\ d \in Nat
    <3>1. w \in Int /\ pl + p \in Int /\ p \in Int /\ len \in Int  BY <2>1, <2>2, <2>3
    <3> QED  BY <3>1, PadType
  <2>5. a + b + d = w - (pl + p)
    <3> DEFINE n == pl + p
    <3>1. n \in Nat /\ n <= w  BY <2>3
    <3>2. a = Pad(w, n, cur.fl) /\ b = Pad(w, n, Flip(cur.fl, "zero"))
          /\ d = Pad(w, n, Flip(cur.fl, "left"))
      OBVIOUS
    <3> HIDE DEF a, b, d, n, pl
    <3>3. a + b + d = w - n  BY <2>0, <2>3, <3>1, <3>2, PadsFill
    <3> QED  BY <3>3 DEF n
  <2>6. c = p - len
    <3>1. CASE len >= p  BY <2>1, <2>2, <3>1 DEF Pad
    <3>2. CASE ~(len >= p)  BY <2>1, <2>2, <3>2 DEF Pad
    <3> QED  BY <3>1, <3>2
  <2>7. Write(s)  BY <1>3
  <2> HIDE DEF a, b, c, d, pl, len
  <2>8. s \in Seq(Nat) /\ Total(s) = a + pl + b + c + len + d
    <3>1. /\ s \in Seq(Nat) /\ Len(s) = 6 /\ s[1] = a /\ s[2] = pl /\ s[3] = b
          /\ s[4] = c /\ s[5] = len /\ s[6] = d
      BY <2>1, <2>4
    <3> HIDE DEF s
    <3> QED  BY <3>1, TotalSix
  <2>9. Total(s) = w  BY <2>1, <2>2, <2>3, <2>4, <2>5, <2>6, <2>8
  <2>10. out \in Nat /\ err \in BOOLEAN  BY DEF PrintfInv, TypeOK
  <2> HIDE DEF s
  <2>11. out' \in Nat /\ err' \in BOOLEAN /\ (~err' => ~err /\ out' = out + Total(s))
    BY <2>7, <2>8, <2>10, WriteFacts
  <2>12. /\ pending' \in Nat /\ (~err' => ~err) /\ (~err' => out' = out + pending')
    BY <1>3, <2>3, <2>9, <2>11
  <2> QED  BY <1>1, <1>3, <2>11, <2>12, ArgumentConverted
<1>4. \/ /\ pc' = "returned" /\ result' = -1
         /\ at' = at /\ pending' = pending /\ cur' = cur /\ out' = out /\ err' = err
      \/ \E p, w :
         /\ p = Larger(cur.p, cur.len) /\ w = Larger(cur.w, cur.pl + p)
         /\ Write(<<Pad(w, cur.pl + p, cur.fl), cur.pl, Pad(w, cur.pl + p, Flip(cur.fl, "zero")),
                    Pad(p, cur.len, {}), cur.len,
                    Pad(w, cur.pl + p, Flip(cur.fl, "left"))>>)
         /\ pending' = w
         /\ at' = at + 1 /\ pc' = "next" /\ cur' = Blank /\ result' = result
  BY DEF Put, Return
<1> QED  BY <1>2, <1>3, <1>4

(***************************************************************************)
(* The ends of the passes, and of the call.                                *)
(***************************************************************************)
LEMMA EndStep == PrintfInv /\ End => PrintfInv'
<1> SUFFICES ASSUME PrintfInv, End PROVE PrintfInv'  OBVIOUS
<1> USE DEF PrintfInv
<1>1. /\ pc = "next" /\ Room
      /\ format' = format /\ stream' = stream /\ pass' = pass /\ cnt' = Counted /\ pending' = 0
      /\ positional' = positional /\ cur' = cur
      /\ nl_type' = nl_type /\ nl_arg' = nl_arg /\ taken' = taken /\ ap' = ap
      /\ out' = out /\ err' = err /\ unset' = unset
      /\ \/ pass = 2 /\ pc' = "returned" /\ result' = cnt' /\ at' = at
         \/ pass # 2 /\ pc' = "returned" /\ result' = 0 /\ at' = at
         \/ pass # 2 /\ pc' = "fetch" /\ result' = result /\ at' = 1
  BY DEF End, Return, call, args
<1>2. cnt' \in 0 .. IntMax /\ cnt' = cnt + pending /\ cnt' \in Nat
  BY <1>1, CountFits DEF Counted
<1>3. 1 \in 1 .. Larger(Len(format), NL_ARGMAX) + 1  BY Here, ConstantFacts DEF Larger
<1>4. result' \in -1 .. IntMax \cup {Unset}  BY <1>1, <1>2, ConstantFacts DEF TypeOK
<1>5. TypeOK'  BY <1>1, <1>2, <1>3, <1>4, SameFormat DEF TypeOK
<1>6. PhaseInv'
  <2>1. pass = 1 => out = 0  BY DEF PhaseInv
  <2>2. pass \in {1, 2}  BY DEF TypeOK
  <2>3. pc' = "returned" => result' \in -1 .. IntMax  BY <1>1, <1>2, ConstantFacts
  <2>4. 1 \in 1 .. NL_ARGMAX + 1  BY ConstantFacts
  <2> QED  BY <1>1, <2>1, <2>2, <2>3, <2>4 DEF PhaseInv, Formatting
<1>7. FlagInv'  BY <1>1 DEF FlagInv
<1>8. CountInv'
  BY <1>1, <1>2, SameFormat DEF CountInv, Formatting
<1> QED  BY <1>5, <1>6, <1>7, <1>8

(* A positional argument is fetched, or the fetching is over.              *)
LEMMA FetchCases ==
  ASSUME TypeOK, PhaseInv, Fetch
  PROVE  /\ pc = "fetch" /\ pass = 1 /\ at \in 1 .. NL_ARGMAX + 1 /\ at \in Nat
         /\ format' = format /\ stream' = stream /\ pass' = pass /\ cnt' = cnt
         /\ pending' = pending /\ positional' = positional /\ cur' = cur
         /\ out' = out /\ err' = err /\ unset' = unset /\ nl_type' = nl_type
         /\ \/ /\ at \in 1 .. NL_ARGMAX /\ nl_type[at] \in ArgType
               /\ Take(nl_type[at])
               /\ \E v \in Values : nl_arg' = [nl_arg EXCEPT ![at] = v]
               /\ at' = at + 1 /\ pc' = pc /\ result' = result
            \/ /\ pc' = "returned" /\ at' = at
               /\ result' = (IF \E k \in at .. NL_ARGMAX : nl_type[k] # Unset THEN -1 ELSE 1)
               /\ nl_arg' = nl_arg /\ taken' = taken /\ ap' = ap
               /\ at > NL_ARGMAX \/ nl_type[at] = Unset
<1>1. /\ pc = "fetch"
      /\ format' = format /\ stream' = stream /\ pass' = pass /\ cnt' = cnt
      /\ pending' = pending /\ positional' = positional /\ cur' = cur
      /\ out' = out /\ err' = err /\ unset' = unset
  BY DEF Fetch, call
<1>2. pass = 1 /\ at \in 1 .. NL_ARGMAX + 1  BY <1>1 DEF PhaseInv
<1>3. at \in Nat /\ (at <= NL_ARGMAX => at \in 1 .. NL_ARGMAX)  BY <1>2, ConstantFacts
<1>4. nl_type \in [1 .. NL_ARGMAX -> ArgType \cup {Unset}]  BY DEF TypeOK
<1>5. CASE at <= NL_ARGMAX /\ nl_type[at] # Unset
  <2>1. /\ Take(nl_type[at])
        /\ \E v \in Values : nl_arg' = [nl_arg EXCEPT ![at] = v]
        /\ at' = at + 1 /\ pc' = pc /\ result' = result /\ nl_type' = nl_type
    BY <1>5 DEF Fetch
  <2>2. nl_type[at] \in ArgType  BY <1>3, <1>4, <1>5
  <2> QED  BY <1>1, <1>2, <1>3, <1>5, <2>1, <2>2
<1>6. CASE ~(at <= NL_ARGMAX /\ nl_type[at] # Unset)
  <2>1. /\ pc' = "returned" /\ at' = at
        /\ result' = (IF \E k \in at .. NL_ARGMAX : nl_type[k] # Unset THEN -1 ELSE 1)
        /\ nl_type' = nl_type /\ nl_arg' = nl_arg /\ taken' = taken /\ ap' = ap
    BY <1>6 DEF Fetch, Return, args
  <2>2. at > NL_ARGMAX \/ nl_type[at] = Unset  BY <1>3, <1>6, ConstantFacts
  <2> QED  BY <1>1, <1>2, <1>3, <2>1, <2>2
<1> QED  BY <1>5, <1>6

LEMMA FetchStep == PrintfInv /\ Fetch => PrintfInv'
<1> SUFFICES ASSUME PrintfInv, Fetch PROVE PrintfInv'  OBVIOUS
<1> USE DEF PrintfInv
<1>1. /\ pc = "fetch" /\ pass = 1 /\ at \in Nat
      /\ format' = format /\ stream' = stream /\ pass' = pass /\ cnt' = cnt
      /\ pending' = pending /\ positional' = positional /\ cur' = cur
      /\ out' = out /\ err' = err /\ unset' = unset /\ nl_type' = nl_type
  BY FetchCases
<1>2. CASE /\ at \in 1 .. NL_ARGMAX /\ nl_type[at] \in ArgType
           /\ Take(nl_type[at])
           /\ \E v \in Values : nl_arg' = [nl_arg EXCEPT ![at] = v]
           /\ at' = at + 1 /\ pc' = pc /\ result' = result
  <2>1. taken \in Seq([at : Nat, type : ArgType]) /\ ap \in Nat
        /\ nl_arg \in [1 .. NL_ARGMAX -> Values \cup {Unset}]
    BY DEF TypeOK
  <2>2. taken' \in Seq([at : Nat, type : ArgType]) /\ ap' \in Nat  BY <1>2, <2>1, TakeTypes
  <2>3. nl_arg' \in [1 .. NL_ARGMAX -> Values \cup {Unset}]  BY <1>2, <2>1
  <2>4. at' \in 1 .. NL_ARGMAX + 1  BY <1>2, ConstantFacts
  <2>5. at' \in 1 .. Larger(Len(format), NL_ARGMAX) + 1
    BY <2>4, Here, ConstantFacts DEF Larger
  <2>6. TypeOK'  BY <1>1, <1>2, <2>2, <2>3, <2>5, SameFormat DEF TypeOK
  <2>7. PhaseInv' /\ FlagInv' /\ CountInv'
    BY <1>1, <1>2, <2>4, SameFormat DEF PhaseInv, FlagInv, CountInv, Formatting
  <2> QED  BY <2>6, <2>7
<1>3. CASE /\ pc' = "returned" /\ at' = at
           /\ result' = (IF \E k \in at .. NL_ARGMAX : nl_type[k] # Unset THEN -1 ELSE 1)
           /\ nl_arg' = nl_arg /\ taken' = taken /\ ap' = ap
  <2>1. result' \in -1 .. IntMax  BY <1>3, ConstantFacts
  <2>2. TypeOK'  BY <1>1, <1>3, <2>1, SameFormat DEF TypeOK
  <2>3. PhaseInv' /\ FlagInv' /\ CountInv'
    BY <1>1, <1>3, <2>1, SameFormat DEF PhaseInv, FlagInv, CountInv, Formatting
  <2> QED  BY <2>2, <2>3
<1> QED  BY <1>2, <1>3, FetchCases

LEMMA SecondStep == PrintfInv /\ Second => PrintfInv'
<1> SUFFICES ASSUME PrintfInv, Second PROVE PrintfInv'  OBVIOUS
<1> USE DEF PrintfInv
<1>1. /\ pc = "returned" /\ pass = 1 /\ pass' = 2 /\ at' = 1 /\ cnt' = 0 /\ pending' = 0
      /\ positional' = FALSE /\ cur' = Blank
      /\ format' = format /\ stream' = stream
      /\ nl_type' = nl_type /\ nl_arg' = nl_arg /\ taken' = taken /\ ap' = ap
      /\ out' = out /\ unset' = unset
      /\ \/ pc' = "next" /\ err' = FALSE /\ result' = Unset
         \/ pc' = "returned" /\ err' = TRUE /\ result' = -1
  BY DEF Second, args
<1>2. 1 \in 1 .. Larger(Len(format), NL_ARGMAX) + 1 /\ 1 \in 1 .. Len(format) + 1
  BY Here, ConstantFacts DEF Larger
<1>3. TypeOK'
  <2>1. cnt' \in 0 .. IntMax /\ pending' \in Nat /\ result' \in -1 .. IntMax \cup {Unset}
    BY <1>1, ConstantFacts
  <2> QED  BY <1>1, <1>2, <2>1, BlankType, SameFormat DEF TypeOK
<1>4. PhaseInv' /\ FlagInv'
  BY <1>1, <1>2, ConstantFacts DEF PhaseInv, FlagInv, Formatting
<1>5. CountInv'
  <2>1. out = 0  BY <1>1 DEF PhaseInv
  <2> QED  BY <1>1, <2>1 DEF CountInv, Formatting
<1> QED  BY <1>3, <1>4, <1>5

LEMMA FinishStep == PrintfInv /\ Finish => PrintfInv'
<1> SUFFICES ASSUME PrintfInv, Finish PROVE PrintfInv'  OBVIOUS
<1> USE DEF PrintfInv
<1>1. /\ pc = "returned" /\ (pass = 2 \/ result < 0) /\ pc' = "done"
      /\ format' = format /\ stream' = stream /\ pass' = pass /\ at' = at /\ cnt' = cnt
      /\ pending' = pending /\ positional' = positional /\ cur' = cur
      /\ nl_type' = nl_type /\ nl_arg' = nl_arg /\ taken' = taken /\ ap' = ap
      /\ out' = out /\ unset' = unset
  BY DEF Finish, call, args
<1>2. result \in -1 .. IntMax  BY <1>1 DEF PhaseInv
<1>3. \/ pass = 1 /\ err' = err /\ result' = result
      \/ \E failed \in BOOLEAN :
           /\ pass # 1
           /\ err' = (err \/ failed \/ stream.err)
           /\ result' = IF err \/ failed THEN -1 ELSE result
  BY DEF Finish
<1>4. err' \in BOOLEAN /\ result' \in -1 .. IntMax
  <2>1. err \in BOOLEAN  BY DEF TypeOK
  <2>2. CASE pass = 1 /\ err' = err /\ result' = result  BY <1>2, <2>1, <2>2
  <2>3. ASSUME NEW failed \in BOOLEAN, err' = (err \/ failed \/ stream.err),
               result' = IF err \/ failed THEN -1 ELSE result
        PROVE  err' \in BOOLEAN /\ result' \in -1 .. IntMax
    <3>1. -1 \in -1 .. IntMax  BY ConstantFacts
    <3> QED  BY <1>2, <2>3, <3>1
  <2> QED  BY <1>3, <2>2, <2>3
<1>5. TypeOK'  BY <1>1, <1>4, SameFormat DEF TypeOK
<1>6. PhaseInv' /\ FlagInv'
  <2>1. result' >= 0 => pass = 2
    <3>1. pass = 2 \/ result < 0  BY <1>1
    <3>2. pass \in {1, 2}  BY DEF TypeOK
    <3>3. CASE pass = 1
      <4>1. result' = result /\ result < 0  BY <1>3, <3>1, <3>3
      <4> QED  BY <1>2, <4>1
    <3> QED  BY <3>2, <3>3
  <2> QED  BY <1>1, <1>4, <2>1 DEF PhaseInv, FlagInv, Formatting
<1>7. CountInv'
  <2>1. ASSUME Regular, pass = 2, result' >= 0 PROVE out' = result' /\ (err' => stream'.err)
    <3>1. PICK failed \in BOOLEAN :
            /\ err' = (err \/ failed \/ stream.err)
            /\ result' = IF err \/ failed THEN -1 ELSE result
      BY <1>3, <2>1
    <3>2. ~err /\ ~failed  BY <2>1, <3>1
    <3>3. result' = result /\ (err' => stream.err)  BY <3>1, <3>2
    <3>4. out = result  BY <1>1, <2>1, <3>2, <3>3 DEF CountInv
    <3> QED  BY <1>1, <3>3, <3>4
  <2> QED  BY <1>1, <2>1, SameFormat DEF CountInv, Formatting
<1> QED  BY <1>5, <1>6, <1>7

LEMMA Stutter == PrintfInv /\ UNCHANGED vars => PrintfInv'
<1> SUFFICES ASSUME PrintfInv, UNCHANGED vars PROVE PrintfInv'  OBVIOUS
<1>1. /\ format' = format /\ stream' = stream /\ pass' = pass /\ pc' = pc /\ at' = at
      /\ cnt' = cnt /\ pending' = pending /\ positional' = positional /\ cur' = cur
      /\ nl_type' = nl_type /\ nl_arg' = nl_arg /\ taken' = taken /\ ap' = ap
      /\ out' = out /\ err' = err /\ unset' = unset /\ result' = result
  BY DEF vars
<1>2. TypeOK' /\ PhaseInv' /\ FlagInv' /\ CountInv'
  BY <1>1, SameFormat DEF PrintfInv, TypeOK, PhaseInv, FlagInv, CountInv
<1> QED  BY <1>2 DEF PrintfInv

(* The invariant of both passes: where the program is, which flags are     *)
(* left, and that everything written has been counted or is about to be.   *)
THEOREM PrintfInvariant == Spec => []PrintfInv
<1>1. PrintfInv /\ [Next]_vars => PrintfInv'
  BY TooLongStep, LiteralStep, DirectiveStep, WidthStep, PrecisionStep, ArgumentStep,
     ConvertIntegerStep, ConvertCharacterStep, ConvertStringStep, ConvertWideStep,
     ConvertFloatStep, ConvertCountStep, PutStep, EndStep, FetchStep, SecondStep,
     FinishStep, Stutter DEF Next
<1> QED  BY Starts, <1>1, PTL DEF Spec

(* What printf counts, returns and writes is the same, for every format,   *)
(* every argument and every int, as long as the stream takes it.           *)
THEOREM CountedIsWritten == Spec => []CountsRight
<1>1. PrintfInv => CountsRight
  <2> SUFFICES ASSUME PrintfInv PROVE CountsRight  OBVIOUS
  <2>1. TypeOK  BY DEF PrintfInv
  <2>2. WrittenIsCounted
    BY DEF PrintfInv, CountInv, WrittenIsCounted, Formatting
  <2>3. ResultIsWritten
    <3>1. pc = "done" /\ result >= 0 => pass = 2  BY DEF PrintfInv, PhaseInv
    <3> QED  BY <3>1 DEF PrintfInv, CountInv, ResultIsWritten
  <2>4. FirstPassIsSilent  BY DEF PrintfInv, PhaseInv, FirstPassIsSilent
  <2> QED  BY <2>1, <2>2, <2>3, <2>4 DEF CountsRight
<1> QED  BY PrintfInvariant, <1>1, PTL

(* The types of what the items of a format take.                           *)
Marks == ArgType \cup {Unset}

LEMMA StarsType == ASSUME NEW c PROVE Stars(c) \in Seq(Marks)
<1>1. <<>> \in Seq(Marks)  OBVIOUS
<1>2. <<"int">> \in Seq(Marks)
  <2>1. "int" \in Marks  BY DEF Marks, ArgType
  <2> QED  BY <2>1
<1> QED  BY <1>1, <1>2 DEF Stars

LEMMA MarkType ==
  ASSUME NEW prefix, NEW conv
  PROVE  <<Type(prefix, conv)>> \in Seq(Marks)
<1> DEFINE t == Type(prefix, conv)
<1>1. t \in Marks  BY ArgumentTypes DEF Marks
<1> HIDE DEF t
<1>2. <<t>> \in Seq(Marks)  BY <1>1
<1> QED  BY <1>2 DEF t

LEMMA ConcatType ==
  ASSUME NEW x \in Seq(Marks), NEW y \in Seq(Marks)
  PROVE  x \o y \in Seq(Marks)
OBVIOUS

LEMMA TypesFacts ==
  ASSUME NEW f, Len(f) \in Nat
  PROVE  /\ TypesOf(f)[0] = <<>>
         /\ \A i \in 1 .. Len(f) :
              TypesOf(f)[i] =
                IF IsText(f[i]) THEN TypesOf(f)[i - 1]
                ELSE TypesOf(f)[i - 1] \o Stars(f[i].width) \o Stars(f[i].prec)
                                       \o <<Type(f[i].prefix, f[i].conv)>>
         /\ \A i \in 0 .. Len(f) : TypesOf(f)[i] \in Seq(Marks)
<1> DEFINE n == Len(f)
           S == Seq(Marks)
           After(i, x) == IF IsText(f[i]) THEN x
                          ELSE x \o Stars(f[i].width) \o Stars(f[i].prec)
                                 \o <<Type(f[i].prefix, f[i].conv)>>
           G(h) == [i \in 0 .. n |-> IF i = 0 THEN <<>> ELSE After(i, h[i - 1])]
           before == [i \in 1 .. n |-> i - 1]
           step == [i \in 1 .. n |-> [x \in S |-> After(i, x)]]
<1>1. n \in Nat  OBVIOUS
<1>2. <<>> \in S  OBVIOUS
<1>3. ASSUME NEW i, NEW x \in S PROVE After(i, x) \in S
  <2> DEFINE a == Stars(f[i].width)
             b == Stars(f[i].prec)
             c == <<Type(f[i].prefix, f[i].conv)>>
  <2>1. a \in S /\ b \in S /\ c \in S  BY StarsType, MarkType
  <2>2. After(i, x) = IF IsText(f[i]) THEN x ELSE ((x \o a) \o b) \o c  OBVIOUS
  <2> HIDE DEF a, b, c, After
  <2>3. x \o a \in S  BY <2>1, ConcatType
  <2>4. (x \o a) \o b \in S  BY <2>1, <2>3, ConcatType
  <2>5. ((x \o a) \o b) \o c \in S  BY <2>1, <2>4, ConcatType
  <2> QED  BY <2>2, <2>5
<1>4. before \in [1 .. n -> Nat] /\ \A i \in 1 .. n : before[i] < i  BY <1>1
<1> HIDE DEF S
<1>5. step \in [1 .. n -> [S -> S]]
  <2> HIDE DEF After
  <2> QED  BY <1>3
<1>6. PICK h : Defined(n, S, <<>>, before, step, h)
  <2>1. Recursive(n, S, <<>>, before, step)
    <3> HIDE DEF before, step, n
    <3> QED  BY <1>1, <1>2, <1>4, <1>5 DEF Recursive
  <2> HIDE DEF n, before, step
  <2> QED  BY <2>1, Recursion
<1>7. h \in [0 .. n -> S] /\ h[0] = <<>> /\ \A i \in 1 .. n : h[i] = step[i][h[before[i]]]
  <2> HIDE DEF n, before, step
  <2> QED  BY <1>6 DEF Defined
<1>8. h = G(h)
  <2>1. ASSUME NEW i \in 1 .. n PROVE h[i] = After(i, h[i - 1])
    <3> HIDE DEF After
    <3>1. i - 1 \in 0 .. n /\ before[i] = i - 1 /\ step[i] = [x \in S |-> After(i, x)]
      BY <1>1
    <3>2. h[i - 1] \in S
      <4> HIDE DEF n, before, step
      <4> QED  BY <1>7, <3>1
    <3> HIDE DEF before, step
    <3> QED  BY <1>7, <3>1, <3>2
  <2>2. \A i \in 0 .. n : h[i] = IF i = 0 THEN <<>> ELSE After(i, h[i - 1])
    <3>1. \A i \in 0 .. n : i = 0 \/ i \in 1 .. n  BY <1>1
    <3>2. \A i \in 1 .. n : i # 0  BY <1>1
    <3> HIDE DEF n, before, step, After
    <3> QED  BY <1>7, <2>1, <3>1, <3>2
  <2>3. h = [i \in 0 .. n |-> h[i]]
    <3> HIDE DEF n, before, step, After
    <3> QED  BY <1>7
  <2> HIDE DEF n, before, step, After
  <2> QED  BY <2>2, <2>3
<1> DEFINE g == TypesOf(f)
<1>9. g = G(g)
  <2> DEFINE F == CHOOSE k : k = G(k)
  <2>1. F = G(F)
    <3> HIDE DEF G
    <3> QED  BY <1>8
  <2>2. g = F  BY DEF TypesOf
  <2> HIDE DEF g, F, G
  <2> QED  BY <2>1, <2>2
<1>10. g[0] = <<>> /\ \A i \in 1 .. n : g[i] = After(i, g[i - 1])
  <2> HIDE DEF g, After
  <2>1. \A i \in 0 .. n : g[i] = IF i = 0 THEN <<>> ELSE After(i, g[i - 1])
    <3> HIDE DEF n
    <3> QED  BY <1>9
  <2>2. 0 \in 0 .. n /\ \A i \in 1 .. n : i \in 0 .. n /\ i # 0  BY <1>1
  <2> HIDE DEF n, G
  <2> QED  BY <2>1, <2>2
<1>11. \A i \in 0 .. n : g[i] \in S
  <2>1. g[0] \in S  BY <1>2, <1>10
  <2>2. ASSUME NEW i \in 1 .. n, g[before[i]] \in S PROVE g[i] \in S
    <3>1. before[i] = i - 1  OBVIOUS
    <3> HIDE DEF g, After, before, n, G
    <3> QED  BY <1>3, <1>10, <2>2, <3>1
  <2> HIDE DEF n, before, step, G, g
  <2> QED  BY <1>1, <1>4, <2>1, <2>2, RecursionType
<1> HIDE DEF G
<1> QED  BY <1>10, <1>11 DEF S

(***************************************************************************)
(* Arguments.                                                              *)
(***************************************************************************)
(* Without positions: what has been taken is what the items before this    *)
(* one ask for, and what this one has asked for so far.                    *)
SoFar ==
  LET before == TypesOf(format)[at - 1]
  IN  /\ pc \in {"next", "width"} => TakenTypes = before
      /\ pc = "prec" => TakenTypes = before \o Stars(format[at].width)
      /\ pc = "arg" =>
           TakenTypes = before \o Stars(format[at].width) \o Stars(format[at].prec)
      /\ pc \in {"convert", "put"} => TakenTypes = TypesOf(format)[at]

SequenceInv ==
  AllUses = {0} =>
    /\ ~positional /\ pc # "fetch"
    /\ pass = 1 => taken = <<>>
    /\ pass = 2 => SoFar

(* With positions only: the first pass finds the types of those that are   *)
(* used, then fetches them from the first on; the second finds them.       *)
Known(uses) == \A k \in uses : nl_type[k] # Unset
Fetches == \A k \in AllUses : nl_arg[k] # Unset
CountOfFetched == Len(taken) = Cardinality({k \in 1 .. NL_ARGMAX : nl_arg[k] # Unset})
Position(count) == IF count.how = "position" THEN {count.n} ELSE {}

SearchInv ==
  /\ taken = <<>> /\ \A k \in 1 .. NL_ARGMAX : nl_arg[k] = Unset
  /\ \A i \in 1 .. at - 1 : Known(Uses(format[i])) /\ (~positional => Uses(format[i]) = {})
  /\ pc \in Formatting => positional
  /\ pc \in {"prec", "arg"} => Known(Position(format[at].width))
  /\ pc = "arg" => Known(Position(format[at].prec))

FetchInv ==
  /\ Known(AllUses)
  /\ Len(taken) = at - 1
  /\ \A k \in 1 .. NL_ARGMAX : nl_arg[k] # Unset <=> k < at

PositionInv ==
  0 \notin AllUses =>
    /\ ~unset
    /\ pass = 1 /\ pc \in Formatting \cup {"next"} => SearchInv
    /\ pass = 1 /\ pc = "fetch" => FetchInv
    /\ pass = 1 /\ pc = "returned" /\ result >= 0 => Fetches /\ CountOfFetched
    /\ pass = 2 => Fetches /\ CountOfFetched

ArgumentsInv == SequenceInv /\ PositionInv

LEMMA NothingAdded == ASSUME NEW s \in Seq(Marks) PROVE s \o <<>> = s
OBVIOUS

LEMMA ElementType ==
  ASSUME NEW S, NEW s \in Seq(S)
  PROVE  \A i \in 1 .. Len(s) : s[i] \in S
OBVIOUS

LEMMA AddedLast ==
  ASSUME NEW S, NEW a \in Seq(S), NEW t \in S
  PROVE  /\ a \o <<t>> \in Seq(S) /\ Len(a \o <<t>>) = Len(a) + 1
         /\ \A i \in 1 .. Len(a) + 1 : (a \o <<t>>)[i] = IF i <= Len(a) THEN a[i] ELSE t
<1> DEFINE u == <<t>>
<1>1. u \in Seq(S) /\ Len(u) = 1 /\ u[1] = t  OBVIOUS
<1> HIDE DEF u
<1>2. /\ a \o u \in Seq(S) /\ Len(a \o u) = Len(a) + 1
      /\ \A i \in 1 .. Len(a) + 1 : (a \o u)[i] = IF i <= Len(a) THEN a[i] ELSE u[i - Len(a)]
  BY <1>1, ConcatProperties
<1>3. ASSUME NEW i \in 1 .. Len(a) + 1, ~(i <= Len(a)) PROVE u[i - Len(a)] = t
  <2>1. i - Len(a) = 1  BY <1>3
  <2> QED  BY <1>1, <2>1
<1> QED  BY <1>2, <1>3 DEF u

LEMMA TakenGrows ==
  ASSUME TypeOK, NEW t \in ArgType, Take(t)
  PROVE  TakenTypes' = TakenTypes \o <<t>>
<1>1. taken \in Seq([at : Nat, type : ArgType]) /\ ap \in Nat  BY DEF TypeOK
<1>2. /\ taken' \in Seq([at : Nat, type : ArgType])
      /\ Len(taken') = Len(taken) + 1
      /\ \A i \in 1 .. Len(taken) : taken'[i] = taken[i]
      /\ taken'[Len(taken) + 1].type = t
  BY <1>1, TakeTypes
<1> DEFINE n == Len(taken)
           a == [i \in 1 .. n |-> taken[i].type]
           b == [i \in 1 .. n + 1 |-> taken'[i].type]
<1>3. n \in Nat /\ TakenTypes = a /\ TakenTypes' = b
  BY <1>1, <1>2 DEF TakenTypes
<1>4. b = a \o <<t>>
  <2>1. a \in Seq(ArgType)
    <3>1. \A i \in 1 .. n : taken[i] \in [at : Nat, type : ArgType]  BY <1>1, ElementType
    <3>2. \A i \in 1 .. n : taken[i].type \in ArgType  BY <3>1
    <3>3. a \in [1 .. n -> ArgType]  BY <3>2
    <3> HIDE DEF a
    <3> QED  BY <1>3, <3>3
  <2>2. Len(a) = n /\ \A i \in 1 .. n : a[i] = taken[i].type  BY <1>3
  <2> DEFINE c == a \o <<t>>
  <2>3. c = [i \in 1 .. n + 1 |-> IF i <= n THEN a[i] ELSE t]
    <3> HIDE DEF a
    <3>1. /\ c \in Seq(ArgType) /\ Len(c) = Len(a) + 1
          /\ \A i \in 1 .. Len(a) + 1 : c[i] = IF i <= Len(a) THEN a[i] ELSE t
      BY <2>1, AddedLast
    <3> HIDE DEF c, n
    <3> QED  BY <2>2, <3>1
  <2>4. \A i \in 1 .. n + 1 : b[i] = IF i <= n THEN a[i] ELSE t
    <3>1. \A i \in 1 .. n + 1 : i <= n => i \in 1 .. n  BY <1>3
    <3>2. \A i \in 1 .. n + 1 : ~(i <= n) => i = n + 1  BY <1>3
    <3> HIDE DEF a
    <3> QED  BY <1>2, <2>2, <3>1, <3>2
  <2> HIDE DEF a, c
  <2>5. b = [i \in 1 .. n + 1 |-> b[i]]  OBVIOUS
  <2> HIDE DEF b
  <2> QED  BY <2>3, <2>4, <2>5 DEF c
<1> QED  BY <1>3, <1>4

(* What the uses of a directive tell about it.                             *)
LEMMA UsesOfText == ASSUME NEW item, IsText(item) PROVE Uses(item) = {}
BY DEF Uses

LEMMA UsesOfDirective ==
  ASSUME NEW item \in Item, ~IsText(item)
  PROVE  /\ Uses(item) \subseteq {0} =>
              item.pos = 0 /\ item.width.how # "position" /\ item.prec.how # "position"
         /\ 0 \notin Uses(item) =>
              /\ item.pos # 0 /\ item.width.how # "next" /\ item.prec.how # "next"
              /\ Uses(item) = {item.pos} \cup Position(item.width) \cup Position(item.prec)
<1>1. /\ item.width \in Count /\ item.prec \in Count \cup {NoCount}  BY ItemTypes
<1>2. Uses(item) = {item.pos} \cup {IF count.how = "position" THEN count.n ELSE 0 :
                      count \in {c \in {item.width, item.prec} : c.how \in {"next", "position"}}}
  BY DEF Uses
<1>3. \A c \in {item.width, item.prec} :
        /\ c.how = "position" => c.n \in Uses(item) /\ c.n # 0
        /\ c.how = "next" => 0 \in Uses(item)
  <2>1. \A c \in {item.width, item.prec} : c.how = "position" => c.n # 0
    BY <1>1, CountTypes, ConstantFacts DEF NoCount
  <2> QED  BY <1>2, <2>1
<1>4. Uses(item) \subseteq {0} =>
        item.pos = 0 /\ item.width.how # "position" /\ item.prec.how # "position"
  BY <1>2, <1>3
<1>5. ASSUME 0 \notin Uses(item)
      PROVE  /\ item.pos # 0 /\ item.width.how # "next" /\ item.prec.how # "next"
             /\ Uses(item) = {item.pos} \cup Position(item.width) \cup Position(item.prec)
  <2>1. item.pos # 0 /\ item.width.how # "next" /\ item.prec.how # "next"  BY <1>2, <1>3, <1>5
  <2>2. \A c \in {item.width, item.prec} :
          Position(c) = IF c.how \in {"next", "position"} THEN {c.n} ELSE {}
    BY <2>1 DEF Position
  <2>3. Uses(item) \subseteq {item.pos} \cup Position(item.width) \cup Position(item.prec)
    BY <1>2, <2>1 DEF Position
  <2>4. {item.pos} \cup Position(item.width) \cup Position(item.prec) \subseteq Uses(item)
    BY <1>2, <1>3 DEF Position
  <2> QED  BY <2>1, <2>3, <2>4
<1> QED  BY <1>4, <1>5

LEMMA UsesOfFormat ==
  ASSUME NEW i \in DOMAIN format
  PROVE  Uses(format[i]) \subseteq AllUses
BY DEF AllUses

LEMMA SameUses ==
  ASSUME format' = format
  PROVE  AllUses' = AllUses /\ TypesOf(format') = TypesOf(format)
<1>1. \A i \in DOMAIN format : Uses(format[i])' = Uses(format[i])  BY DEF Uses, IsText
<1> QED  BY <1>1 DEF AllUses, Uses, IsText

LEMMA ArgumentsStart == Init => ArgumentsInv
<1> SUFFICES ASSUME Init PROVE ArgumentsInv  OBVIOUS
<1>1. /\ pass = 1 /\ pc = "next" /\ at = 1 /\ positional = FALSE /\ taken = <<>> /\ unset = FALSE
      /\ \A k \in 1 .. NL_ARGMAX : nl_arg[k] = Unset
  BY DEF Init
<1>2. 1 .. at - 1 = {}  BY <1>1
<1>3. SearchInv  BY <1>1, <1>2 DEF SearchInv, Formatting
<1>4. SequenceInv /\ PositionInv  BY <1>1, <1>3 DEF SequenceInv, PositionInv
<1> QED  BY <1>4 DEF ArgumentsInv

(***************************************************************************)
(* The inductive step for the arguments.                                   *)
(***************************************************************************)
(* A call that fails keeps what it has.                                    *)
LEMMA FailureKeeps ==
  ASSUME TypeOK, ArgumentsInv,
         format' = format, pass' = pass, positional' = positional,
         nl_type' = nl_type, nl_arg' = nl_arg, taken' = taken, unset' = unset,
         pc' \in {"returned", "done"}, pass = 1 => result' \in Int /\ result' < 0
  PROVE  ArgumentsInv'
<1>1. AllUses' = AllUses  BY SameUses
<1>2. pass \in {1, 2}  BY DEF TypeOK
<1>3. SequenceInv'
  BY <1>1 DEF ArgumentsInv, SequenceInv, SoFar
<1>4. PositionInv'
  <2>1. pass = 1 => ~(result' >= 0)  OBVIOUS
  <2>2. Fetches' = Fetches /\ CountOfFetched' = CountOfFetched
    BY <1>1 DEF Fetches, CountOfFetched
  <2>3. pc' \notin Formatting' \cup {"next"} /\ pc' # "fetch"  BY DEF Formatting
  <2> QED  BY <1>1, <2>1, <2>2, <2>3 DEF ArgumentsInv, PositionInv
<1> QED  BY <1>3, <1>4 DEF ArgumentsInv

LEMMA TooLongKeeps == PrintfInv /\ ArgumentsInv /\ TooLong => ArgumentsInv'
<1> SUFFICES ASSUME PrintfInv, ArgumentsInv, TooLong PROVE ArgumentsInv'  OBVIOUS
<1>1. /\ pc' = "returned" /\ result' = -1
      /\ format' = format /\ pass' = pass /\ positional' = positional
      /\ nl_type' = nl_type /\ nl_arg' = nl_arg /\ taken' = taken /\ unset' = unset
  BY DEF TooLong, Return, args
<1>2. TypeOK /\ result' \in Int /\ result' < 0  BY <1>1 DEF PrintfInv
<1> QED  BY <1>1, <1>2, FailureKeeps

(* The conversions leave the arguments alone.                              *)
LEMMA ConvertedKeeps ==
  ASSUME PrintfInv, ArgumentsInv, pc \in {"convert", "put"},
         format' = format, pass' = pass, positional' = positional,
         nl_type' = nl_type, nl_arg' = nl_arg, taken' = taken, unset' = unset,
         \/ pc' = "returned"
         \/ pc' = "put" /\ at' = at
         \/ pc' = "next" /\ at' = at + 1
  PROVE  ArgumentsInv'
<1>1. AllUses' = AllUses /\ TypesOf(format') = TypesOf(format)  BY SameUses
<1>2. pass = 2 /\ at \in Int  BY Here DEF PrintfInv, PhaseInv
<1>3. SequenceInv'
  <2>1. ASSUME AllUses = {0} PROVE SoFar'
    <3>1. TakenTypes = TypesOf(format)[at] /\ TakenTypes' = TakenTypes
      BY <1>2, <2>1 DEF ArgumentsInv, SequenceInv, SoFar, TakenTypes
    <3>2. pc' = "next" => at' - 1 = at  BY <1>2
    <3> QED  BY <1>1, <3>1, <3>2 DEF SoFar
  <2> QED  BY <1>1, <1>2, <2>1 DEF ArgumentsInv, SequenceInv
<1>4. PositionInv'
  <2>1. Fetches' = Fetches /\ CountOfFetched' = CountOfFetched
    BY <1>1 DEF Fetches, CountOfFetched
  <2> QED  BY <1>1, <1>2, <2>1 DEF ArgumentsInv, PositionInv
<1> QED  BY <1>3, <1>4 DEF ArgumentsInv

LEMMA ConversionsKeep ==
  /\ PrintfInv /\ ArgumentsInv
  /\ \/ ConvertInteger \/ ConvertCharacter \/ ConvertString \/ ConvertWide
     \/ ConvertFloat \/ ConvertCount \/ Put
  => ArgumentsInv'
<1> SUFFICES ASSUME PrintfInv, ArgumentsInv,
                    \/ ConvertInteger \/ ConvertCharacter \/ ConvertString \/ ConvertWide
                    \/ ConvertFloat \/ ConvertCount \/ Put
             PROVE  ArgumentsInv'
  OBVIOUS
<1> DEFINE Moves == \/ pc' = "returned"
                    \/ pc' = "put" /\ at' = at
                    \/ pc' = "next" /\ at' = at + 1
           Keeps == /\ format' = format /\ pass' = pass /\ positional' = positional
                    /\ nl_type' = nl_type /\ nl_arg' = nl_arg /\ taken' = taken
                    /\ unset' = unset /\ pc \in {"convert", "put"}
<1>1. ConvertInteger => Moves /\ Keeps  BY DEF ConvertInteger, Return, call, args
<1>2. ConvertCharacter => Moves /\ Keeps  BY DEF ConvertCharacter, call, args
<1>3. ConvertString => Moves /\ Keeps  BY DEF ConvertString, Return, call, args
<1>4. ConvertWide => Moves /\ Keeps  BY DEF ConvertWide, Return, call, args
<1>5. ConvertFloat => Moves /\ Keeps  BY DEF ConvertFloat, Return, call, args
<1>6. ConvertCount => Moves /\ Keeps  BY DEF ConvertCount, call, args
<1>7. Put => Moves /\ Keeps  BY DEF Put, Return, call, args
<1>8. Moves /\ Keeps  BY <1>1, <1>2, <1>3, <1>4, <1>5, <1>6, <1>7
<1> QED  BY <1>8, ConvertedKeeps

LEMMA FinishKeeps == PrintfInv /\ ArgumentsInv /\ Finish => ArgumentsInv'
<1> SUFFICES ASSUME PrintfInv, ArgumentsInv, Finish PROVE ArgumentsInv'  OBVIOUS
<1>1. /\ pc = "returned" /\ (pass = 2 \/ result < 0) /\ pc' = "done"
      /\ format' = format /\ pass' = pass /\ positional' = positional
      /\ nl_type' = nl_type /\ nl_arg' = nl_arg /\ taken' = taken /\ unset' = unset
      /\ pass = 1 => result' = result
  BY DEF Finish, call, args
<1>2. TypeOK /\ result \in -1 .. IntMax  BY <1>1 DEF PrintfInv, PhaseInv
<1>3. result \in Int  BY <1>2
<1>4. pass = 1 => result' \in Int /\ result' < 0  BY <1>1, <1>3
<1> QED  BY <1>1, <1>2, <1>4, FailureKeeps

(* The second pass starts with what the first has fetched.                 *)
LEMMA SecondKeeps == PrintfInv /\ ArgumentsInv /\ Second => ArgumentsInv'
<1> SUFFICES ASSUME PrintfInv, ArgumentsInv, Second PROVE ArgumentsInv'  OBVIOUS
<1>1. /\ pc = "returned" /\ pass = 1 /\ result >= 0 /\ pass' = 2 /\ at' = 1
      /\ positional' = FALSE /\ format' = format
      /\ nl_type' = nl_type /\ nl_arg' = nl_arg /\ taken' = taken /\ unset' = unset
      /\ pc' \in {"next", "returned"}
  BY DEF Second, args
<1>2. AllUses' = AllUses /\ TypesOf(format') = TypesOf(format)  BY SameUses, <1>1
<1>3. SequenceInv'
  <2>1. ASSUME AllUses = {0} PROVE SoFar'
    <3>1. taken = <<>>  BY <1>1, <2>1 DEF ArgumentsInv, SequenceInv
    <3>2. TakenTypes' = <<>>  BY <1>1, <3>1 DEF TakenTypes
    <3>3. TypesOf(format)[0] = <<>>  BY TypesFacts, Here DEF PrintfInv
    <3>4. at' - 1 = 0  BY <1>1
    <3> QED  BY <1>1, <1>2, <3>2, <3>3, <3>4 DEF SoFar
  <2> QED  BY <1>1, <1>2, <2>1 DEF SequenceInv
<1>4. PositionInv'
  <2>1. Fetches' = Fetches /\ CountOfFetched' = CountOfFetched
    BY <1>1, <1>2 DEF Fetches, CountOfFetched
  <2> QED  BY <1>1, <1>2, <2>1 DEF ArgumentsInv, PositionInv
<1> QED  BY <1>3, <1>4 DEF ArgumentsInv

LEMMA LiteralKeeps == PrintfInv /\ ArgumentsInv /\ Literal => ArgumentsInv'
<1> SUFFICES ASSUME PrintfInv, ArgumentsInv, Literal PROVE ArgumentsInv'  OBVIOUS
<1>1. /\ pc = "next" /\ IsText(format[at]) /\ at <= Len(format)
      /\ format' = format /\ pass' = pass /\ positional' = positional
      /\ nl_type' = nl_type /\ nl_arg' = nl_arg /\ taken' = taken /\ unset' = unset
      /\ \/ pc' = "returned" /\ result' = -1
         \/ pc' = "next" /\ at' = at + 1
  BY DEF Literal, Return, call, args
<1>2. TypeOK /\ at \in 1 .. Len(format) + 1 /\ pass \in {1, 2}
  BY <1>1 DEF PrintfInv, PhaseInv, TypeOK
<1>3. Len(format) \in Nat /\ DOMAIN format = 1 .. Len(format)  BY <1>2, Here
<1>4. at \in 1 .. Len(format)  BY <1>1, <1>2, <1>3
<1>5. CASE pc' = "returned" /\ result' = -1
  <2>1. result' \in Int /\ result' < 0  BY <1>5
  <2> QED  BY <1>1, <1>2, <1>5, <2>1, FailureKeeps
<1>6. CASE pc' = "next" /\ at' = at + 1
  <2>1. AllUses' = AllUses /\ TypesOf(format') = TypesOf(format)  BY SameUses, <1>1
  <2>2. SequenceInv'
    <3>1. ASSUME AllUses = {0}, pass = 2 PROVE SoFar'
      <4>1. TakenTypes = TypesOf(format)[at - 1] /\ TakenTypes' = TakenTypes
        BY <1>1, <3>1 DEF ArgumentsInv, SequenceInv, SoFar, TakenTypes
      <4>2. TypesOf(format)[at] = TypesOf(format)[at - 1]
        BY <1>1, <1>3, <1>4, TypesFacts
      <4>3. at' - 1 = at  BY <1>4, <1>6
      <4> QED  BY <1>6, <2>1, <4>1, <4>2, <4>3 DEF SoFar
    <3> QED  BY <1>1, <1>6, <2>1, <3>1 DEF ArgumentsInv, SequenceInv
  <2>3. PositionInv'
    <3>1. Fetches' = Fetches /\ CountOfFetched' = CountOfFetched
      BY <1>1, <2>1 DEF Fetches, CountOfFetched
    <3>2. ASSUME 0 \notin AllUses, pass = 1 PROVE SearchInv'
      <4>1. SearchInv  BY <1>1, <3>2 DEF ArgumentsInv, PositionInv
      <4>2. \A i \in 1 .. at' - 1 : i = at \/ i \in 1 .. at - 1  BY <1>4, <1>6
      <4>3. Uses(format[at]) = {}  BY <1>1, UsesOfText
      <4>4. \A i : Uses(format'[i]) = Uses(format[i])  BY <1>1
      <4>5. \A i \in 1 .. at' - 1 :
              /\ \A k \in Uses(format[i]) : nl_type[k] # Unset
              /\ ~positional => Uses(format[i]) = {}
        BY <4>1, <4>2, <4>3 DEF SearchInv, Known
      <4> QED  BY <1>1, <1>6, <4>1, <4>4, <4>5 DEF SearchInv, Known, Formatting
    <3> QED  BY <1>1, <1>2, <1>6, <2>1, <3>1, <3>2 DEF ArgumentsInv, PositionInv, Formatting
  <2> QED  BY <2>2, <2>3 DEF ArgumentsInv
<1> QED  BY <1>1, <1>5, <1>6

LEMMA DirectiveKeeps == PrintfInv /\ ArgumentsInv /\ Directive => ArgumentsInv'
<1> SUFFICES ASSUME PrintfInv, ArgumentsInv, Directive PROVE ArgumentsInv'  OBVIOUS
<1>1. /\ pc = "next" /\ ~IsText(format[at]) /\ at <= Len(format)
      /\ format' = format /\ pass' = pass /\ at' = at /\ pc' = "width"
      /\ positional' = (positional \/ format[at].pos # 0)
      /\ nl_type' = nl_type /\ nl_arg' = nl_arg /\ taken' = taken /\ unset' = unset
  BY DEF Directive, call, args
<1>2. TypeOK /\ at \in 1 .. Len(format) + 1 /\ pass \in {1, 2}
  BY <1>1 DEF PrintfInv, PhaseInv, TypeOK
<1>3. /\ Len(format) \in Nat /\ DOMAIN format = 1 .. Len(format)
      /\ \A i \in DOMAIN format : format[i] \in Item
  BY <1>2, Here
<1>4. at \in DOMAIN format /\ format[at] \in Item  BY <1>1, <1>2, <1>3
<1>5. AllUses' = AllUses /\ TypesOf(format') = TypesOf(format)  BY SameUses, <1>1
<1>6. Uses(format[at]) \subseteq AllUses  BY <1>4, UsesOfFormat
<1>7. SequenceInv'
  <2>1. ASSUME AllUses = {0} PROVE positional' = positional
    <3>1. format[at].pos = 0  BY <1>1, <1>4, <1>6, <2>1, UsesOfDirective
    <3> QED  BY <1>1, <3>1 DEF PrintfInv, TypeOK
  <2>2. TakenTypes' = TakenTypes  BY <1>1 DEF TakenTypes
  <2> QED  BY <1>1, <1>5, <2>1, <2>2 DEF ArgumentsInv, SequenceInv, SoFar
<1>8. PositionInv'
  <2>1. Fetches' = Fetches /\ CountOfFetched' = CountOfFetched
    BY <1>1, <1>5 DEF Fetches, CountOfFetched
  <2>2. ASSUME 0 \notin AllUses, pass = 1 PROVE SearchInv'
    <3>1. SearchInv  BY <1>1, <2>2 DEF ArgumentsInv, PositionInv
    <3>2. format[at].pos # 0
      <4>1. 0 \notin Uses(format[at])  BY <1>6, <2>2
      <4> QED  BY <1>1, <1>4, <4>1, UsesOfDirective
    <3>3. positional'  BY <1>1, <3>2
    <3>4. \A i \in 1 .. at' - 1 : Known(Uses(format[i]))'
      BY <1>1, <3>1 DEF SearchInv, Known, Uses, IsText
    <3> QED  BY <1>1, <3>1, <3>3, <3>4 DEF SearchInv, Known
  <2> QED  BY <1>1, <1>2, <1>5, <2>1, <2>2 DEF ArgumentsInv, PositionInv, Formatting
<1> QED  BY <1>7, <1>8 DEF ArgumentsInv

(* What a width or precision does to the arguments.                        *)
Asks(c) ==
  /\ pass = 1 =>
       /\ taken' = taken /\ nl_arg' = nl_arg /\ unset' = unset
       /\ \A k \in 1 .. NL_ARGMAX : nl_type[k] # Unset => nl_type'[k] # Unset
       /\ \A k \in Position(c) : nl_type'[k] # Unset
  /\ pass = 2 /\ c.how # "position" => TakenTypes' = TakenTypes \o Stars(c)
  /\ pass = 2 /\ c.how # "next" =>
       /\ taken' = taken /\ nl_arg' = nl_arg
       /\ unset' <=> (unset \/ (c.how = "position" /\ nl_arg[c.n] = Unset))

LEMMA TakenMarks == ASSUME TypeOK PROVE TakenTypes \in Seq(Marks)
<1> DEFINE n == Len(taken)
<1>1. taken \in Seq([at : Nat, type : ArgType])  BY DEF TypeOK
<1>2. n \in Nat /\ TakenTypes = [i \in 1 .. n |-> taken[i].type]  BY <1>1 DEF TakenTypes
<1>3. \A i \in 1 .. n : taken[i] \in [at : Nat, type : ArgType]  BY <1>1, ElementType
<1>4. \A i \in 1 .. n : taken[i].type \in Marks  BY <1>3 DEF Marks
<1> HIDE DEF n
<1>5. TakenTypes \in [1 .. n -> Marks]  BY <1>2, <1>4
<1> QED  BY <1>2, <1>5

LEMMA NumberAsks ==
  ASSUME TypeOK, NEW c, c.how \in {"number", "none"},
         nl_type' = nl_type, nl_arg' = nl_arg, taken' = taken, unset' = unset
  PROVE  Asks(c)
<1>1. Position(c) = {} /\ Stars(c) = <<>>  BY DEF Position, Stars
<1>2. TakenTypes' = TakenTypes  BY DEF TakenTypes
<1>3. TakenTypes \o <<>> = TakenTypes  BY TakenMarks, NothingAdded
<1> QED  BY <1>1, <1>2, <1>3 DEF Asks

LEMMA StarAsks ==
  ASSUME TypeOK, NEW c \in Count, c.how \in {"next", "position"}, Star(c)
  PROVE  Asks(c)
<1>1. /\ nl_type \in [1 .. NL_ARGMAX -> ArgType \cup {Unset}]
      /\ "int" \in ArgType /\ "int" # Unset
  BY ConstantFacts DEF TypeOK, ArgType
<1>2. c.how = "position" => c.n \in 1 .. NL_ARGMAX  BY CountTypes
<1>3. CASE pass = 1
  <2>1. taken' = taken /\ nl_arg' = nl_arg /\ unset' = unset  BY <1>3 DEF Star
  <2>2. CASE c.how = "next"
    <3>1. nl_type' = nl_type /\ Position(c) = {}  BY <1>3, <2>2 DEF Star, Position
    <3> QED  BY <1>3, <2>1, <3>1 DEF Asks
  <2>3. CASE c.how = "position"
    <3>1. nl_type' = [nl_type EXCEPT ![c.n] = "int"] /\ Position(c) = {c.n}
      BY <1>3, <2>3 DEF Star, Position
    <3>2. nl_type'[c.n] = "int"  BY <1>1, <1>2, <2>3, <3>1
    <3>3. \A k \in 1 .. NL_ARGMAX : k # c.n => nl_type'[k] = nl_type[k]  BY <1>1, <3>1
    <3> QED  BY <1>1, <1>3, <2>1, <3>1, <3>2, <3>3 DEF Asks
  <2> QED  BY <2>2, <2>3
<1>4. CASE pass # 1 /\ c.how = "next"
  <2>1. Take("int")  BY <1>4 DEF Star
  <2>2. TakenTypes' = TakenTypes \o <<"int">>  BY <1>1, <2>1, TakenGrows
  <2>3. Stars(c) = <<"int">>  BY <1>4 DEF Stars
  <2> QED  BY <1>4, <2>2, <2>3 DEF Asks
<1>5. CASE pass # 1 /\ c.how = "position"
  <2>1. taken' = taken /\ nl_arg' = nl_arg /\ unset' = (unset \/ nl_arg[c.n] = Unset)
    BY <1>5 DEF Star, args
  <2> QED  BY <1>5, <2>1 DEF Asks
<1> QED  BY <1>3, <1>4, <1>5

LEMMA UsesRange ==
  ASSUME NEW item \in Item
  PROVE  Uses(item) \subseteq 0 .. NL_ARGMAX
<1>1. CASE IsText(item)  BY <1>1 DEF Uses
<1>2. CASE ~IsText(item)
  <2>1. item.width \in Count /\ item.prec \in Count \cup {NoCount} /\ item.pos \in 0 .. NL_ARGMAX
    BY <1>2, ItemTypes
  <2>2. \A c \in {item.width, item.prec} : c.how = "position" => c.n \in 0 .. NL_ARGMAX
    BY <2>1, CountTypes, ConstantFacts DEF NoCount
  <2>3. 0 \in 0 .. NL_ARGMAX  BY ConstantFacts
  <2> QED  BY <1>2, <2>1, <2>2, <2>3 DEF Uses
<1> QED  BY <1>1, <1>2

LEMMA AllUsesRange ==
  ASSUME TypeOK
  PROVE  AllUses \subseteq 0 .. NL_ARGMAX
BY Here, UsesRange DEF AllUses

(* What is known stays known.                                              *)
LEMMA SearchGoesOn ==
  ASSUME TypeOK, 0 \notin AllUses, at \in 1 .. Len(format) + 1, format' = format, at' = at,
         \A k \in 1 .. NL_ARGMAX : nl_type[k] # Unset => nl_type'[k] # Unset,
         \A i \in 1 .. at - 1 : Known(Uses(format[i]))
  PROVE  /\ \A i \in 1 .. at - 1 : \A k \in Uses(format[i]) : nl_type'[k] # Unset
         /\ \A i \in 1 .. at' - 1 : Known(Uses(format[i]))'
<1>1. ASSUME NEW i \in 1 .. at - 1, NEW k \in Uses(format[i]) PROVE nl_type'[k] # Unset
  <2>1. i \in DOMAIN format
    <3>1. Len(format) \in Nat /\ DOMAIN format = 1 .. Len(format)  BY Here
    <3> QED  BY <3>1
  <2>2. k \in AllUses /\ k # 0  BY <2>1, UsesOfFormat
  <2>3. k \in 1 .. NL_ARGMAX  BY <2>2, AllUsesRange, ConstantFacts
  <2>4. nl_type[k] # Unset  BY DEF Known
  <2> QED  BY <2>3, <2>4
<1>2. \A i : Uses(format'[i]) = Uses(format[i])  OBVIOUS
<1> QED  BY <1>1, <1>2 DEF Known

LEMMA WidthKeeps == PrintfInv /\ ArgumentsInv /\ Width => ArgumentsInv'
<1> SUFFICES ASSUME PrintfInv, ArgumentsInv, Width PROVE ArgumentsInv'  OBVIOUS
<1> DEFINE c == format[at].width
<1>1. /\ pc = "width" /\ format' = format /\ pass' = pass /\ at' = at
      /\ positional' = (positional \/ c.how = "position")
  BY DEF Width, call
<1>2. TypeOK /\ at \in DOMAIN format /\ ~IsText(format[at]) /\ pass \in {1, 2} /\ positional \in BOOLEAN
  BY <1>1 DEF PrintfInv, PhaseInv, Formatting, TypeOK
<1>3. /\ Len(format) \in Nat /\ DOMAIN format = 1 .. Len(format)
      /\ format[at] \in Item /\ c \in Count
  BY <1>2, Here
<1>4. c.how \in {"number", "next", "position"}  BY <1>3, CountTypes
<1>5. \/ /\ pc' = "returned" /\ result' = -1 /\ c.how # "position"
         /\ nl_type' = nl_type /\ nl_arg' = nl_arg /\ taken' = taken /\ unset' = unset
      \/ pc' = "prec" /\ Asks(c)
  <2> HIDE DEF c
  <2>1. CASE c.how = "number"
    <3>1. /\ nl_type' = nl_type /\ nl_arg' = nl_arg /\ taken' = taken /\ unset' = unset
          /\ pc' = "prec" \/ (pc' = "returned" /\ result' = -1)
      BY <2>1 DEF Width, Return, args, c
    <3> QED  BY <1>2, <2>1, <3>1, NumberAsks
  <2>2. CASE c.how = "next" /\ positional
    BY <2>2 DEF Width, Return, args, c
  <2>3. CASE c.how = "position" \/ (c.how = "next" /\ ~positional)
    <3>1. Star(c) /\ pc' = "prec"  BY <2>3 DEF Width, c
    <3> QED  BY <1>2, <1>3, <2>3, <3>1, StarAsks
  <2> QED  BY <1>4, <2>1, <2>2, <2>3
<1>6. CASE /\ pc' = "returned" /\ result' = -1 /\ c.how # "position"
           /\ nl_type' = nl_type /\ nl_arg' = nl_arg /\ taken' = taken /\ unset' = unset
  <2>1. positional' = positional /\ result' \in Int /\ result' < 0  BY <1>1, <1>2, <1>6
  <2> QED  BY <1>1, <1>2, <1>6, <2>1, FailureKeeps
<1>7. CASE pc' = "prec" /\ Asks(c)
  <2>1. AllUses' = AllUses /\ TypesOf(format') = TypesOf(format)  BY SameUses, <1>1
  <2>2. Uses(format[at]) \subseteq AllUses  BY <1>2, UsesOfFormat
  <2>3. SequenceInv'
    <3>1. ASSUME AllUses = {0} PROVE c.how # "position" /\ positional' = positional
      <4>1. c.how # "position"  BY <1>2, <1>3, <2>2, <3>1, UsesOfDirective
      <4> QED  BY <1>1, <1>2, <4>1
    <3>2. ASSUME AllUses = {0}, pass = 2 PROVE SoFar'
      <4>1. TakenTypes = TypesOf(format)[at - 1]
        BY <1>1, <3>2 DEF ArgumentsInv, SequenceInv, SoFar
      <4>2. TakenTypes' = TakenTypes \o Stars(c)  BY <1>7, <3>1, <3>2 DEF Asks
      <4>3. TakenTypes' = TypesOf(format')[at' - 1] \o Stars(format'[at'].width)
        BY <1>1, <4>1, <4>2
      <4> QED  BY <1>7, <4>3 DEF SoFar
    <3>3. pass = 1 => taken' = taken  BY <1>7 DEF Asks
    <3> QED  BY <1>1, <1>7, <2>1, <3>1, <3>2, <3>3 DEF ArgumentsInv, SequenceInv
  <2>4. PositionInv'
    <3>1. ASSUME 0 \notin AllUses
          PROVE  c.how # "next" /\ Position(c) \subseteq AllUses
      <4>1. 0 \notin Uses(format[at])  BY <2>2, <3>1
      <4> QED  BY <1>2, <1>3, <2>2, <4>1, UsesOfDirective
    <3>2. ASSUME 0 \notin AllUses, pass = 1 PROVE ~unset' /\ SearchInv'
      <4>1. SearchInv /\ ~unset
        BY <1>1, <3>2 DEF ArgumentsInv, PositionInv, Formatting
      <4>2. /\ taken' = taken /\ nl_arg' = nl_arg /\ unset' = unset
            /\ \A k \in 1 .. NL_ARGMAX : nl_type[k] # Unset => nl_type'[k] # Unset
            /\ \A k \in Position(c) : nl_type'[k] # Unset
        BY <1>7, <3>2 DEF Asks
      <4>3. positional /\ positional'  BY <1>1, <4>1 DEF SearchInv, Formatting
      <4>4. \A i \in 1 .. at - 1 : Known(Uses(format[i]))  BY <4>1 DEF SearchInv
      <4>5. \A i \in 1 .. at' - 1 : Known(Uses(format[i]))'
        <5>1. at \in 1 .. Len(format) + 1  BY <1>2, <1>3
        <5> QED  BY <1>1, <1>2, <3>2, <4>2, <4>4, <5>1, SearchGoesOn
      <4>6. Known(Position(format[at].width))'
        <5>1. format'[at'].width = c  BY <1>1
        <5> QED  BY <4>2, <5>1 DEF Known, Position
      <4> QED  BY <1>1, <1>7, <4>1, <4>2, <4>3, <4>5, <4>6 DEF SearchInv
    <3>3. ASSUME 0 \notin AllUses, pass = 2 PROVE ~unset' /\ Fetches' /\ CountOfFetched'
      <4>1. ~unset /\ Fetches /\ CountOfFetched
        BY <3>3 DEF ArgumentsInv, PositionInv
      <4>2. /\ taken' = taken /\ nl_arg' = nl_arg
            /\ unset' <=> (unset \/ (c.how = "position" /\ nl_arg[c.n] = Unset))
        BY <1>7, <3>1, <3>3 DEF Asks
      <4>3. c.how = "position" => nl_arg[c.n] # Unset
        BY <3>1, <3>3, <4>1 DEF Fetches, Position
      <4> QED  BY <2>1, <4>1, <4>2, <4>3 DEF Fetches, CountOfFetched
    <3> QED  BY <1>1, <1>2, <1>7, <2>1, <3>2, <3>3 DEF PositionInv
  <2> QED  BY <2>3, <2>4 DEF ArgumentsInv
<1> QED  BY <1>5, <1>6, <1>7

LEMMA PrecisionKeeps == PrintfInv /\ ArgumentsInv /\ Precision => ArgumentsInv'
<1> SUFFICES ASSUME PrintfInv, ArgumentsInv, Precision PROVE ArgumentsInv'  OBVIOUS
<1> DEFINE c == format[at].prec
           w == format[at].width
<1>1. /\ pc = "prec" /\ format' = format /\ pass' = pass /\ at' = at
      /\ positional' = positional
  BY DEF Precision, call
<1>2. TypeOK /\ at \in DOMAIN format /\ ~IsText(format[at]) /\ pass \in {1, 2}
  BY <1>1 DEF PrintfInv, PhaseInv, Formatting, TypeOK
<1>3. /\ Len(format) \in Nat /\ DOMAIN format = 1 .. Len(format)
      /\ format[at] \in Item /\ c \in Count \cup {NoCount}
  BY <1>2, Here
<1>4. c.how = "none" \/ (c \in Count /\ c.how \in {"number", "next", "position"})
  BY <1>3, CountTypes DEF NoCount
<1>5. \/ /\ pc' = "returned" /\ result' = -1
         /\ nl_type' = nl_type /\ nl_arg' = nl_arg /\ taken' = taken /\ unset' = unset
      \/ pc' = "arg" /\ Asks(c)
  <2> HIDE DEF c
  <2>1. CASE c.how \in {"none", "number"}
    <3>1. /\ nl_type' = nl_type /\ nl_arg' = nl_arg /\ taken' = taken /\ unset' = unset
          /\ pc' = "arg"
      BY <2>1 DEF Precision, args, c
    <3> QED  BY <1>2, <2>1, <3>1, NumberAsks
  <2>2. CASE c.how = "next" /\ positional
    BY <2>2 DEF Precision, Return, args, c
  <2>3. CASE c \in Count /\ (c.how = "position" \/ (c.how = "next" /\ ~positional))
    <3>1. Star(c) /\ pc' = "arg"  BY <2>3 DEF Precision, c
    <3> QED  BY <1>2, <2>3, <3>1, StarAsks
  <2> QED  BY <1>4, <2>1, <2>2, <2>3
<1>6. CASE /\ pc' = "returned" /\ result' = -1
           /\ nl_type' = nl_type /\ nl_arg' = nl_arg /\ taken' = taken /\ unset' = unset
  <2>1. result' \in Int /\ result' < 0  BY <1>6
  <2> QED  BY <1>1, <1>2, <1>6, <2>1, FailureKeeps
<1>7. CASE pc' = "arg" /\ Asks(c)
  <2>1. AllUses' = AllUses /\ TypesOf(format') = TypesOf(format)  BY SameUses, <1>1
  <2>2. Uses(format[at]) \subseteq AllUses  BY <1>2, UsesOfFormat
  <2>3. SequenceInv'
    <3>1. ASSUME AllUses = {0} PROVE c.how # "position"
      BY <1>2, <1>3, <2>2, <3>1, UsesOfDirective
    <3>2. ASSUME AllUses = {0}, pass = 2 PROVE SoFar'
      <4>1. TakenTypes = TypesOf(format)[at - 1] \o Stars(w)
        BY <1>1, <3>2 DEF ArgumentsInv, SequenceInv, SoFar
      <4>2. TakenTypes' = TakenTypes \o Stars(c)  BY <1>7, <3>1, <3>2 DEF Asks
      <4>3. TakenTypes' = TypesOf(format')[at' - 1] \o Stars(format'[at'].width)
                            \o Stars(format'[at'].prec)
        BY <1>1, <4>1, <4>2
      <4> QED  BY <1>7, <4>3 DEF SoFar
    <3>3. pass = 1 => taken' = taken  BY <1>7 DEF Asks
    <3> QED  BY <1>1, <1>7, <2>1, <3>2, <3>3 DEF ArgumentsInv, SequenceInv
  <2>4. PositionInv'
    <3>1. ASSUME 0 \notin AllUses
          PROVE  /\ c.how # "next" /\ Position(c) \subseteq AllUses
                 /\ Position(w) \subseteq AllUses
      <4>1. 0 \notin Uses(format[at])  BY <2>2, <3>1
      <4> QED  BY <1>2, <1>3, <2>2, <4>1, UsesOfDirective
    <3>2. ASSUME 0 \notin AllUses, pass = 1 PROVE ~unset' /\ SearchInv'
      <4>1. SearchInv /\ ~unset
        BY <1>1, <3>2 DEF ArgumentsInv, PositionInv, Formatting
      <4>2. /\ taken' = taken /\ nl_arg' = nl_arg /\ unset' = unset
            /\ \A k \in 1 .. NL_ARGMAX : nl_type[k] # Unset => nl_type'[k] # Unset
            /\ \A k \in Position(c) : nl_type'[k] # Unset
        BY <1>7, <3>2 DEF Asks
      <4>3. positional /\ positional'  BY <1>1, <4>1 DEF SearchInv, Formatting
      <4>4. \A i \in 1 .. at - 1 : Known(Uses(format[i]))  BY <4>1 DEF SearchInv
      <4>5. \A i \in 1 .. at' - 1 : Known(Uses(format[i]))'
        <5>1. at \in 1 .. Len(format) + 1  BY <1>2, <1>3
        <5> QED  BY <1>1, <1>2, <3>2, <4>2, <4>4, <5>1, SearchGoesOn
      <4>6. Known(Position(format[at].prec))'
        <5>1. format'[at'].prec = c  BY <1>1
        <5> QED  BY <4>2, <5>1 DEF Known, Position
      <4>7. Known(Position(format[at].width))'
        <5>1. format'[at'].width = w  BY <1>1
        <5>2. \A k \in Position(w) : nl_type[k] # Unset
          BY <1>1, <4>1 DEF SearchInv, Known
        <5>3. Position(w) \subseteq 1 .. NL_ARGMAX
          <6>1. \A k \in Position(w) : k # 0 /\ k \in 0 .. NL_ARGMAX
            BY <1>2, <3>1, <3>2, AllUsesRange
          <6> QED  BY <6>1, ConstantFacts
        <5>4. \A k \in Position(w) : nl_type'[k] # Unset  BY <4>2, <5>2, <5>3
        <5> QED  BY <5>1, <5>4 DEF Known, Position
      <4> QED  BY <1>1, <1>7, <4>1, <4>2, <4>3, <4>5, <4>6, <4>7 DEF SearchInv
    <3>3. ASSUME 0 \notin AllUses, pass = 2 PROVE ~unset' /\ Fetches' /\ CountOfFetched'
      <4>1. ~unset /\ Fetches /\ CountOfFetched
        BY <3>3 DEF ArgumentsInv, PositionInv
      <4>2. /\ taken' = taken /\ nl_arg' = nl_arg
            /\ unset' <=> (unset \/ (c.how = "position" /\ nl_arg[c.n] = Unset))
        BY <1>7, <3>1, <3>3 DEF Asks
      <4>3. c.how = "position" => nl_arg[c.n] # Unset
        BY <3>1, <3>3, <4>1 DEF Fetches, Position
      <4> QED  BY <2>1, <4>1, <4>2, <4>3 DEF Fetches, CountOfFetched
    <3> QED  BY <1>1, <1>2, <1>7, <2>1, <3>2, <3>3 DEF PositionInv
  <2> QED  BY <2>3, <2>4 DEF ArgumentsInv
<1> QED  BY <1>5, <1>6, <1>7

LEMMA ArgumentKeeps == PrintfInv /\ ArgumentsInv /\ Argument => ArgumentsInv'
<1> SUFFICES ASSUME PrintfInv, ArgumentsInv, Argument PROVE ArgumentsInv'  OBVIOUS
<1> DEFINE item == format[at]
           type == Type(item.prefix, item.conv)
<1>1. /\ pc = "arg" /\ format' = format /\ pass' = pass /\ positional' = positional
  BY DEF Argument, call
<1>2. TypeOK /\ at \in DOMAIN format /\ ~IsText(item) /\ pass \in {1, 2}
  BY <1>1 DEF PrintfInv, PhaseInv, Formatting, TypeOK
<1>3. /\ Len(format) \in Nat /\ DOMAIN format = 1 .. Len(format)
      /\ item \in Item /\ item.pos \in 0 .. NL_ARGMAX /\ at \in 1 .. Len(format)
  BY <1>2, Here
<1>4. type \in ArgType \cup {Unset}  BY ArgumentTypes
<1>5. AllUses' = AllUses /\ TypesOf(format') = TypesOf(format)  BY SameUses, <1>1
<1>6. Uses(item) \subseteq AllUses  BY <1>2, UsesOfFormat
<1>7. AllUses = {0} => item.pos = 0  BY <1>2, <1>3, <1>6, UsesOfDirective
<1>8. 0 \notin AllUses =>
        /\ item.pos # 0
        /\ Uses(item) = {item.pos} \cup Position(item.width) \cup Position(item.prec)
  <2>1. 0 \notin AllUses => 0 \notin Uses(item)  BY <1>6
  <2> QED  BY <1>2, <1>3, <2>1, UsesOfDirective
<1>9. CASE type = Unset
  <2>1. /\ pc' = "returned" /\ result' = -1
        /\ nl_type' = nl_type /\ nl_arg' = nl_arg /\ taken' = taken /\ unset' = unset
    BY <1>9 DEF Argument, Return, args
  <2>2. result' \in Int /\ result' < 0  BY <2>1
  <2> QED  BY <1>1, <1>2, <2>1, <2>2, FailureKeeps
<1>10. CASE type # Unset /\ pass = 1 /\ item.pos = 0
  <2>1. /\ pc' = "returned"
        /\ nl_type' = nl_type /\ nl_arg' = nl_arg /\ taken' = taken /\ unset' = unset
    BY <1>10 DEF Argument, Return, args
  <2>2. SequenceInv'
    BY <1>1, <1>5, <1>10, <2>1 DEF ArgumentsInv, SequenceInv
  <2>3. PositionInv'  BY <1>5, <1>8, <1>10 DEF PositionInv
  <2> QED  BY <2>2, <2>3 DEF ArgumentsInv
<1>11. CASE type # Unset /\ pass = 1 /\ item.pos # 0
  <2>1. /\ nl_type' = [nl_type EXCEPT ![item.pos] = type]
        /\ at' = at + 1 /\ pc' = "next"
        /\ nl_arg' = nl_arg /\ taken' = taken /\ unset' = unset
    BY <1>11 DEF Argument
  <2>2. SequenceInv'  BY <1>5, <1>7, <1>11 DEF SequenceInv
  <2>3. ASSUME 0 \notin AllUses PROVE ~unset' /\ SearchInv'
    <3>1. SearchInv /\ ~unset
      BY <1>1, <1>11, <2>3 DEF ArgumentsInv, PositionInv, Formatting
    <3>2. /\ nl_type'[item.pos] # Unset
          /\ \A k \in 1 .. NL_ARGMAX : nl_type[k] # Unset => nl_type'[k] # Unset
      <4>1. nl_type \in [1 .. NL_ARGMAX -> ArgType \cup {Unset}]  BY <1>2 DEF TypeOK
      <4>2. item.pos \in 1 .. NL_ARGMAX  BY <1>3, <1>11, ConstantFacts
      <4> HIDE DEF type, item
      <4>3. nl_type'[item.pos] = type  BY <2>1, <4>1, <4>2
      <4>4. \A k \in 1 .. NL_ARGMAX : k # item.pos => nl_type'[k] = nl_type[k]
        BY <2>1, <4>1
      <4> QED  BY <1>11, <4>3, <4>4
    <3>3. \A k \in Uses(item) : k \in 1 .. NL_ARGMAX
      <4>1. \A k \in Uses(item) : k # 0 /\ k \in 0 .. NL_ARGMAX
        BY <1>2, <1>6, <2>3, AllUsesRange
      <4> QED  BY <4>1, ConstantFacts
    <3>4. \A k \in Uses(item) : nl_type'[k] # Unset
      <4>1. \A k \in Position(item.width) \cup Position(item.prec) : nl_type[k] # Unset
        BY <1>1, <3>1 DEF SearchInv, Known
      <4> QED  BY <1>8, <2>3, <3>2, <3>3, <4>1
    <3>5. ASSUME NEW i \in 1 .. at - 1, NEW k \in Uses(format[i]) PROVE nl_type'[k] # Unset
      <4>1. i \in DOMAIN format  BY <1>3
      <4>2. k \in AllUses /\ k # 0  BY <2>3, <4>1, UsesOfFormat
      <4>3. k \in 0 .. NL_ARGMAX  BY <1>2, <4>2, AllUsesRange
      <4>4. k \in 1 .. NL_ARGMAX  BY <4>2, <4>3, ConstantFacts
      <4>5. nl_type[k] # Unset  BY <3>1 DEF SearchInv, Known
      <4> QED  BY <3>2, <4>4, <4>5
    <3>6. \A i \in 1 .. at' - 1 : \A k \in Uses(format[i]) : nl_type'[k] # Unset
      <4>1. \A i \in 1 .. at' - 1 : i = at \/ i \in 1 .. at - 1  BY <1>3, <2>1
      <4> QED  BY <3>4, <3>5, <4>1
    <3>7. \A i : Uses(format'[i]) = Uses(format[i])  BY <1>1
    <3>8. positional'  BY <1>1, <3>1 DEF SearchInv, Formatting
    <3> QED  BY <2>1, <3>1, <3>6, <3>7, <3>8 DEF SearchInv, Known
  <2>4. PositionInv'  BY <1>1, <1>5, <1>11, <2>1, <2>3 DEF PositionInv, Formatting
  <2> QED  BY <2>2, <2>4 DEF ArgumentsInv
<1>12. CASE type # Unset /\ pass # 1 /\ item.pos # 0
  <2>1. /\ unset' = (unset \/ nl_arg[item.pos] = Unset)
        /\ pc' \in {"returned", "convert"}
        /\ nl_arg' = nl_arg /\ taken' = taken
    BY <1>12 DEF Argument, Return, args
  <2>2. SequenceInv'  BY <1>5, <1>7, <1>12 DEF SequenceInv
  <2>3. ASSUME 0 \notin AllUses PROVE ~unset' /\ Fetches' /\ CountOfFetched'
    <3>1. ~unset /\ Fetches /\ CountOfFetched
      BY <1>2, <1>12, <2>3 DEF ArgumentsInv, PositionInv
    <3>2. item.pos \in AllUses  BY <1>6, <1>8, <2>3
    <3>3. nl_arg[item.pos] # Unset  BY <3>1, <3>2 DEF Fetches
    <3> QED  BY <1>5, <2>1, <3>1, <3>3 DEF Fetches, CountOfFetched
  <2>4. PositionInv'  BY <1>1, <1>5, <1>12, <2>1, <2>3 DEF PositionInv, Formatting
  <2> QED  BY <2>2, <2>4 DEF ArgumentsInv
<1>13. CASE type # Unset /\ pass # 1 /\ item.pos = 0
  <2>1. Take(type) /\ pc' \in {"returned", "convert"} /\ at' = at
    BY <1>13 DEF Argument, Return
  <2>2. PositionInv'  BY <1>5, <1>8, <1>13 DEF PositionInv
  <2>3. ASSUME AllUses = {0} PROVE SoFar'
    <3>1. TakenTypes = TypesOf(format)[at - 1] \o Stars(item.width) \o Stars(item.prec)
      BY <1>1, <1>2, <1>13, <2>3 DEF ArgumentsInv, SequenceInv, SoFar
    <3>2. TakenTypes' = TakenTypes \o <<type>>
      <4>1. type \in ArgType  BY <1>4, <1>13
      <4> HIDE DEF type
      <4> QED  BY <1>2, <2>1, <4>1, TakenGrows
    <3>3. TypesOf(format)[at] = TypesOf(format)[at - 1] \o Stars(item.width)
                                  \o Stars(item.prec) \o <<type>>
      BY <1>2, <1>3, TypesFacts
    <3>4. TakenTypes' = TypesOf(format)[at]  BY <3>1, <3>2, <3>3
    <3> QED  BY <1>5, <2>1, <3>4 DEF SoFar
  <2>4. SequenceInv'
    BY <1>1, <1>5, <1>13, <2>1, <2>3 DEF ArgumentsInv, SequenceInv
  <2> QED  BY <2>2, <2>4 DEF ArgumentsInv
<1> QED  BY <1>9, <1>10, <1>11, <1>12, <1>13

LEMMA EndKeeps == PrintfInv /\ ArgumentsInv /\ End => ArgumentsInv'
<1> SUFFICES ASSUME PrintfInv, ArgumentsInv, End PROVE ArgumentsInv'  OBVIOUS
<1>1. /\ pc = "next" /\ at > Len(format)
      /\ format' = format /\ pass' = pass /\ positional' = positional
      /\ nl_type' = nl_type /\ nl_arg' = nl_arg /\ taken' = taken /\ unset' = unset
      /\ \/ pass = 2 /\ pc' = "returned"
         \/ pass # 2 /\ pc' = "returned" /\ ~positional
         \/ pass # 2 /\ pc' = "fetch" /\ at' = 1 /\ positional
  BY DEF End, Return, call, args
<1>2. TypeOK /\ at \in 1 .. Len(format) + 1 /\ pass \in {1, 2}
  BY <1>1 DEF PrintfInv, PhaseInv, TypeOK
<1>3. /\ Len(format) \in Nat /\ DOMAIN format = 1 .. Len(format)  BY <1>2, Here
<1>4. at - 1 = Len(format)  BY <1>1, <1>2, <1>3
<1>5. AllUses' = AllUses  BY SameUses, <1>1
<1>6. Fetches' = Fetches /\ CountOfFetched' = CountOfFetched
  BY <1>1, <1>5 DEF Fetches, CountOfFetched
<1>7. SequenceInv'
  BY <1>1, <1>2, <1>5 DEF ArgumentsInv, SequenceInv, SoFar
<1>8. ASSUME 0 \notin AllUses, pass = 1, ~positional PROVE Fetches /\ CountOfFetched
  <2>1. SearchInv  BY <1>1, <1>8 DEF ArgumentsInv, PositionInv
  <2>2. AllUses = {}  BY <1>3, <1>4, <1>8, <2>1 DEF SearchInv, AllUses
  <2>3. {k \in 1 .. NL_ARGMAX : nl_arg[k] # Unset} = {}  BY <2>1 DEF SearchInv
  <2>4. Len(taken) = 0  BY <2>1 DEF SearchInv
  <2> QED  BY <2>2, <2>3, <2>4, FS_EmptySet DEF Fetches, CountOfFetched
<1>9. ASSUME 0 \notin AllUses, pass = 1, at' = 1 PROVE FetchInv'
  <2>1. SearchInv  BY <1>1, <1>9 DEF ArgumentsInv, PositionInv
  <2>2. Known(AllUses)  BY <1>3, <1>4, <2>1 DEF SearchInv, AllUses, Known
  <2>3. Known(AllUses)'  BY <1>1, <1>5, <2>2 DEF Known
  <2>4. Len(taken') = at' - 1
    <3>1. taken' = <<>>  BY <1>1, <2>1 DEF SearchInv
    <3> QED  BY <1>9, <3>1
  <2>5. \A k \in 1 .. NL_ARGMAX : nl_arg'[k] = Unset /\ ~(k < at')
    BY <1>1, <1>9, <2>1, ConstantFacts DEF SearchInv
  <2> QED  BY <2>3, <2>4, <2>5 DEF FetchInv
<1>10. PositionInv'
  <2>1. ASSUME 0 \notin AllUses PROVE ~unset'
    BY <1>1, <2>1 DEF ArgumentsInv, PositionInv
  <2>2. ASSUME 0 \notin AllUses, pass = 2 PROVE Fetches /\ CountOfFetched
    BY <2>2 DEF ArgumentsInv, PositionInv
  <2>3. CASE pass = 2
    BY <1>1, <1>5, <1>6, <2>1, <2>2, <2>3 DEF PositionInv, Formatting
  <2>4. CASE pass = 1
    BY <1>1, <1>5, <1>6, <1>8, <1>9, <2>1, <2>4 DEF PositionInv, Formatting
  <2> QED  BY <1>2, <2>3, <2>4
<1> QED  BY <1>7, <1>10 DEF ArgumentsInv

LEMMA FetchKeeps == PrintfInv /\ ArgumentsInv /\ Fetch => ArgumentsInv'
<1> SUFFICES ASSUME PrintfInv, ArgumentsInv, Fetch PROVE ArgumentsInv'  OBVIOUS
<1>1. TypeOK /\ PhaseInv  BY DEF PrintfInv
<1>2. /\ pc = "fetch" /\ pass = 1 /\ at \in 1 .. NL_ARGMAX + 1 /\ at \in Nat
      /\ format' = format /\ pass' = pass /\ positional' = positional
      /\ unset' = unset /\ nl_type' = nl_type
      /\ \/ /\ at \in 1 .. NL_ARGMAX /\ nl_type[at] \in ArgType
            /\ Take(nl_type[at])
            /\ \E v \in Values : nl_arg' = [nl_arg EXCEPT ![at] = v]
            /\ at' = at + 1 /\ pc' = pc
         \/ /\ pc' = "returned" /\ at' = at
            /\ result' = (IF \E k \in at .. NL_ARGMAX : nl_type[k] # Unset THEN -1 ELSE 1)
            /\ nl_arg' = nl_arg /\ taken' = taken
  BY <1>1, FetchCases
<1>3. AllUses' = AllUses  BY SameUses, <1>2
<1>4. SequenceInv'  BY <1>2, <1>3 DEF ArgumentsInv, SequenceInv
<1>5. ASSUME 0 \notin AllUses
      PROVE  ~unset /\ FetchInv
  BY <1>2, <1>5 DEF ArgumentsInv, PositionInv
<1>6. CASE /\ at \in 1 .. NL_ARGMAX /\ nl_type[at] \in ArgType
           /\ Take(nl_type[at])
           /\ \E v \in Values : nl_arg' = [nl_arg EXCEPT ![at] = v]
           /\ at' = at + 1 /\ pc' = pc
  <2>1. ASSUME 0 \notin AllUses PROVE FetchInv'
    <3>1. FetchInv  BY <1>5, <2>1
    <3>2. Known(AllUses)'  BY <1>2, <1>3, <3>1 DEF FetchInv, Known
    <3>3. taken \in Seq([at : Nat, type : ArgType]) /\ ap \in Nat
          /\ nl_arg \in [1 .. NL_ARGMAX -> Values \cup {Unset}]
      BY <1>1 DEF TypeOK
    <3>4. Len(taken') = Len(taken) + 1  BY <1>6, <3>3, TakeTypes
    <3>5. Len(taken') = at' - 1  BY <1>2, <1>6, <3>1, <3>4 DEF FetchInv
    <3>6. PICK v \in Values : nl_arg' = [nl_arg EXCEPT ![at] = v]  BY <1>6
    <3>7. v # Unset  BY ConstantFacts
    <3>8. ASSUME NEW k \in 1 .. NL_ARGMAX PROVE nl_arg'[k] # Unset <=> k < at'
      <4>1. CASE k = at
        <5>1. nl_arg'[k] = v  BY <1>6, <3>3, <3>6, <4>1
        <5> QED  BY <1>2, <1>6, <3>7, <4>1, <5>1
      <4>2. CASE k # at
        <5>1. nl_arg'[k] = nl_arg[k]  BY <3>3, <3>6, <4>2
        <5>2. nl_arg[k] # Unset <=> k < at  BY <3>1 DEF FetchInv
        <5>3. k < at' <=> k < at  BY <1>2, <1>6, <4>2
        <5> QED  BY <5>1, <5>2, <5>3
      <4> QED  BY <4>1, <4>2
    <3> QED  BY <3>2, <3>5, <3>8 DEF FetchInv
  <2>2. PositionInv'
    BY <1>2, <1>3, <1>5, <1>6, <2>1 DEF PositionInv, Formatting
  <2> QED  BY <1>4, <2>2 DEF ArgumentsInv
<1>7. CASE /\ pc' = "returned" /\ at' = at
           /\ result' = (IF \E k \in at .. NL_ARGMAX : nl_type[k] # Unset THEN -1 ELSE 1)
           /\ nl_arg' = nl_arg /\ taken' = taken
  <2>1. ASSUME 0 \notin AllUses, result' >= 0 PROVE Fetches' /\ CountOfFetched'
    <3>1. FetchInv  BY <1>5, <2>1
    <3>2. \A k \in at .. NL_ARGMAX : nl_type[k] = Unset  BY <1>7, <2>1
    <3>3. ASSUME NEW k \in AllUses PROVE nl_arg[k] # Unset
      <4>1. k # 0 /\ k \in 0 .. NL_ARGMAX  BY <1>1, <2>1, <3>3, AllUsesRange
      <4>2. k \in 1 .. NL_ARGMAX  BY <4>1, ConstantFacts
      <4>3. nl_type[k] # Unset  BY <3>1, <3>3 DEF FetchInv, Known
      <4>4. k < at  BY <1>2, <3>2, <4>2, <4>3, ConstantFacts
      <4> QED  BY <3>1, <4>2, <4>4 DEF FetchInv
    <3>4. {k \in 1 .. NL_ARGMAX : nl_arg[k] # Unset} = 1 .. at - 1
      <4>1. \A k : k \in 1 .. at - 1 <=> k \in 1 .. NL_ARGMAX /\ k < at
        BY <1>2, ConstantFacts
      <4> QED  BY <3>1, <4>1 DEF FetchInv
    <3>5. Cardinality(1 .. at - 1) = at - 1
      <4>1. 1 \in Int /\ at - 1 \in Int  BY <1>2
      <4>2. Cardinality(1 .. at - 1) = IF 1 > at - 1 THEN 0 ELSE (at - 1) - 1 + 1
        BY <4>1, FS_Interval
      <4> QED  BY <1>2, <4>2
    <3>6. Fetches /\ CountOfFetched
      BY <3>1, <3>3, <3>4, <3>5 DEF Fetches, CountOfFetched, FetchInv
    <3> QED  BY <1>3, <1>7, <3>6 DEF Fetches, CountOfFetched
  <2>2. PositionInv'
    BY <1>2, <1>3, <1>5, <1>7, <2>1 DEF PositionInv, Formatting
  <2> QED  BY <1>4, <2>2 DEF ArgumentsInv
<1> QED  BY <1>2, <1>6, <1>7

LEMMA ArgumentsStutter == ArgumentsInv /\ UNCHANGED vars => ArgumentsInv'
<1> SUFFICES ASSUME ArgumentsInv, UNCHANGED vars PROVE ArgumentsInv'  OBVIOUS
<1>1. /\ format' = format /\ pass' = pass /\ pc' = pc /\ at' = at
      /\ positional' = positional /\ nl_type' = nl_type /\ nl_arg' = nl_arg
      /\ taken' = taken /\ unset' = unset /\ result' = result
  BY DEF vars
<1>2. AllUses' = AllUses  BY SameUses, <1>1
<1>3. SequenceInv'
  BY <1>1, <1>2 DEF ArgumentsInv, SequenceInv, SoFar, TakenTypes
<1>4. SearchInv' <=> SearchInv
  BY <1>1 DEF SearchInv, Known, Position, Uses, IsText, Formatting
<1>5. FetchInv' <=> FetchInv  BY <1>1, <1>2 DEF FetchInv, Known
<1>6. PositionInv'
  BY <1>1, <1>2, <1>4, <1>5
  DEF ArgumentsInv, PositionInv, Fetches, CountOfFetched, Formatting
<1> QED  BY <1>3, <1>6 DEF ArgumentsInv

(* Each directive gets its own argument: the next one of its type, or the  *)
(* one at its position, which has been fetched once, before it is used.    *)
THEOREM OwnArguments == Spec => []ArgumentsRight
<1>1. PrintfInv /\ ArgumentsInv /\ [Next]_vars => ArgumentsInv'
  BY TooLongKeeps, LiteralKeeps, DirectiveKeeps, WidthKeeps, PrecisionKeeps, ArgumentKeeps,
     ConversionsKeep, EndKeeps, FetchKeeps, SecondKeeps, FinishKeeps, ArgumentsStutter DEF Next
<1>2. ArgumentsInv => ArgumentsRight
  <2> SUFFICES ASSUME ArgumentsInv PROVE ArgumentsRight  OBVIOUS
  <2>1. TakenInOrder  BY DEF ArgumentsInv, SequenceInv, SoFar, TakenInOrder
  <2>2. FetchedBeforeUse
    BY DEF ArgumentsInv, PositionInv, CountOfFetched, FetchedBeforeUse
  <2> QED  BY <2>1, <2>2 DEF ArgumentsRight
<1>3. Spec => []ArgumentsInv
  BY ArgumentsStart, PrintfInvariant, <1>1, PTL DEF Spec
<1> QED  BY <1>2, <1>3, PTL
-----------------------------------------------------------------------------
(***************************************************************************)
(* memcpy.                                                                 *)
(***************************************************************************)
(* What is copied next fits, and where words are copied both addresses are *)
(* multiples of their size.                                                *)
CpyInv ==
  LET d == l1
      Stop == params.dst + params.n
      LastWord == Stop - (Stop % 4)
  IN  /\ Cpy!TypeOK /\ Cpy!OnlyFrontCopied
      /\ place \in {"head", "aligned", "blocks", "words"} => params.src % 4 = params.dst % 4
      /\ place = "enter" => d = params.dst
      /\ place = "head" => d < Stop
      /\ place = "aligned" => d % 4 = 0 \/ d = Stop
      /\ place = "blocks" => d % 4 = 0 /\ d + Block <= LastWord
      /\ place = "words" => d % 4 = 0 /\ d + 4 <= LastWord
      /\ place = "fours" => d + 4 <= Stop
      /\ Cpy!CopiedAtEnd

(* Adding the modulus changes nothing.                                     *)
LEMMA ModOnce ==
  ASSUME NEW m \in Nat, NEW x \in Nat, x < m
  PROVE  (x + m) % m = x
<1> DEFINE y == x + m
           q == y \div m
           r == y % m
<1>1. y \in Nat /\ m \in Nat /\ m > 0  OBVIOUS
<1>2. q \in Int /\ r \in 0 .. m - 1 /\ y = m * q + r  BY <1>1
<1> QED  BY <1>2

LEMMA CpyGiven ==
  /\ Modulus \in Nat /\ AreaBytes \in Nat
  /\ Block \in Nat /\ Block > 0 /\ Block % 4 = 0 /\ Import \in Nat
BY LibraryAssumption DEF Cpy!MemcpyAssumption, Cpy!Word

LEMMA CpyAreas ==
  ASSUME NEW c \in Areas
  PROVE  /\ c.dst \in Nat /\ c.src \in Nat /\ c.n \in Nat
         /\ c.dst + c.n <= AreaBytes /\ c.src + c.n <= AreaBytes
         /\ c.dst + c.n <= c.src \/ c.src + c.n <= c.dst
         /\ c.dst + c.n + Block < Modulus
BY LibraryAssumption DEF Cpy!MemcpyAssumption

LEMMA CpyStarts == Cpy!Init => CpyInv
<1> SUFFICES ASSUME Cpy!Init PROVE CpyInv  OBVIOUS
<1> USE DEF Cpy!Init
<1>1. params \in Areas /\ place = "enter" /\ l1 = params.dst /\ l2 = params.src
      /\ l3 = [a \in 0 .. AreaBytes - 1 |-> a]
  OBVIOUS
<1>2. /\ params.dst \in Nat /\ params.src \in Nat /\ params.n \in Nat  BY <1>1, CpyAreas
<1>3. l3 \in [0 .. AreaBytes - 1 -> 0 .. AreaBytes - 1]  BY <1>1
<1>4. Cpy!TypeOK  BY <1>1, <1>2, <1>3 DEF Cpy!TypeOK, Cpy!End
<1>5. Cpy!OnlyFrontCopied  BY <1>1, <1>2 DEF Cpy!OnlyFrontCopied, Cpy!End
<1> QED  BY <1>1, <1>4, <1>5 DEF CpyInv, Cpy!CopiedAtEnd

(* Some bytes are copied: those that are read were not written.            *)
LEMMA CopyKeeps ==
  ASSUME Cpy!TypeOK, Cpy!OnlyFrontCopied, NEW k \in Nat,
         l1 + k <= params.dst + params.n, Cpy!Copy(k)
  PROVE  /\ params' = params /\ l1' = l1 + k
         /\ l1' \in params.dst .. params.dst + params.n
         /\ l2' = params.src + (l1' - params.dst)
         /\ l3' \in [0 .. AreaBytes - 1 -> 0 .. AreaBytes - 1]
         /\ Cpy!OnlyFrontCopied'
<1> DEFINE dst == params.dst  src == params.src  n == params.n
           Memory == 0 .. AreaBytes - 1
<1>1. /\ params \in Areas /\ l1 \in dst .. dst + n /\ l2 = src + (l1 - dst)
      /\ l3 \in [Memory -> Memory]
  BY DEF Cpy!TypeOK, Cpy!End
<1>2. /\ dst \in Nat /\ src \in Nat /\ n \in Nat /\ AreaBytes \in Nat
      /\ dst + n <= AreaBytes /\ src + n <= AreaBytes
      /\ dst + n <= src \/ src + n <= dst
  BY <1>1, CpyAreas, CpyGiven
<1>3. \A a \in Memory : l3[a] = IF a \in dst .. (dst + n) - 1 /\ a < l1 THEN src + (a - dst) ELSE a
  <2>1. DOMAIN l3 = Memory  BY <1>1
  <2>2. \A a \in DOMAIN l3 : l3[a] = IF a \in dst .. (dst + n) - 1 /\ a < l1 THEN src + (a - dst) ELSE a
    BY Zenon DEF Cpy!OnlyFrontCopied, Cpy!End
  <2> QED  BY <2>1, <2>2
<1>4. /\ l3' = [a \in DOMAIN l3 |-> IF a \in l1 .. l1 + k - 1 THEN l3[l2 + (a - l1)] ELSE l3[a]]
      /\ l1' = l1 + k /\ l2' = l2 + k /\ params' = params
  BY DEF Cpy!Copy
<1>5. l1 + k <= dst + n  OBVIOUS
<1>6. params'.dst = dst /\ params'.n = n /\ params'.src = src  BY <1>4
<1> HIDE DEF dst, src, n
<1>7. ASSUME NEW a \in Memory
      PROVE  l3'[a] = IF a \in dst .. (dst + n) - 1 /\ a < l1' THEN src + (a - dst) ELSE a
  <2>1. CASE a \in l1 .. l1 + k - 1
    <3> DEFINE b == l2 + (a - l1)
    <3>1. b = src + (a - dst) /\ b \in src .. src + n - 1 /\ a \in dst .. (dst + n) - 1 /\ a < l1'
      BY <1>1, <1>2, <1>4, <1>5, <2>1
    <3>2. b \in Memory /\ b \notin dst .. (dst + n) - 1  BY <1>2, <3>1
    <3>3. l3[b] = b  BY <1>3, <3>2
    <3>4. l3'[a] = l3[b]  BY <1>1, <1>4, <2>1
    <3> QED  BY <3>1, <3>3, <3>4
  <2>2. CASE a \notin l1 .. l1 + k - 1
    <3>1. l3'[a] = l3[a]  BY <1>1, <1>4, <2>2
    <3>2. a < l1' /\ a >= dst => a < l1  BY <1>1, <1>2, <1>4, <2>2
    <3>3. a < l1 => a < l1'  BY <1>1, <1>2, <1>4
    <3> QED  BY <1>1, <1>2, <1>3, <3>1, <3>2, <3>3
  <2> QED  BY <2>1, <2>2
<1>8. DOMAIN l3' = Memory  BY <1>1, <1>4
<1>9. l3' \in [Memory -> Memory]
  <2>1. \A a \in Memory : l3'[a] \in Memory
    BY <1>1, <1>2, <1>7
  <2>2. l3' = [a \in Memory |-> l3'[a]]  BY <1>1, <1>4
  <2> QED  BY <2>1, <2>2
<1>10. Cpy!OnlyFrontCopied'
  <2>1. \A a \in DOMAIN l3' :
          l3'[a] = IF a \in params'.dst .. (params'.dst + params'.n) - 1 /\ a < l1'
                   THEN params'.src + (a - params'.dst) ELSE a
    BY <1>6, <1>7, <1>8
  <2> QED  BY <1>2, <1>6, <2>1 DEF Cpy!OnlyFrontCopied, Cpy!End, dst, src, n
<1>11. l1' \in dst .. dst + n /\ l2' = src + (l1' - dst)
  BY <1>1, <1>2, <1>4, <1>5
<1> QED  BY <1>4, <1>9, <1>10, <1>11 DEF dst, src, n

LEMMA CpyStep == CpyInv /\ [Cpy!Next]_(Cpy!vars) => CpyInv'
<1> DEFINE Stop == params.dst + params.n
           LastWord == Stop - (Stop % 4)
<1>1. SUFFICES ASSUME CpyInv, [Cpy!Next]_(Cpy!vars) PROVE CpyInv'  OBVIOUS
<1>2. /\ params \in Areas /\ l1 \in params.dst .. Stop /\ l2 = params.src + (l1 - params.dst)
      /\ Cpy!TypeOK /\ Cpy!OnlyFrontCopied
  BY <1>1 DEF CpyInv, Cpy!TypeOK, Cpy!End
<1>3. /\ params.dst \in Nat /\ params.src \in Nat /\ params.n \in Nat
      /\ Stop + Block < Modulus /\ Modulus \in Nat
      /\ Block \in Nat /\ Block > 0 /\ Block % 4 = 0 /\ Import \in Nat
  BY <1>2, CpyAreas, CpyGiven
<1>4. /\ LastWord \in Nat /\ LastWord <= Stop /\ Stop <= LastWord + 3 /\ LastWord % 4 = 0
  BY <1>3
<1> HIDE DEF LastWord
<1>5. CASE Cpy!Enter
  <2>1. /\ params' = params /\ l1' = l1 /\ l2' = l2 /\ l3' = l3 /\ l1 = params.dst
    BY <1>1, <1>5 DEF Cpy!Enter, Cpy!Goto, CpyInv
  <2>2. place' = CASE params.n >= Import -> "done"
            [] params.n < Import /\ params.src % 4 # params.dst % 4 ->
                 IF Stop < 4 \/ Stop - 4 < params.dst THEN "rest" ELSE "fours"
            [] OTHER -> IF params.dst % 4 # 0 /\ params.n # 0 THEN "head" ELSE "aligned"
    BY <1>5 DEF Cpy!Enter, Cpy!Goto, Cpy!Word, Cpy!End
  <2>3. /\ place' \in {"done", "rest", "fours", "head", "aligned"}
        /\ place' = "done" => params.n >= Import
        /\ place' \in {"head", "aligned"} => params.src % 4 = params.dst % 4
        /\ place' = "fours" => params.dst + 4 <= Stop
        /\ place' = "head" => params.n # 0
        /\ place' = "aligned" => params.dst % 4 = 0 \/ params.n = 0
    BY <1>3, <2>2
  <2>4. Cpy!TypeOK' /\ Cpy!OnlyFrontCopied' /\ Cpy!CopiedAtEnd'
    BY <1>2, <1>3, <2>1, <2>3 DEF Cpy!TypeOK, Cpy!OnlyFrontCopied, Cpy!CopiedAtEnd, Cpy!End
  <2> QED  BY <1>2, <1>3, <2>1, <2>3, <2>4 DEF CpyInv
<1>6. ASSUME NEW k \in Nat, l1 + k <= Stop, Cpy!Copy(k),
             place' \in {"head", "aligned", "blocks", "words", "fours", "rest", "done"}
      PROVE  /\ params' = params /\ l1' = l1 + k
             /\ Cpy!TypeOK' /\ Cpy!OnlyFrontCopied'
  <2>1. /\ params' = params /\ l1' = l1 + k /\ l1' \in params.dst .. Stop
        /\ l2' = params.src + (l1' - params.dst)
        /\ l3' \in [0 .. AreaBytes - 1 -> 0 .. AreaBytes - 1] /\ Cpy!OnlyFrontCopied'
    BY <1>2, <1>6, CopyKeeps
  <2> QED  BY <1>2, <1>6, <2>1 DEF Cpy!TypeOK, Cpy!End
<1>7. CASE Cpy!Head
  <2>1. place = "head" /\ Cpy!Copy(1) /\ l1 < Stop /\ params.src % 4 = params.dst % 4
    BY <1>1, <1>7 DEF Cpy!Head, CpyInv
  <2>2. place' = IF l1' % 4 # 0 /\ l1' < Stop THEN "head" ELSE "aligned"
    BY <1>7, <2>1 DEF Cpy!Head, Cpy!Copy, Cpy!Word, Cpy!End
  <2>3. params' = params /\ l1' = l1 + 1 /\ Cpy!TypeOK' /\ Cpy!OnlyFrontCopied'
    BY <1>2, <1>3, <1>6, <2>1, <2>2
  <2> QED  BY <1>2, <1>3, <2>1, <2>2, <2>3 DEF CpyInv, Cpy!CopiedAtEnd
<1>8. CASE Cpy!Aligned
  <2>1. /\ params' = params /\ l1' = l1 /\ l2' = l2 /\ l3' = l3 /\ place = "aligned"
        /\ params.src % 4 = params.dst % 4 /\ (l1 % 4 = 0 \/ l1 = Stop)
    BY <1>1, <1>8 DEF Cpy!Aligned, Cpy!Goto, CpyInv
  <2>2. place' = CASE Cpy!BlocksFit -> "blocks"
            [] ~Cpy!BlocksFit /\ l1 < LastWord -> "words"
            [] OTHER -> "rest"
    BY <1>8 DEF Cpy!Aligned, Cpy!Goto, Cpy!AlignDown, Cpy!Word, Cpy!End, LastWord
  <2>3. Cpy!BlocksFit => l1 + Block <= LastWord /\ l1 % 4 = 0
    <3>1. SUFFICES ASSUME Cpy!BlocksFit PROVE l1 + Block <= LastWord /\ l1 % 4 = 0  OBVIOUS
    <3>2. Stop >= Block /\ l1 <= ((LastWord - Block + Modulus) % Modulus)
      BY <3>1 DEF Cpy!BlocksFit, Cpy!Minus, Cpy!AlignDown, Cpy!Word, Cpy!End, LastWord
    <3>3. LastWord >= Block  BY <1>3, <1>4, <3>2
    <3>4. (LastWord - Block + Modulus) % Modulus = LastWord - Block
      <4> DEFINE x == LastWord - Block
      <4>1. x \in Nat /\ x < Modulus  BY <1>3, <1>4, <3>3
      <4> HIDE DEF x
      <4>2. (x + Modulus) % Modulus = x  BY <1>3, <4>1, ModOnce
      <4> QED  BY <4>2 DEF x
    <3> QED  BY <1>2, <1>3, <1>4, <2>1, <3>2, <3>4
  <2>4. /\ place' \in {"blocks", "words", "rest"}
        /\ place' = "blocks" => l1 % 4 = 0 /\ l1 + Block <= LastWord
        /\ place' = "words" => l1 % 4 = 0 /\ l1 + 4 <= LastWord
    BY <1>2, <1>3, <1>4, <2>1, <2>2, <2>3
  <2>5. Cpy!TypeOK' /\ Cpy!OnlyFrontCopied'
    BY <1>2, <2>1, <2>4 DEF Cpy!TypeOK, Cpy!OnlyFrontCopied, Cpy!End
  <2> QED  BY <1>2, <1>3, <2>1, <2>4, <2>5 DEF CpyInv, Cpy!CopiedAtEnd, LastWord
<1>9. CASE Cpy!Blocks
  <2>1. /\ place = "blocks" /\ Cpy!Copy(Block) /\ l1 % 4 = 0 /\ l1 + Block <= LastWord
        /\ params.src % 4 = params.dst % 4
    BY <1>1, <1>9 DEF Cpy!Blocks, CpyInv, LastWord
  <2>2. place' = CASE l1' <= LastWord - Block -> "blocks"
             [] l1' > LastWord - Block /\ l1' < LastWord -> "words"
             [] OTHER -> "rest"
    BY <1>9, <2>1 DEF Cpy!Blocks, Cpy!Copy, Cpy!AlignDown, Cpy!Word, Cpy!End, LastWord
  <2>3. params' = params /\ l1' = l1 + Block /\ Cpy!TypeOK' /\ Cpy!OnlyFrontCopied'
    BY <1>2, <1>3, <1>4, <1>6, <2>1, <2>2
  <2>4. l1' % 4 = 0  BY <1>2, <1>3, <2>1, <2>3
  <2>5. /\ place' \in {"blocks", "words", "rest"}
        /\ place' = "blocks" => l1' + Block <= LastWord
        /\ place' = "words" => l1' + 4 <= LastWord
    BY <1>2, <1>3, <1>4, <2>1, <2>2, <2>3, <2>4
  <2> QED  BY <2>1, <2>3, <2>4, <2>5 DEF CpyInv, Cpy!CopiedAtEnd, LastWord
<1>10. CASE Cpy!Words
  <2>1. /\ place = "words" /\ Cpy!Copy(4) /\ l1 % 4 = 0 /\ l1 + 4 <= LastWord
        /\ params.src % 4 = params.dst % 4
    BY <1>1, <1>10 DEF Cpy!Words, CpyInv, LastWord, Cpy!Word
  <2>2. place' = IF l1' < LastWord THEN "words" ELSE "rest"
    BY <1>10, <2>1 DEF Cpy!Words, Cpy!Copy, Cpy!AlignDown, Cpy!Word, Cpy!End, LastWord
  <2>3. params' = params /\ l1' = l1 + 4 /\ Cpy!TypeOK' /\ Cpy!OnlyFrontCopied'
    BY <1>2, <1>3, <1>4, <1>6, <2>1, <2>2
  <2>4. l1' % 4 = 0 /\ (l1' < LastWord => l1' + 4 <= LastWord)
    BY <1>2, <1>3, <1>4, <2>1, <2>3
  <2> QED  BY <1>2, <1>3, <1>4, <2>1, <2>2, <2>3, <2>4 DEF CpyInv, Cpy!CopiedAtEnd, LastWord
<1>11. CASE Cpy!Fours
  <2>1. /\ place = "fours" /\ Cpy!Copy(4) /\ l1 + 4 <= Stop
    BY <1>1, <1>11 DEF Cpy!Fours, CpyInv, Cpy!Word
  <2>2. place' = IF l1' <= Stop - 4 THEN "fours" ELSE "rest"
    BY <1>11, <2>1 DEF Cpy!Fours, Cpy!Copy, Cpy!Word, Cpy!End
  <2>3. params' = params /\ l1' = l1 + 4 /\ Cpy!TypeOK' /\ Cpy!OnlyFrontCopied'
    BY <1>2, <1>3, <1>6, <2>1, <2>2
  <2> QED  BY <1>2, <1>3, <2>1, <2>2, <2>3 DEF CpyInv, Cpy!CopiedAtEnd
<1>12. CASE Cpy!Rest
  <2>1. CASE l1 >= Stop
    <3>1. /\ params' = params /\ l1' = l1 /\ l2' = l2 /\ l3' = l3 /\ place' = "done"
      BY <1>12, <2>1 DEF Cpy!Rest, Cpy!Goto, Cpy!End
    <3>2. l1 = Stop  BY <1>2, <1>3, <2>1
    <3>3. Cpy!TypeOK'  BY <1>2, <3>1 DEF Cpy!TypeOK, Cpy!End
    <3>4. Cpy!OnlyFrontCopied'  BY <1>2, <3>1 DEF Cpy!OnlyFrontCopied, Cpy!End
    <3>5. Cpy!CopiedAtEnd'  BY <3>1, <3>2 DEF Cpy!CopiedAtEnd, Cpy!End
    <3> QED  BY <3>1, <3>3, <3>4, <3>5 DEF CpyInv
  <2>2. CASE ~(l1 >= Stop)
    <3>1. place = "rest" /\ place' = place /\ Cpy!Copy(1)
      BY <1>12, <2>2 DEF Cpy!Rest, Cpy!End
    <3>2. params' = params /\ l1' = l1 + 1 /\ Cpy!TypeOK' /\ Cpy!OnlyFrontCopied'
      BY <1>2, <1>3, <1>6, <2>2, <3>1
    <3> QED  BY <3>1, <3>2 DEF CpyInv, Cpy!CopiedAtEnd
  <2> QED  BY <2>1, <2>2
<1>13. CASE UNCHANGED Cpy!vars
  BY <1>1, <1>13 DEF Cpy!vars, CpyInv, Cpy!TypeOK, Cpy!OnlyFrontCopied, Cpy!CopiedAtEnd, Cpy!End
<1> QED  BY <1>1, <1>5, <1>7, <1>8, <1>9, <1>10, <1>11, <1>12, <1>13 DEF Cpy!Next

LEMMA CpyWordsAligned == CpyInv => Cpy!WordsAligned
<1> SUFFICES ASSUME CpyInv PROVE Cpy!WordsAligned  OBVIOUS
<1>1. /\ params \in Areas /\ l1 \in params.dst .. params.dst + params.n
      /\ l2 = params.src + (l1 - params.dst)
  BY DEF CpyInv, Cpy!TypeOK, Cpy!End
<1>2. params.dst \in Nat /\ params.src \in Nat /\ params.n \in Nat  BY <1>1, CpyAreas
<1>3. place \in {"blocks", "words"} => l1 % 4 = 0 /\ params.src % 4 = params.dst % 4
  BY DEF CpyInv
<1> QED  BY <1>1, <1>2, <1>3 DEF Cpy!WordsAligned, Cpy!Word
-----------------------------------------------------------------------------
(***************************************************************************)
(* memset.                                                                 *)
(***************************************************************************)
(* Quotient and remainder are what they are made of.                       *)
LEMMA DivUnique ==
  ASSUME NEW d \in Nat, d > 0, NEW q \in Nat, NEW r \in 0 .. d - 1
  PROVE  (d * q + r) \div d = q /\ (d * q + r) % d = r
OBVIOUS

LEMMA SetGiven ==
  /\ Byte \in Nat /\ Byte > 1 /\ SetBytes \in Nat /\ Unused \notin 0 .. Byte - 1
  /\ \A c \in SetCalls : c.p \in Nat /\ c.v \in Nat /\ c.n \in Nat /\ c.p + c.n <= SetBytes
BY LibraryAssumption DEF Set!MemsetAssumption

LEMMA Powers ==
  /\ Set!Power[0] = 1
  /\ \A k \in 1 .. 8 : Set!Power[k] = Byte * Set!Power[k - 1]
  /\ \A k \in 0 .. 8 : Set!Power[k] \in Nat
<1> DEFINE G(h) == [k \in 0 .. 8 |-> IF k = 0 THEN 1 ELSE Byte * h[k - 1]]
           before == [k \in 1 .. 8 |-> k - 1]
           step == [k \in 1 .. 8 |-> [x \in Nat |-> Byte * x]]
<1>1. before \in [1 .. 8 -> Nat] /\ \A k \in 1 .. 8 : before[k] < k  OBVIOUS
<1>2. step \in [1 .. 8 -> [Nat -> Nat]]
  <2>1. [x \in Nat |-> Byte * x] \in [Nat -> Nat]  BY SetGiven
  <2> QED  BY <2>1
<1>3. PICK h : Defined(8, Nat, 1, before, step, h)
  <2>1. Recursive(8, Nat, 1, before, step)  BY <1>1, <1>2 DEF Recursive
  <2> QED  BY <2>1, Recursion
<1>4. h \in [0 .. 8 -> Nat] /\ h[0] = 1 /\ \A k \in 1 .. 8 : h[k] = step[k][h[before[k]]]
  <2> HIDE DEF before, step
  <2> QED  BY <1>3 DEF Defined
<1>5. \A k \in 1 .. 8 : h[k] = Byte * h[k - 1]
  <2>1. TAKE k \in 1 .. 8
  <2>2. before[k] = k - 1 /\ k - 1 \in 0 .. 8 /\ step[k] = [x \in Nat |-> Byte * x]  OBVIOUS
  <2>3. h[k - 1] \in Nat  BY <1>4, <2>2
  <2> HIDE DEF before, step
  <2> QED  BY <1>4, <2>2, <2>3
<1>6. h = G(h)
  <2>1. h = [k \in 0 .. 8 |-> h[k]]  BY <1>4
  <2>2. \A k \in 0 .. 8 : k = 0 \/ k \in 1 .. 8  OBVIOUS
  <2> HIDE DEF before, step
  <2> QED  BY <1>4, <1>5, <2>1, <2>2
<1>7. PICK f : f = G(f) /\ Set!Power = f
  BY <1>6 DEF Set!Power, Set!Long
<1>8. f[0] = 1 /\ \A k \in 1 .. 8 : f[k] = Byte * f[k - 1]
  BY <1>7
<1>9. \A k \in 0 .. 8 : f[k] \in Nat
  <2>1. f[0] \in Nat  BY <1>8
  <2>2. ASSUME NEW k \in 1 .. 8, f[before[k]] \in Nat PROVE f[k] \in Nat
    <3>1. f[k - 1] \in Nat  BY <2>2
    <3> HIDE DEF G
    <3> QED  BY <1>8, <3>1, SetGiven
  <2> HIDE DEF before, G
  <2> QED  BY <1>1, <2>1, <2>2, RecursionType
<1> HIDE DEF G
<1> QED  BY <1>7, <1>8, <1>9

(* What holds at 0, and at the next number if it holds at one.             *)
LEMMA UpTo ==
  ASSUME NEW n \in Nat, NEW T, 0 \in T, \A k \in 1 .. n : k - 1 \in T => k \in T
  PROVE  \A k \in 0 .. n : k \in T
<1> DEFINE Outside == {k \in 0 .. n : k \notin T}
<1>1. Outside = {}
  <2> SUFFICES ASSUME Outside # {} PROVE FALSE  OBVIOUS
  <2>1. PICK k \in Outside : \A m \in Outside : k <= m
    <3>1. Outside \subseteq Nat  OBVIOUS
    <3> HIDE DEF Outside
    <3> QED  BY <3>1, NatMin
  <2>2. k \in 1 .. n /\ k - 1 \in 0 .. n  OBVIOUS
  <2>3. k - 1 \notin Outside
    <3> HIDE DEF Outside
    <3> QED  BY <2>1, <2>2
  <2> QED  BY <2>2, <2>3
<1> QED  BY <1>1

(* Numbers of some bytes that are all the same.                            *)
Repeats(b, h) ==
  /\ h \in [0 .. 8 -> Nat] /\ h[0] = 0
  /\ \A k \in 1 .. 8 : h[k] = Byte * h[k - 1] + b

LEMMA RepeatsExist ==
  ASSUME NEW b \in 0 .. Byte - 1
  PROVE  \E h : Repeats(b, h)
<1> DEFINE before == [k \in 1 .. 8 |-> k - 1]
           step == [k \in 1 .. 8 |-> [x \in Nat |-> Byte * x + b]]
<1>1. before \in [1 .. 8 -> Nat] /\ \A k \in 1 .. 8 : before[k] < k  OBVIOUS
<1>2. step \in [1 .. 8 -> [Nat -> Nat]]
  <2>1. [x \in Nat |-> Byte * x + b] \in [Nat -> Nat]  BY SetGiven
  <2> QED  BY <2>1
<1>3. PICK h : Defined(8, Nat, 0, before, step, h)
  <2>1. Recursive(8, Nat, 0, before, step)  BY <1>1, <1>2 DEF Recursive
  <2> QED  BY <2>1, Recursion
<1>4. h \in [0 .. 8 -> Nat] /\ h[0] = 0 /\ \A k \in 1 .. 8 : h[k] = step[k][h[before[k]]]
  <2> HIDE DEF before, step
  <2> QED  BY <1>3 DEF Defined
<1>5. \A k \in 1 .. 8 : h[k] = Byte * h[k - 1] + b
  <2>1. TAKE k \in 1 .. 8
  <2>2. /\ before[k] = k - 1 /\ k - 1 \in 0 .. 8
        /\ step[k] = [x \in Nat |-> Byte * x + b]
    OBVIOUS
  <2>3. h[k - 1] \in Nat  BY <1>4, <2>2
  <2> HIDE DEF before, step
  <2> QED  BY <1>4, <2>2, <2>3
<1> HIDE DEF before, step
<1> QED  BY <1>4, <1>5 DEF Repeats

(* They are smaller than the power of their length, and each is made of    *)
(* its upper and its lower bytes.                                          *)
LEMMA RepeatsSplit ==
  ASSUME NEW b \in 0 .. Byte - 1, NEW h, Repeats(b, h), NEW n \in 0 .. 8
  PROVE  \A k \in 0 .. n :
           /\ h[k] < Set!Power[k]
           /\ h[n] = Set!Power[k] * h[n - k] + h[k]
<1> DEFINE P(k) == Set!Power[k]
           Split(k) == /\ h[k] < P(k) /\ h[n] = P(k) * h[n - k] + h[k]
                       /\ b * P(k) + h[k] = Byte * h[k] + b
           T == {k \in 0 .. n : Split(k)}
<1>1. /\ P(0) = 1 /\ \A k \in 1 .. 8 : P(k) = Byte * P(k - 1)
      /\ \A k \in 0 .. 8 : P(k) \in Nat
  BY Powers
<1>2. h \in [0 .. 8 -> Nat] /\ h[0] = 0 /\ \A k \in 1 .. 8 : h[k] = Byte * h[k - 1] + b
  BY DEF Repeats
<1> HIDE DEF P
<1>3. 0 \in T
  <2>1. h[n] \in Nat /\ n - 0 = n /\ 0 \in 0 .. n  BY <1>2
  <2>2. b \in Nat /\ Byte \in Nat /\ Byte * 0 = 0 /\ P(0) * h[n] = h[n] /\ b * P(0) = b
    <3>1. b \in Nat /\ Byte \in Nat /\ Byte * 0 = 0  BY SetGiven
    <3>2. 1 * h[n] = h[n] /\ b * 1 = b  BY <2>1, <3>1
    <3> QED  BY <1>1, <3>1, <3>2
  <2>3. h[0] < P(0) /\ h[n] = P(0) * h[n - 0] + h[0] /\ b * P(0) + h[0] = Byte * h[0] + b
    <3>1. h[0] = 0 /\ P(0) = 1 /\ n - 0 = n  BY <1>1, <1>2, <2>1
    <3>2. h[0] < P(0)  BY <3>1
    <3>3. h[n] = P(0) * h[n - 0] + h[0]  BY <2>1, <2>2, <3>1
    <3>4. b * P(0) + h[0] = Byte * h[0] + b  BY <2>2, <3>1
    <3> QED  BY <3>2, <3>3, <3>4
  <2>4. Split(0)  BY <2>3
  <2> HIDE DEF Split
  <2> QED  BY <2>1, <2>4
<1>4. ASSUME NEW k \in 1 .. n, k - 1 \in T PROVE k \in T
  <2> DEFINE p == P(k - 1)  x == h[k - 1]  y == h[n - k]
  <2>1. /\ k \in 1 .. 8 /\ k - 1 \in 0 .. 8 /\ n - k \in 0 .. 8 /\ n - (k - 1) \in 1 .. 8
        /\ (n - (k - 1)) - 1 = n - k
    OBVIOUS
  <2>2. p \in Nat /\ x \in Nat /\ y \in Nat /\ Byte \in Nat /\ b \in Nat /\ b <= Byte - 1
    <3>1. Byte \in Nat /\ b \in Nat /\ b <= Byte - 1  BY SetGiven
    <3>2. p \in Nat /\ x \in Nat /\ y \in Nat  BY <1>1, <1>2, <2>1
    <3> QED  BY <3>1, <3>2
  <2>3. /\ P(k) = Byte * p /\ h[k] = Byte * x + b /\ h[n - (k - 1)] = Byte * y + b
    BY <1>1, <1>2, <2>1
  <2>4. x < p /\ h[n] = p * h[n - (k - 1)] + x /\ b * p + x = Byte * x + b
    BY <1>4
  <2> HIDE DEF p, x, y
  <2>5. Byte * x <= Byte * (p - 1)
    BY <2>2, <2>4
  <2>6. h[k] < P(k)
    BY <2>2, <2>3, <2>4, <2>5
  <2>7. h[n] = p * (Byte * y + b) + x
    BY <2>3, <2>4
  <2>8. p * (Byte * y + b) = (Byte * p) * y + b * p
    BY <2>2
  <2>9. h[n] = P(k) * y + h[k]
    BY <2>2, <2>3, <2>4, <2>7, <2>8
  <2>10. b * (Byte * p) = Byte * (b * p)
    BY <2>2
  <2>11. b * p = (Byte * x + b) - x
    BY <2>2, <2>4
  <2>12. Byte * ((Byte * x + b) - x) = Byte * (Byte * x + b) - Byte * x
    BY <2>2
  <2>13. b * P(k) + h[k] = Byte * h[k] + b
    BY <2>2, <2>3, <2>10, <2>11, <2>12
  <2>14. Split(k)  BY <2>6, <2>9, <2>13 DEF y
  <2>15. k \in 0 .. n  OBVIOUS
  <2> HIDE DEF Split
  <2> QED  BY <2>14, <2>15
<1>5. \A k \in 0 .. n : k \in T
  <2> HIDE DEF T
  <2> QED  BY <1>3, <1>4, UpTo
<1>6. ASSUME NEW k \in 0 .. n
      PROVE  h[k] < Set!Power[k] /\ h[n] = Set!Power[k] * h[n - k] + h[k]
  <2>1. Split(k)
    <3> HIDE DEF Split
    <3> QED  BY <1>5
  <2> QED  BY <2>1 DEF P
<1> QED  BY <1>6

(* So each of their bytes is the one they are made of.                     *)
LEMMA EachByte ==
  ASSUME NEW b \in 0 .. Byte - 1, NEW h, Repeats(b, h), NEW n \in 1 .. 8, NEW k \in 0 .. n - 1
  PROVE  Set!ByteOf(h[n], k) = b
<1> DEFINE q == h[n - k]  r == h[k]  p == Set!Power[k]
<1>1. h[n] = p * q + r /\ r < p
  BY RepeatsSplit
<1>2. q \in Nat /\ r \in Nat /\ p \in Nat
  BY Powers DEF Repeats
<1>3. n - k \in 1 .. 8 /\ q = Byte * h[(n - k) - 1] + b /\ h[(n - k) - 1] \in Nat
  BY DEF Repeats
<1> HIDE DEF p, r
<1>4. h[n] \div p = q
  <2> HIDE DEF q
  <2>1. (p * q + r) \div p = q  BY <1>1, <1>2, DivUnique
  <2> QED  BY <1>1, <2>1
<1>5. q % Byte = b
  <2> DEFINE m == h[(n - k) - 1]
  <2>1. m \in Nat /\ q = Byte * m + b  BY <1>3
  <2> HIDE DEF m, q
  <2>2. (Byte * m + b) % Byte = b  BY <2>1, SetGiven, DivUnique
  <2> QED  BY <2>1, <2>2
<1> QED  BY <1>4, <1>5 DEF Set!ByteOf, p

(* The numbers memset stores have its byte in each of theirs.              *)
LEMMA StoredBytes ==
  ASSUME NEW v \in Nat
  PROVE  /\ Set!ByteOf(v % Byte, 0) = v % Byte
         /\ \A k \in 0 .. 3 : Set!ByteOf(Set!InEveryByte(v), k) = v % Byte
         /\ \A k \in 0 .. 7 : Set!ByteOf(Set!InBothWords(Set!InEveryByte(v)), k) = v % Byte
<1> DEFINE b == v % Byte
           P(k) == Set!Power[k]
<1>1. b \in 0 .. Byte - 1 /\ b \in Nat  BY SetGiven
<1> HIDE DEF b
<1>2. PICK h : Repeats(b, h)  BY <1>1, RepeatsExist
<1>3. h[0] = 0 /\ \A k \in 1 .. 8 : h[k - 1] \in Nat /\ h[k] = Byte * h[k - 1] + b
  BY <1>2 DEF Repeats
<1>4. h[1] = b /\ h[2] = Byte * h[1] + b /\ h[3] = Byte * h[2] + b /\ h[4] = Byte * h[3] + b
      /\ h[4] \in Nat
  <2>1. \A k \in 1 .. 8 : h[k] = Byte * h[k - 1] + b  BY <1>3
  <2>2. h[1] = Byte * 0 + b  BY <1>3, <2>1
  <2>3. h[1] = b  BY <1>1, <2>2, SetGiven
  <2>4. h[2] = Byte * h[1] + b  BY <2>1
  <2>5. h[3] = Byte * h[2] + b  BY <2>1
  <2>6. h[4] = Byte * h[3] + b  BY <2>1
  <2>7. h[5 - 1] \in Nat  BY <1>3
  <2> QED  BY <2>3, <2>4, <2>5, <2>6, <2>7
<1>5. P(0) = 1 /\ P(1) = Byte * P(0) /\ P(2) = Byte * P(1) /\ P(3) = Byte * P(2)
  BY Powers
<1>6. P(1) = Byte /\ P(2) = Byte * Byte /\ P(3) = Byte * (Byte * Byte)
  BY <1>5, SetGiven
<1>7. h[4] = Byte * (Byte * (Byte * b + b) + b) + b
  BY <1>4
<1>8. h[4] = b * (1 + Byte + P(2) + P(3))
  <2>1. Byte * (Byte * (Byte * b + b) + b) + b
        = b * (1 + Byte + Byte * Byte + Byte * (Byte * Byte))
    BY <1>1, SetGiven
  <2> QED  BY <1>6, <1>7, <2>1
<1>9. h[4] = Set!InEveryByte(v)  BY <1>8 DEF Set!InEveryByte, b
<1>10. h[8] = Set!InBothWords(h[4])
  <2>1. h[8] = P(4) * h[8 - 4] + h[4]
    <3> HIDE DEF P
    <3>1. 8 \in 0 .. 8 /\ 4 \in 0 .. 8  OBVIOUS
    <3> QED  BY <1>1, <1>2, <3>1, RepeatsSplit DEF P
  <2>2. P(4) \in Nat /\ 8 - 4 = 4  BY Powers
  <2> HIDE DEF P
  <2>3. P(4) * h[4] + h[4] = h[4] * (1 + P(4))  BY <1>4, <2>2
  <2> QED  BY <2>1, <2>2, <2>3 DEF Set!InBothWords, P
<1>11. \A k \in 0 .. 3 : Set!ByteOf(h[4], k) = b
  <2>1. 4 \in 1 .. 8 /\ \A k \in 0 .. 3 : k \in 0 .. 4 - 1  OBVIOUS
  <2> QED  BY <1>1, <1>2, <2>1, EachByte
<1>12. \A k \in 0 .. 7 : Set!ByteOf(h[8], k) = b
  <2>1. 8 \in 1 .. 8 /\ \A k \in 0 .. 7 : k \in 0 .. 8 - 1  OBVIOUS
  <2> QED  BY <1>1, <1>2, <2>1, EachByte
<1>13. Set!ByteOf(h[1], 0) = b
  <2>1. 1 \in 1 .. 8 /\ 0 \in 0 .. 1 - 1  OBVIOUS
  <2> QED  BY <1>1, <1>2, <2>1, EachByte
<1> QED  BY <1>4, <1>9, <1>10, <1>11, <1>12, <1>13 DEF b

(* The bytes of the memory from lo to before hi are stored.                *)
Covered(lo, hi) == \A a \in DOMAIN l3 : lo <= a /\ a < hi => l3[a] # Unused

(* What has been stored: the ends of the area first, then the words at     *)
(* both ends of what is aligned, then long words from its front.           *)
SetInv ==
  LET p == params.p  Stop == params.p + params.n
      start == l1  left == l2
  IN  /\ Set!TypeOK /\ Set!OnlyTheArea /\ Set!Aligned
      /\ place = "bytes" => start = p
      /\ place = "align" =>
           params.n >= 9 /\ start = p /\ Covered(p, p + 4) /\ Covered(Stop - 4, Stop)
      /\ place \in {"words", "skip", "longs"} =>
           /\ left % 4 = 0 /\ start + left <= Stop /\ Stop <= start + left + 3
           /\ Covered(p, start)
      /\ place = "words" => start % 4 = 0 /\ left >= 4 /\ Covered(Stop - 4, Stop)
      /\ place = "skip" =>
           /\ start % 4 = 0 /\ left >= 28
           /\ Covered(start, start + 28) /\ Covered((start + left) - 28, Stop)
      /\ place = "longs" =>
           start % 8 = 0 /\ left >= 32 /\ Covered((start + left) - 28, Stop)
      /\ place = "done" => Covered(p, Stop)

LEMMA SetCallTypes ==
  ASSUME Set!TypeOK
  PROVE  /\ params.p \in Nat /\ params.v \in Nat /\ params.n \in Nat
         /\ params.p + params.n <= SetBytes
         /\ Set!LowByte = params.v % Byte /\ Set!LowByte \in 0 .. Byte - 1
         /\ Set!LowByte # Unused
<1>1. params \in SetCalls  BY DEF Set!TypeOK
<1>2. params.v % Byte \in 0 .. Byte - 1  BY <1>1, SetGiven
<1> QED  BY <1>1, <1>2, SetGiven DEF Set!LowByte

(* A store inside the area of numbers with the byte asked for: what was    *)
(* stored stays, what is stored is that byte.                              *)
LEMMA StoreKeeps ==
  ASSUME Set!TypeOK, Set!OnlyTheArea, NEW spots, spots \subseteq Int, NEW size \in Nat, NEW number,
         \A k \in 0 .. size - 1 : Set!ByteOf(number, k) = Set!LowByte,
         \A b \in spots : params.p <= b /\ b + size <= params.p + params.n,
         Set!Store(spots, size, number), params' = params
  PROVE  /\ l3' \in [0 .. SetBytes - 1 -> 0 .. Byte - 1 \cup {Unused}]
         /\ Set!OnlyTheArea'
         /\ \A a \in 0 .. SetBytes - 1 : l3[a] # Unused => l3'[a] # Unused
         /\ \A a \in 0 .. SetBytes - 1, b \in spots : b <= a /\ a < b + size => l3'[a] # Unused
         /\ l4' = (l4 /\ \A b \in spots : b % size = 0)
<1> DEFINE Memory == 0 .. SetBytes - 1
           Hit(a) == {b \in spots : a \in b .. b + size - 1}
           Stored(a) == Set!ByteOf(number, a - (CHOOSE b \in Hit(a) : TRUE))
<1>1. /\ l3 \in [Memory -> 0 .. Byte - 1 \cup {Unused}]
      /\ l3' = [a \in Memory |-> IF Hit(a) = {} THEN l3[a] ELSE Stored(a)]
  <2>1. l3 \in [Memory -> 0 .. Byte - 1 \cup {Unused}]  BY DEF Set!TypeOK
  <2>2. DOMAIN l3 = Memory  BY <2>1
  <2>3. l3' = [a \in DOMAIN l3 |-> IF Hit(a) = {} THEN l3[a] ELSE Stored(a)]
    BY Zenon DEF Set!Store
  <2> HIDE DEF Hit, Stored
  <2> QED  BY <2>1, <2>2, <2>3
<1>2. /\ Set!LowByte \in 0 .. Byte - 1 /\ Set!LowByte # Unused
      /\ params.p \in Nat /\ params.n \in Nat
  BY SetCallTypes
<1>3. ASSUME NEW a \in Memory, Hit(a) # {}
      PROVE  l3'[a] = Set!LowByte /\ a \in params.p .. (params.p + params.n) - 1
  <2> DEFINE b == CHOOSE b \in Hit(a) : TRUE
  <2>1. b \in Hit(a)  BY <1>3
  <2> HIDE DEF b
  <2>2. b \in Int /\ b <= a /\ a < b + size /\ params.p <= b /\ b + size <= params.p + params.n
    BY <2>1
  <2>3. a - b \in 0 .. size - 1  BY <2>2
  <2>4. Stored(a) = Set!LowByte  BY <2>3 DEF b
  <2> QED  BY <1>1, <1>2, <1>3, <2>2, <2>4
<1>4. ASSUME NEW a \in Memory, Hit(a) = {} PROVE l3'[a] = l3[a]
  BY <1>1, <1>4
<1>5. DOMAIN l3' = Memory /\ DOMAIN l3 = Memory  BY <1>1
<1>6. ASSUME NEW a \in Memory, NEW b \in spots, b <= a, a < b + size PROVE Hit(a) # {}
  <2>1. b \in Int /\ a \in Int  OBVIOUS
  <2>2. a \in b .. b + size - 1  BY <1>6, <2>1
  <2> QED  BY <2>2
<1> HIDE DEF Hit, Stored
<1>7. l3' \in [Memory -> 0 .. Byte - 1 \cup {Unused}]
  <2>1. \A a \in Memory : l3'[a] \in 0 .. Byte - 1 \cup {Unused}
    BY <1>1, <1>2, <1>3, <1>4
  <2>2. l3' = [a \in Memory |-> l3'[a]]  BY <1>1
  <2> QED  BY <2>1, <2>2
<1>8. Set!OnlyTheArea'
  <2>1. Set!LowByte' = Set!LowByte  BY DEF Set!LowByte
  <2>2. \A a \in Memory : l3[a] # Unused =>
           l3[a] = Set!LowByte /\ a \in params.p .. (params.p + params.n) - 1
    BY <1>5 DEF Set!OnlyTheArea, Set!End
  <2>3. \A a \in Memory : l3'[a] # Unused =>
           l3'[a] = Set!LowByte /\ a \in params.p .. (params.p + params.n) - 1
    BY <1>3, <1>4, <2>2
  <2> QED  BY <1>5, <2>1, <2>3 DEF Set!OnlyTheArea, Set!End
<1>9. l4' = (l4 /\ \A b \in spots : b % size = 0)
  BY DEF Set!Store
<1>10. \A a \in Memory : l3[a] # Unused => l3'[a] # Unused
  BY <1>2, <1>3, <1>4
<1>11. \A a \in Memory, b \in spots : b <= a /\ a < b + size => l3'[a] # Unused
  BY <1>2, <1>3, <1>6
<1> QED  BY <1>7, <1>8, <1>9, <1>10, <1>11

LEMMA SetStarts == Set!Init => SetInv
<1> SUFFICES ASSUME Set!Init PROVE SetInv  OBVIOUS
<1>1. /\ params \in SetCalls /\ place = "bytes" /\ l1 = params.p /\ l2 = params.n
      /\ l4 = TRUE /\ l3 = [a \in 0 .. SetBytes - 1 |-> Unused]
  BY DEF Set!Init
<1>2. params.p \in Nat /\ params.n \in Nat  BY <1>1, SetGiven
<1>3. Set!TypeOK  BY <1>1, <1>2 DEF Set!TypeOK, Set!End
<1>4. Set!OnlyTheArea  BY <1>1 DEF Set!OnlyTheArea
<1> QED  BY <1>1, <1>3, <1>4 DEF SetInv, Set!Aligned

(* Every byte is stored where it was, and where something was stored.      *)
Keeps == \A a \in 0 .. SetBytes - 1 : l3[a] # Unused => l3'[a] # Unused
Stores(lo, hi) == \A a \in 0 .. SetBytes - 1 : lo <= a /\ a < hi => l3'[a] # Unused

LEMMA Goes ==
  ASSUME SetInv, Keeps \/ l3' = l3, NEW lo, NEW hi, Covered(lo, hi)
  PROVE  Stores(lo, hi)
<1>1. DOMAIN l3 = 0 .. SetBytes - 1  BY DEF SetInv, Set!TypeOK
<1> QED  BY <1>1 DEF Keeps, Covered, Stores

LEMMA EdgeBytesKeeps == SetInv /\ Set!EdgeBytes => SetInv'
<1> SUFFICES ASSUME SetInv, Set!EdgeBytes PROVE SetInv'  OBVIOUS
<1> DEFINE p == params.p  n == params.n  Stop == params.p + params.n
           spots == (IF n >= 1 THEN {p, Stop - 1} ELSE {}) \cup
                 (IF n >= 3 THEN {p + 1, p + 2, Stop - 3, Stop - 2} ELSE {}) \cup
                 (IF n >= 7 THEN {p + 3, Stop - 4} ELSE {})
<1>1. /\ Set!TypeOK /\ Set!OnlyTheArea /\ l4 = TRUE /\ l1 = p
      /\ params' = params /\ l1' = l1 /\ l2' = l2
  BY DEF SetInv, Set!Aligned, Set!EdgeBytes
<1>2. /\ p \in Nat /\ n \in Nat /\ params.v \in Nat
      /\ Set!LowByte = params.v % Byte
  BY <1>1, SetCallTypes
<1>3. Set!Store(spots, 1, Set!LowByte) /\ place' = IF n < 9 THEN "done" ELSE "align"
  <2>1. Set!Store(spots, 1, Set!LowByte)  BY Zenon DEF Set!EdgeBytes, Set!End
  <2>2. place' = IF n < 9 THEN "done" ELSE "align"  BY DEF Set!EdgeBytes
  <2> QED  BY <2>1, <2>2
<1> HIDE DEF p, n
<1>4. \A b \in spots : b \in Int /\ p <= b /\ b + 1 <= Stop /\ b % 1 = 0
  BY <1>2 DEF p, n
<1>5. \A k \in 0 .. 1 - 1 : Set!ByteOf(Set!LowByte, k) = Set!LowByte
  <2>1. \A k \in 0 .. 1 - 1 : k = 0  OBVIOUS
  <2> QED  BY <1>2, <2>1, StoredBytes
<1>6. spots \subseteq Int  BY <1>4
<1> HIDE DEF spots
<1>7. /\ l3' \in [0 .. SetBytes - 1 -> 0 .. Byte - 1 \cup {Unused}]
      /\ Set!OnlyTheArea' /\ l4' = TRUE
      /\ \A a \in 0 .. SetBytes - 1, b \in spots : b <= a /\ a < b + 1 => l3'[a] # Unused
  BY <1>1, <1>3, <1>4, <1>5, <1>6, StoreKeeps DEF p, n
<1>8. \A a \in 0 .. SetBytes - 1 : a \in spots => l3'[a] # Unused
  BY <1>7
<1>9. /\ n >= 1 => p \in spots /\ Stop - 1 \in spots
      /\ n >= 3 => p + 1 \in spots /\ p + 2 \in spots /\ Stop - 3 \in spots /\ Stop - 2 \in spots
      /\ n >= 7 => p + 3 \in spots /\ Stop - 4 \in spots
  BY DEF spots
<1>10. n \in Nat /\ Stop = p + n /\ p \in Nat  BY <1>2 DEF p, n
<1> HIDE DEF Stop
<1>13. n < 9 => Stores(p, Stop)
  <2> SUFFICES ASSUME n < 9, NEW a \in 0 .. SetBytes - 1, p <= a, a < Stop
               PROVE  l3'[a] # Unused
    BY DEF Stores
  <2>1. a \in Int /\ n >= 1  BY <1>10
  <2>2. \/ a = p \/ a = Stop - 1
        \/ n >= 3 /\ (a = p + 1 \/ a = p + 2 \/ a = Stop - 3 \/ a = Stop - 2)
        \/ n >= 7 /\ (a = p + 3 \/ a = Stop - 4)
    BY <1>10, <2>1
  <2>3. a \in spots  BY <1>9, <2>1, <2>2
  <2> QED  BY <1>8, <2>3
<1>14. n >= 9 => Stores(p, p + 4) /\ Stores(Stop - 4, Stop)
  <2> SUFFICES ASSUME n >= 9, NEW a \in 0 .. SetBytes - 1,
                      (p <= a /\ a < p + 4) \/ (Stop - 4 <= a /\ a < Stop)
               PROVE  l3'[a] # Unused
    BY DEF Stores
  <2>1. a \in Int  OBVIOUS
  <2>2. \/ a = p \/ a = p + 1 \/ a = p + 2 \/ a = p + 3
        \/ a = Stop - 4 \/ a = Stop - 3 \/ a = Stop - 2 \/ a = Stop - 1
    BY <1>10, <2>1
  <2>3. n >= 1 /\ n >= 3 /\ n >= 7  BY <1>10
  <2>4. a \in spots  BY <1>9, <2>2, <2>3
  <2> QED  BY <1>8, <2>4
<1>11. Set!TypeOK'
  BY <1>1, <1>3, <1>7 DEF Set!TypeOK, Set!End
<1>12. DOMAIN l3' = 0 .. SetBytes - 1  BY <1>7
<1> QED
  BY <1>1, <1>2, <1>3, <1>7, <1>10, <1>11, <1>12, <1>13, <1>14
  DEF SetInv, Covered, Stores, Set!Aligned, p, n, Stop

(* The whole words from the first aligned address on.                      *)
LEMMA WholeWords ==
  ASSUME NEW p \in Nat, NEW n \in Nat, n >= 9, NEW skip \in 0 .. 3, (p + skip) % 4 = 0
  PROVE  LET left == (n - skip) - ((n - skip) % 4) IN
         /\ left % 4 = 0 /\ left >= 4 /\ left \in 0 .. n
         /\ (p + skip) + left <= p + n /\ p + n <= ((p + skip) + left) + 3
OBVIOUS

LEMMA AlignKeeps == SetInv /\ Set!Align => SetInv'
<1> SUFFICES ASSUME SetInv, Set!Align PROVE SetInv'  OBVIOUS
<1> DEFINE p == params.p  n == params.n  Stop == params.p + params.n
           skip == (-p) % 4
<1>1. /\ Set!TypeOK /\ Set!OnlyTheArea /\ l4 = TRUE /\ place = "align"
      /\ n >= 9 /\ Covered(p, p + 4) /\ Covered(Stop - 4, Stop)
  BY DEF SetInv, Set!Aligned, Set!Align
<1>2. /\ params' = params /\ place' = "words" /\ l3' = l3 /\ l4' = l4
      /\ l1' = p + skip /\ l2' = (n - skip) - ((n - skip) % 4)
  BY DEF Set!Align, Set!Word
<1>3. p \in Nat /\ n \in Nat  BY <1>1, SetCallTypes
<1>4. skip \in 0 .. 3 /\ (p + skip) % 4 = 0  BY <1>3
<1>5. DOMAIN l3 = 0 .. SetBytes - 1  BY <1>1 DEF Set!TypeOK
<1> HIDE DEF p, n, skip
<1>6. /\ l2' % 4 = 0 /\ l2' >= 4 /\ l2' \in 0 .. n
      /\ l1' + l2' <= p + n /\ p + n <= (l1' + l2') + 3
  BY <1>1, <1>2, <1>3, <1>4, WholeWords
<1>7. l1' \in p .. p + n /\ l1' % 4 = 0 /\ l1' < p + 4
  BY <1>1, <1>2, <1>3, <1>4
<1>8. Set!TypeOK'
  BY <1>1, <1>2, <1>6, <1>7 DEF Set!TypeOK, Set!End, p, n
<1>9. Set!OnlyTheArea'
  BY <1>1, <1>2 DEF Set!OnlyTheArea, Set!LowByte, Set!End
<1>10. \A a \in DOMAIN l3 : p <= a /\ a < l1' => l3'[a] # Unused
  <2> SUFFICES ASSUME NEW a \in DOMAIN l3, p <= a, a < l1' PROVE l3'[a] # Unused  OBVIOUS
  <2>1. a \in Int  BY <1>5
  <2>2. a < p + 4  BY <1>3, <1>7, <2>1
  <2> QED  BY <1>1, <1>2, <2>2 DEF Covered
<1>11. \A a \in DOMAIN l3 : Stop - 4 <= a /\ a < Stop => l3'[a] # Unused
  BY <1>1, <1>2 DEF Covered
<1> QED
  BY <1>1, <1>2, <1>6, <1>7, <1>8, <1>9, <1>10, <1>11 DEF SetInv, Covered, Set!Aligned, p, n

(* What a store of these numbers leaves of the invariant.                  *)
LEMMA WordsStored ==
  ASSUME SetInv, NEW spots, NEW size \in {4, 8}, NEW number,
         \/ size = 4 /\ number = Set!InEveryByte(params.v)
         \/ size = 8 /\ number = Set!InBothWords(Set!InEveryByte(params.v)),
         Set!Store(spots, size, number), params' = params,
         \A b \in spots : b \in Int /\ params.p <= b /\ b + size <= params.p + params.n
                       /\ b % size = 0
  PROVE  /\ l3' \in [0 .. SetBytes - 1 -> 0 .. Byte - 1 \cup {Unused}]
         /\ Set!OnlyTheArea' /\ l4' = TRUE /\ Keeps
         /\ \A b \in spots : Stores(b, b + size)
<1>1. /\ Set!TypeOK /\ Set!OnlyTheArea /\ l4 = TRUE  BY DEF SetInv, Set!Aligned
<1>2. params.v \in Nat /\ Set!LowByte = params.v % Byte  BY <1>1, SetCallTypes
<1>3. \A k \in 0 .. size - 1 : Set!ByteOf(number, k) = Set!LowByte
  <2>1. CASE size = 4
    <3>1. number = Set!InEveryByte(params.v)  BY <2>1
    <3>2. 0 .. size - 1 = 0 .. 3  BY <2>1
    <3> QED  BY <1>2, <3>1, <3>2, StoredBytes
  <2>2. CASE size = 8
    <3>1. number = Set!InBothWords(Set!InEveryByte(params.v))  BY <2>2
    <3>2. 0 .. size - 1 = 0 .. 7  BY <2>2
    <3> QED  BY <1>2, <3>1, <3>2, StoredBytes
  <2> QED  BY <2>1, <2>2
<1>4. spots \subseteq Int /\ size \in Nat  OBVIOUS
<1>5. /\ l3' \in [0 .. SetBytes - 1 -> 0 .. Byte - 1 \cup {Unused}]
      /\ Set!OnlyTheArea'
      /\ \A a \in 0 .. SetBytes - 1 : l3[a] # Unused => l3'[a] # Unused
      /\ \A a \in 0 .. SetBytes - 1, b \in spots : b <= a /\ a < b + size => l3'[a] # Unused
      /\ l4' = (l4 /\ \A b \in spots : b % size = 0)
  BY <1>1, <1>3, <1>4, StoreKeeps
<1> QED  BY <1>1, <1>5 DEF Keeps, Stores

(* Areas that are stored one after the other are stored.                   *)
LEMMA StoresJoin ==
  ASSUME NEW lo \in Int, NEW mid \in Int, NEW hi \in Int, NEW low \in Int,
         Stores(lo, mid), Stores(low, hi), low <= mid
  PROVE  Stores(lo, hi)
<1> SUFFICES ASSUME NEW a \in 0 .. SetBytes - 1, lo <= a, a < hi PROVE l3'[a] # Unused
  BY DEF Stores
<1>1. a \in Int  OBVIOUS
<1>2. a < mid \/ low <= a  BY <1>1
<1> QED  BY <1>2 DEF Stores

LEMMA EdgeWordsKeeps == SetInv /\ Set!EdgeWords => SetInv'
<1> SUFFICES ASSUME SetInv, Set!EdgeWords PROVE SetInv'  OBVIOUS
<1> DEFINE p == params.p  n == params.n  Stop == params.p + params.n
           from(k) == l1 + k  upto(k) == l1 + l2 - k
           spots == {from(0), upto(4)} \cup
                 (IF l2 >= 9 THEN {from(4), from(8), upto(8), upto(12)} ELSE {}) \cup
                 (IF l2 >= 25 THEN {from(k) : k \in {12, 16, 20, 24}} \cup
                                   {upto(k) : k \in {16, 20, 24, 28}} ELSE {})
           number == Set!InEveryByte(params.v)
<1>1. /\ Set!TypeOK /\ place = "words"
      /\ l2 % 4 = 0 /\ l1 + l2 <= Stop /\ Stop <= l1 + l2 + 3 /\ l1 % 4 = 0 /\ l2 >= 4
      /\ Covered(p, l1) /\ Covered(Stop - 4, Stop)
  BY DEF SetInv, Set!EdgeWords
<1>2. /\ Set!Store(spots, 4, number)
      /\ params' = params /\ l1' = l1 /\ l2' = l2
      /\ place' = IF l2 < 25 THEN "done" ELSE "skip"
  <2>1. Set!Store(spots, 4, number)  BY Zenon DEF Set!EdgeWords, Set!Word
  <2> HIDE DEF spots, number
  <2> QED  BY <2>1 DEF Set!EdgeWords
<1>3. /\ p \in Nat /\ n \in Nat /\ l1 \in Nat /\ l2 \in Nat /\ p <= l1
      /\ l1 <= Stop /\ l2 <= n /\ Stop \in Nat
  <2>1. p \in Nat /\ n \in Nat  BY <1>1, SetCallTypes
  <2> QED  BY <1>1, <2>1 DEF Set!TypeOK, Set!End
<1> DEFINE top == l1 + l2
<1>4. top \in Nat /\ top % 4 = 0 /\ l1 <= top - 4 /\ top <= Stop /\ Stop <= top + 3
  BY <1>1, <1>3
<1>23. from(0) = l1 /\ \A k \in Nat : from(k) = l1 + k /\ upto(k) = top - k
  BY <1>3
<1> HIDE DEF top
<1> DEFINE four == {12, 16, 20, 24}  tops == {16, 20, 24, 28}
           first == {from(0), upto(4)}
           second == IF l2 >= 9 THEN {from(4), from(8), upto(8), upto(12)} ELSE {}
           third == IF l2 >= 25 THEN {from(k) : k \in four} \cup {upto(k) : k \in tops} ELSE {}
<1>24. first = {l1, top - 4}
  BY <1>23
<1>25. second = IF l2 >= 9 THEN {l1 + 4, l1 + 8, top - 8, top - 12} ELSE {}
  BY <1>23
<1>26. third = IF l2 >= 25 THEN {l1 + k : k \in four} \cup {top - k : k \in tops} ELSE {}
  <2>1. \A k \in four : from(k) = l1 + k  BY <1>23
  <2>2. \A k \in tops : upto(k) = top - k  BY <1>23
  <2> HIDE DEF from, upto, four, tops
  <2> QED  BY <2>1, <2>2
<1>27. spots = first \cup (second \cup third)
  <2>1. spots = (first \cup second) \cup third
    <3> HIDE DEF from, upto
    <3> QED  BY Zenon DEF spots, first, second, third, four, tops
  <2> HIDE DEF spots, first, second, third
  <2> QED  BY <2>1
<1> HIDE DEF spots, number, first, second, third, from, upto
<1>28. /\ l1 \in first /\ top - 4 \in first
       /\ \A b \in first : b = l1 \/ b = top - 4
  BY <1>24
<1>29. /\ l2 >= 9 => /\ l1 + 4 \in second /\ l1 + 8 \in second
                     /\ top - 8 \in second /\ top - 12 \in second
       /\ \A b \in second :
            l2 >= 9 /\ (b = l1 + 4 \/ b = l1 + 8 \/ b = top - 8 \/ b = top - 12)
  BY <1>25
<1>30. /\ l2 >= 25 =>
            /\ l1 + 12 \in third /\ l1 + 16 \in third /\ l1 + 20 \in third /\ l1 + 24 \in third
            /\ top - 16 \in third /\ top - 20 \in third /\ top - 24 \in third
            /\ top - 28 \in third
       /\ \A b \in third :
            l2 >= 25 /\ (b = l1 + 12 \/ b = l1 + 16 \/ b = l1 + 20 \/ b = l1 + 24
                         \/ b = top - 16 \/ b = top - 20 \/ b = top - 24 \/ b = top - 28)
  BY <1>26
<1> HIDE DEF four, tops
<1>5. /\ l1 \in spots /\ top - 4 \in spots
      /\ l2 >= 9 => l1 + 4 \in spots /\ l1 + 8 \in spots /\ top - 8 \in spots /\ top - 12 \in spots
      /\ l2 >= 25 =>
           /\ l1 + 12 \in spots /\ l1 + 16 \in spots /\ l1 + 20 \in spots /\ l1 + 24 \in spots
           /\ top - 16 \in spots /\ top - 20 \in spots /\ top - 24 \in spots /\ top - 28 \in spots
  BY <1>27, <1>28, <1>29, <1>30
<1>6. ASSUME NEW b \in spots
      PROVE  \/ b = l1 \/ b = top - 4
             \/ l2 >= 9 /\ (b = l1 + 4 \/ b = l1 + 8 \/ b = top - 8 \/ b = top - 12)
             \/ l2 >= 25 /\ (b = l1 + 12 \/ b = l1 + 16 \/ b = l1 + 20 \/ b = l1 + 24
                             \/ b = top - 16 \/ b = top - 20 \/ b = top - 24 \/ b = top - 28)
  <2>1. b \in first \/ b \in second \/ b \in third  BY <1>6, <1>27
  <2> QED  BY <1>28, <1>29, <1>30, <2>1
<1>7. l2 >= 9 => l2 >= 12
  BY <1>1, <1>3
<1>8. l2 >= 25 => l2 >= 28
  BY <1>1, <1>3
<1>9. \A b \in spots : b \in Int /\ b >= l1 /\ b + 4 <= top /\ b % 4 = 0
  <2> SUFFICES ASSUME NEW b \in spots
               PROVE  b \in Int /\ b >= l1 /\ b + 4 <= top /\ b % 4 = 0
    OBVIOUS
  <2>1. top = l1 + l2  BY DEF top
  <2>2. b \in Int /\ b >= l1 /\ b + 4 <= top
    <3> QED  BY <1>3, <1>4, <1>6, <1>7, <1>8, <2>1
  <2>3. b % 4 = 0
    <3> QED  BY <1>1, <1>3, <1>4, <1>6
  <2> QED  BY <2>2, <2>3
<1>10. /\ l3' \in [0 .. SetBytes - 1 -> 0 .. Byte - 1 \cup {Unused}]
       /\ Set!OnlyTheArea' /\ l4' = TRUE /\ Keeps
       /\ \A b \in spots : Stores(b, b + 4)
  <2>1. \A b \in spots : b \in Int /\ p <= b /\ b + 4 <= params.p + params.n /\ b % 4 = 0
    BY <1>3, <1>4, <1>9
  <2>2. number = Set!InEveryByte(params.v)  BY DEF number
  <2> QED  BY <1>2, <2>1, <2>2, WordsStored
<1>11. Stores(p, l1) /\ Stores(Stop - 4, Stop)
  BY <1>1, <1>10, Goes
<1>12. \A b \in spots, a \in 0 .. SetBytes - 1 : b <= a /\ a < b + 4 => l3'[a] # Unused
  BY <1>10 DEF Stores
<1>13. top = l1 + l2  BY DEF top
<1>14. l2 < 25 => Stores(p, Stop)
  <2> SUFFICES ASSUME l2 < 25, NEW a \in 0 .. SetBytes - 1, p <= a, a < Stop
               PROVE  l3'[a] # Unused
    BY DEF Stores
  <2>1. a \in Int  OBVIOUS
  <2>2. CASE a < l1  BY <1>11, <2>2 DEF Stores
  <2>3. CASE Stop - 4 <= a  BY <1>11, <2>3 DEF Stores
  <2>4. CASE l1 <= a /\ a < Stop - 4
    <3>1. a < top  BY <1>3, <1>4, <2>1, <2>4
    <3>2. \/ l1 <= a /\ a < l1 + 4
          \/ top - 4 <= a /\ a < (top - 4) + 4
          \/ l2 >= 9 /\ l1 + 4 <= a /\ a < (l1 + 4) + 4
          \/ l2 >= 9 /\ l1 + 8 <= a /\ a < (l1 + 8) + 4
          \/ l2 >= 9 /\ top - 8 <= a /\ a < (top - 8) + 4
          \/ l2 >= 9 /\ top - 12 <= a /\ a < (top - 12) + 4
      BY <1>1, <1>3, <1>13, <2>1, <2>4, <3>1
    <3> QED  BY <1>5, <1>12, <3>2
  <2> QED  BY <1>3, <2>1, <2>2, <2>3, <2>4
<1>15. l2 >= 25 => Stores(l1, l1 + 28) /\ Stores(top - 28, Stop)
  <2> SUFFICES ASSUME l2 >= 25, NEW a \in 0 .. SetBytes - 1,
                      (l1 <= a /\ a < l1 + 28) \/ (top - 28 <= a /\ a < Stop)
               PROVE  l3'[a] # Unused
    BY DEF Stores
  <2>1. a \in Int  OBVIOUS
  <2>2. CASE Stop - 4 <= a /\ a < Stop  BY <1>11, <2>2 DEF Stores
  <2>3. CASE ~ (Stop - 4 <= a /\ a < Stop)
    <3>1. (l1 <= a /\ a < l1 + 28) \/ (top - 28 <= a /\ a < top)
      BY <1>3, <1>4, <2>1, <2>3
    <3>2. \/ l1 <= a /\ a < l1 + 4
          \/ l1 + 4 <= a /\ a < (l1 + 4) + 4
          \/ l1 + 8 <= a /\ a < (l1 + 8) + 4
          \/ l1 + 12 <= a /\ a < (l1 + 12) + 4
          \/ l1 + 16 <= a /\ a < (l1 + 16) + 4
          \/ l1 + 20 <= a /\ a < (l1 + 20) + 4
          \/ l1 + 24 <= a /\ a < (l1 + 24) + 4
          \/ top - 4 <= a /\ a < (top - 4) + 4
          \/ top - 8 <= a /\ a < (top - 8) + 4
          \/ top - 12 <= a /\ a < (top - 12) + 4
          \/ top - 16 <= a /\ a < (top - 16) + 4
          \/ top - 20 <= a /\ a < (top - 20) + 4
          \/ top - 24 <= a /\ a < (top - 24) + 4
          \/ top - 28 <= a /\ a < (top - 28) + 4
      BY <1>3, <1>4, <2>1, <3>1
    <3>3. l2 >= 9  BY <1>3
    <3> QED  BY <1>5, <1>12, <3>2, <3>3
  <2> QED  BY <2>2, <2>3
<1>16. Set!TypeOK'
  BY <1>1, <1>2, <1>10 DEF Set!TypeOK, Set!End
<1>17. DOMAIN l3' = 0 .. SetBytes - 1  BY <1>10
<1>18. l2 < 25 => place' = "done"  BY <1>2
<1>19. l2 >= 25 => place' = "skip" /\ ~ (l2 < 25)  BY <1>2, <1>3
<1>20. l2 < 25 \/ l2 >= 25  BY <1>3
<1>21. CASE l2 < 25
  BY <1>2, <1>10, <1>14, <1>16, <1>17, <1>18, <1>21
  DEF SetInv, Covered, Stores, Set!Aligned, p, n, Stop
<1>22. CASE l2 >= 25
  BY <1>1, <1>2, <1>8, <1>10, <1>11, <1>13, <1>15, <1>16, <1>17, <1>19, <1>22
  DEF SetInv, Covered, Stores, Set!Aligned, p, n, Stop
<1> QED  BY <1>20, <1>21, <1>22

LEMMA LastWords ==
  ASSUME NEW start \in Nat, NEW left \in Nat, left % 4 = 0, left < 32
  PROVE  (start + left) - 28 <= start
OBVIOUS

LEMMA SkipKeeps == SetInv /\ Set!Skip => SetInv'
<1> SUFFICES ASSUME SetInv, Set!Skip PROVE SetInv'  OBVIOUS
<1> DEFINE p == params.p  n == params.n  Stop == params.p + params.n
           k == (IF l1 % 8 >= 4 THEN 4 ELSE 0) + 24
<1>1. /\ Set!TypeOK /\ Set!OnlyTheArea /\ l4 = TRUE /\ place = "skip"
      /\ l2 % 4 = 0 /\ l1 + l2 <= Stop /\ Stop <= l1 + l2 + 3 /\ l1 % 4 = 0 /\ l2 >= 28
      /\ Covered(p, l1) /\ Covered(l1, l1 + 28) /\ Covered((l1 + l2) - 28, Stop)
  BY DEF SetInv, Set!Aligned, Set!Skip
<1>2. /\ params' = params /\ l3' = l3 /\ l4' = l4
      /\ l1' = l1 + k /\ l2' = l2 - k
      /\ place' = IF l2' < 32 THEN "done" ELSE "longs"
  BY DEF Set!Skip, Set!Word, Set!Long
<1>3. /\ p \in Nat /\ n \in Nat /\ l1 \in Nat /\ l2 \in Nat /\ p <= l1
      /\ l1 <= Stop /\ l2 <= n /\ Stop \in Nat
  <2>1. p \in Nat /\ n \in Nat  BY <1>1, SetCallTypes
  <2> QED  BY <1>1, <2>1 DEF Set!TypeOK, Set!End
<1>4. k \in {24, 28} /\ (l1 + k) % 8 = 0
  BY <1>1, <1>3
<1> HIDE DEF k
<1>5. /\ l1' \in Nat /\ l2' \in Nat /\ l1' % 8 = 0 /\ l2' % 4 = 0 /\ l1' + l2' = l1 + l2
      /\ p <= l1' /\ l1' <= l1 + 28 /\ l1' <= Stop /\ l2' <= n
  BY <1>1, <1>2, <1>3, <1>4
<1> HIDE DEF Stop
<1>6. Stores(p, l1) /\ Stores(l1, l1 + 28) /\ Stores((l1 + l2) - 28, Stop)
  BY <1>1, <1>2, Goes
<1>7. Stores(p, l1 + 28)
  BY <1>3, <1>6, StoresJoin
<1>8. Stores(p, l1')
  BY <1>3, <1>5, <1>7 DEF Stores
<1>9. l2' < 32 => Stores(p, Stop)
  <2>1. l2' < 32 => (l1 + l2) - 28 <= l1'
    <3>1. l2' < 32 => (l1' + l2') - 28 <= l1'  BY <1>5, LastWords
    <3> QED  BY <1>5, <3>1
  <2>2. (l1 + l2) - 28 \in Int /\ p \in Int /\ l1' \in Int /\ Stop \in Int  BY <1>3, <1>5
  <2> QED  BY <1>6, <1>8, <2>1, <2>2, StoresJoin
<1>10. Set!TypeOK'
  BY <1>1, <1>2, <1>3, <1>5 DEF Set!TypeOK, Set!End, Stop
<1>11. Set!OnlyTheArea'
  BY <1>1, <1>2 DEF Set!OnlyTheArea, Set!LowByte, Set!End
<1>12. DOMAIN l3' = 0 .. SetBytes - 1  BY <1>10 DEF Set!TypeOK
<1>13. l2' < 32 => place' = "done"  BY <1>2
<1>14. ~ (l2' < 32) => place' = "longs" /\ l2' >= 32  BY <1>2, <1>5
<1>15. l1' + l2' <= Stop /\ Stop <= l1' + l2' + 3 /\ (l1' + l2') - 28 = (l1 + l2) - 28
  BY <1>1, <1>3, <1>5 DEF Stop
<1>16. CASE l2' < 32
  BY <1>1, <1>2, <1>9, <1>10, <1>11, <1>12, <1>13, <1>16
  DEF SetInv, Covered, Stores, Set!Aligned, Stop
<1>17. CASE ~ (l2' < 32)
  BY <1>1, <1>2, <1>5, <1>6, <1>8, <1>10, <1>11, <1>12, <1>14, <1>15, <1>17
  DEF SetInv, Covered, Stores, Set!Aligned, Stop
<1> QED  BY <1>16, <1>17

LEMMA LongsKeeps == SetInv /\ Set!Longs => SetInv'
<1> SUFFICES ASSUME SetInv, Set!Longs PROVE SetInv'  OBVIOUS
<1> DEFINE p == params.p  n == params.n  Stop == params.p + params.n
           spots == {l1 + k : k \in {0, 8, 16, 24}}
           number == Set!InBothWords(Set!InEveryByte(params.v))
<1>1. /\ Set!TypeOK /\ place = "longs"
      /\ l2 % 4 = 0 /\ l1 + l2 <= Stop /\ Stop <= l1 + l2 + 3 /\ l1 % 8 = 0 /\ l2 >= 32
      /\ Covered(p, l1) /\ Covered((l1 + l2) - 28, Stop)
  BY DEF SetInv, Set!Aligned, Set!Longs
<1>2. /\ Set!Store(spots, 8, number)
      /\ params' = params /\ l1' = l1 + 32 /\ l2' = l2 - 32
      /\ place' = IF l2' > 31 THEN "longs" ELSE "done"
  <2>1. Set!Store(spots, 8, number)  BY Zenon DEF Set!Longs, Set!Long
  <2> HIDE DEF spots, number
  <2> QED  BY <2>1 DEF Set!Longs
<1>3. /\ p \in Nat /\ n \in Nat /\ l1 \in Nat /\ l2 \in Nat /\ p <= l1
      /\ l1 <= Stop /\ l2 <= n /\ Stop \in Nat
  <2>1. p \in Nat /\ n \in Nat  BY <1>1, SetCallTypes
  <2> QED  BY <1>1, <2>1 DEF Set!TypeOK, Set!End
<1>4. l1 \in spots /\ l1 + 8 \in spots /\ l1 + 16 \in spots /\ l1 + 24 \in spots
  <2>1. l1 + 0 = l1  BY <1>3
  <2> QED  BY <2>1
<1>5. \A b \in spots : b = l1 \/ b = l1 + 8 \/ b = l1 + 16 \/ b = l1 + 24
  BY <1>3
<1> HIDE DEF spots, number
<1>6. /\ l3' \in [0 .. SetBytes - 1 -> 0 .. Byte - 1 \cup {Unused}]
      /\ Set!OnlyTheArea' /\ l4' = TRUE /\ Keeps
      /\ \A b \in spots : Stores(b, b + 8)
  <2>1. \A b \in spots : b \in Int /\ p <= b /\ b + 8 <= params.p + params.n /\ b % 8 = 0
    BY <1>1, <1>3, <1>5
  <2>2. number = Set!InBothWords(Set!InEveryByte(params.v))  BY DEF number
  <2> QED  BY <1>2, <2>1, <2>2, WordsStored
<1> HIDE DEF Stop
<1>7. Stores(p, l1) /\ Stores((l1 + l2) - 28, Stop)
  BY <1>1, <1>6, Goes
<1>8. Stores(p, l1 + 32)
  <2> SUFFICES ASSUME NEW a \in 0 .. SetBytes - 1, p <= a, a < l1 + 32 PROVE l3'[a] # Unused
    BY DEF Stores
  <2>1. a \in Int  OBVIOUS
  <2>2. \A b \in spots : b <= a /\ a < b + 8 => l3'[a] # Unused  BY <1>6 DEF Stores
  <2>3. \/ a < l1
        \/ l1 <= a /\ a < l1 + 8
        \/ l1 + 8 <= a /\ a < (l1 + 8) + 8
        \/ l1 + 16 <= a /\ a < (l1 + 16) + 8
        \/ l1 + 24 <= a /\ a < (l1 + 24) + 8
    BY <1>3, <2>1
  <2>4. a < l1 => l3'[a] # Unused  BY <1>7 DEF Stores
  <2> QED  BY <1>4, <2>2, <2>3, <2>4
<1>9. /\ l1' \in Nat /\ l2' \in Nat /\ l1' % 8 = 0 /\ l2' % 4 = 0 /\ l1' + l2' = l1 + l2
      /\ p <= l1' /\ l1' <= Stop /\ l2' <= n
  BY <1>1, <1>2, <1>3 DEF Stop
<1>10. l2' <= 31 => Stores(p, Stop)
  <2>1. l2' <= 31 => (l1 + l2) - 28 <= l1'  BY <1>2, <1>3, <1>9
  <2>2. (l1 + l2) - 28 \in Int /\ p \in Int /\ l1' \in Int /\ Stop \in Int  BY <1>3, <1>9
  <2> QED  BY <1>2, <1>7, <1>8, <2>1, <2>2, StoresJoin
<1>11. Set!TypeOK'
  BY <1>1, <1>2, <1>3, <1>6, <1>9 DEF Set!TypeOK, Set!End, Stop
<1>12. DOMAIN l3' = 0 .. SetBytes - 1  BY <1>6
<1>13. l2' > 31 => place' = "longs" /\ l2' >= 32  BY <1>2, <1>9
<1>14. ~ (l2' > 31) => place' = "done" /\ l2' <= 31  BY <1>2, <1>9
<1>15. l1' + l2' <= Stop /\ Stop <= l1' + l2' + 3 /\ (l1' + l2') - 28 = (l1 + l2) - 28
  BY <1>1, <1>3, <1>9 DEF Stop
<1>16. CASE ~ (l2' > 31)
  BY <1>1, <1>2, <1>6, <1>10, <1>11, <1>12, <1>14, <1>16
  DEF SetInv, Covered, Stores, Set!Aligned, Stop
<1>17. CASE l2' > 31
  BY <1>1, <1>2, <1>6, <1>7, <1>8, <1>9, <1>11, <1>12, <1>13, <1>15, <1>17
  DEF SetInv, Covered, Stores, Set!Aligned, Stop
<1> QED  BY <1>16, <1>17

LEMMA SetStep == SetInv /\ [Set!Next]_(Set!vars) => SetInv'
<1> SUFFICES ASSUME SetInv, [Set!Next]_(Set!vars) PROVE SetInv'  OBVIOUS
<1>1. CASE UNCHANGED Set!vars
  <2>1. /\ params' = params /\ place' = place /\ l1' = l1 /\ l2' = l2 /\ l3' = l3 /\ l4' = l4
    BY <1>1 DEF Set!vars
  <2> QED
    BY <2>1 DEF SetInv, Covered, Set!TypeOK, Set!OnlyTheArea, Set!Aligned, Set!LowByte, Set!End
<1> QED
  BY <1>1, EdgeBytesKeeps, AlignKeeps, EdgeWordsKeeps, SkipKeeps, LongsKeeps DEF Set!Next

LEMMA SetTells ==
  SetInv => Set!TypeOK /\ Set!OnlyTheArea /\ Set!AllOfTheArea /\ Set!Aligned
<1> SUFFICES ASSUME SetInv
             PROVE  Set!TypeOK /\ Set!OnlyTheArea /\ Set!AllOfTheArea /\ Set!Aligned
  OBVIOUS
<1>1. Set!TypeOK /\ Set!OnlyTheArea /\ Set!Aligned  BY DEF SetInv
<1>2. ASSUME place = "done", NEW a \in params.p .. (params.p + params.n) - 1
      PROVE  l3[a] # Unused
  <2>1. /\ params.p \in Nat /\ params.n \in Nat /\ params.p + params.n <= SetBytes
    BY <1>1, SetCallTypes
  <2>2. DOMAIN l3 = 0 .. SetBytes - 1  BY <1>1 DEF Set!TypeOK
  <2>3. a \in DOMAIN l3 /\ params.p <= a /\ a < params.p + params.n
    BY <2>1, <2>2, SetGiven
  <2>4. Covered(params.p, params.p + params.n)  BY <1>2 DEF SetInv
  <2> QED  BY <2>3, <2>4 DEF Covered
<1>3. Set!AllOfTheArea  BY <1>2 DEF Set!AllOfTheArea, Set!End
<1> QED  BY <1>1, <1>3
-----------------------------------------------------------------------------
(***************************************************************************)
(* memchr.                                                                 *)
(***************************************************************************)
LEMMA ChrGiven ==
  /\ Byte \in Nat /\ Byte > 1
  /\ \A x, y \in 0 .. Byte - 1 :
       ChrXor[x][y] \in 0 .. Byte - 1 /\ (ChrXor[x][y] = 0 <=> x = y)
BY LibraryAssumption DEF Chr!MemchrAssumption

LEMMA ChrCallTypes ==
  ASSUME params \in ChrCalls, l3 \in Memories
  PROVE  /\ params.p \in Nat /\ params.p > 0 /\ params.k \in 0 .. Byte - 1 /\ params.n \in Nat
         /\ \A a \in params.p .. (params.p + params.n) - 1 : l3[a] \in 0 .. Byte - 1
<1>1. /\ params.p \in Nat \ {0} /\ params.k \in 0 .. Byte - 1 /\ params.n \in Nat
      /\ \A m \in Memories : \A a \in params.p .. params.p + params.n - 1 : m[a] \in 0 .. Byte - 1
  BY LibraryAssumption DEF Chr!MemchrAssumption
<1>2. params.p + params.n - 1 = (params.p + params.n) - 1  BY <1>1
<1> QED  BY <1>1, <1>2

(* A number is divided.                                                    *)
LEMMA Divided ==
  ASSUME NEW y \in Int, NEW m \in Nat, m > 0
  PROVE  y \div m \in Int /\ y = m * (y \div m) + (y % m) /\ y % m \in 0 .. m - 1
<1> DEFINE q == y \div m  r == y % m
<1>1. m \in Nat /\ m > 0 /\ y \in Int  OBVIOUS
<1>2. q \in Int /\ r \in 0 .. m - 1 /\ y = m * q + r  BY <1>1
<1> QED  BY <1>2

(* Below the digit d at the place p there is lo, above it t.               *)
MadeOf(y, lo, p, d, b, t) == y = lo + p * (d + b * t)

(* The digit of a number, whatever is above it.                            *)
LEMMA DigitOf ==
  ASSUME NEW b \in Nat, b > 0, NEW p \in Nat, p > 0,
         NEW y \in Nat, NEW lo \in 0 .. p - 1, NEW d \in 0 .. b - 1, NEW t \in Int,
         MadeOf(y, lo, p, d, b, t)
  PROVE  (y \div p) % b = d
<1> DEFINE u == d + b * t
<1>1. y = lo + p * u  BY DEF MadeOf
<1>2. t >= 0
  <2>1. CASE t < 0
    <3>1. b * t <= -b  BY <2>1
    <3>2. u <= -1  BY <3>1
    <3>3. p * u <= -p
      <4>1. u \in Int  OBVIOUS
      <4> HIDE DEF u
      <4> QED  BY <3>2, <4>1
    <3> QED  BY <1>1, <3>3
  <2> QED  BY <2>1
<1>3. b * t \in Nat  BY <1>2
<1>4. u \in Nat  BY <1>3
<1>5. u % b = d
  <2>1. u = b * t + d  BY <1>3
  <2>2. t \in Nat  BY <1>2
  <2> HIDE DEF u
  <2> QED  BY <2>1, <2>2, DivUnique
<1>6. y = p * u + lo
  <2>1. p * u \in Nat  BY <1>4
  <2> QED  BY <1>1, <2>1
<1> HIDE DEF u
<1>7. y \div p = u  BY <1>4, <1>6, DivUnique
<1> QED  BY <1>5, <1>7

(* The same of its remainder by a higher place.                            *)
LEMMA DigitOfRest ==
  ASSUME NEW b \in Nat, b > 0, NEW p \in Nat, p > 0, NEW q \in Nat, q > 0,
         NEW y \in Int, NEW lo \in 0 .. p - 1, NEW d \in 0 .. b - 1, NEW t \in Int,
         MadeOf(y, lo, p, d, b, t)
  PROVE  ((y % (p * b * q)) \div p) % b = d
<1> DEFINE m == p * b * q
<1>1. m \in Nat /\ m > 0
  <2> DEFINE pb == p * b
  <2>1. pb \in Nat /\ pb > 0  OBVIOUS
  <2> HIDE DEF pb
  <2>2. pb * q \in Nat /\ pb * q > 0  BY <2>1
  <2> QED  BY <2>2 DEF pb
<1> DEFINE k == y \div m  z == y % m  s == t - q * k
<1>2. k \in Int /\ y = m * k + z /\ z \in 0 .. m - 1
  <2> HIDE DEF m
  <2> QED  BY <1>1, Divided
<1>3. z \in Nat /\ k \in Int
  <2> HIDE DEF m, k, z
  <2> QED  BY <1>1, <1>2
<1> HIDE DEF k, z
<1>4. s \in Int  BY <1>3
<1>5. MadeOf(z, lo, p, d, b, s)
  <2>1. p * (d + b * s) = p * (d + b * t) - m * k  BY <1>3
  <2> DEFINE up == p * (d + b * t)  mk == m * k
  <2>2. up \in Int  OBVIOUS
  <2>3. mk \in Int
    <3> HIDE DEF m
    <3> QED  BY <1>1, <1>3
  <2>4. y = lo + up /\ y = mk + z  BY <1>2 DEF MadeOf
  <2>5. p * (d + b * s) = up - mk  BY <2>1
  <2> HIDE DEF m, s, up, mk
  <2>6. z = lo + (up - mk)  BY <1>3, <2>2, <2>3, <2>4
  <2> QED  BY <2>5, <2>6 DEF MadeOf
<1> HIDE DEF m, s
<1>6. (z \div p) % b = d  BY <1>3, <1>4, <1>5, DigitOf
<1> QED  BY <1>6 DEF m, z

(* A word of four bytes.                                                    *)
WordOf(x1, x2, x3, x4) ==
  x1 + x2 * Byte + x3 * (Byte * Byte) + x4 * (Byte * Byte * Byte)

LEMMA PlacesOfBytes ==
  /\ Chr!Place[1] = 1 /\ Chr!Place[2] = Byte
  /\ Chr!Place[3] = Byte * Byte /\ Chr!Place[4] = Byte * Byte * Byte
BY DEF Chr!Place

(* The lowest byte that is zero is so in the word and in what it is taken   *)
(* from: no borrow reaches it, or the borrow of the byte below takes the    *)
(* one of the constant.                                                     *)
LEMMA ZeroIsSeen ==
  ASSUME NEW x1 \in 0 .. Byte - 1, NEW x2 \in 0 .. Byte - 1,
         NEW x3 \in 0 .. Byte - 1, NEW x4 \in 0 .. Byte - 1,
         x1 = 0 \/ x2 = 0 \/ x3 = 0 \/ x4 = 0
  PROVE  Chr!HasZero(WordOf(x1, x2, x3, x4))
<1> DEFINE b == Byte  b2 == b * b  b3 == b * b * b
           w == WordOf(x1, x2, x3, x4)
           v == (b + b2 + b3) - w
<1>1. b \in Nat /\ b > 1  BY ChrGiven
<1>2. b2 \in Nat /\ b2 > 0 /\ b3 \in Nat /\ b3 > 0 /\ b3 = b2 * b
  <2> HIDE DEF b
  <2>1. b2 \in Nat /\ b2 > 0  BY <1>1
  <2>2. b3 = b2 * b  BY <1>1
  <2> HIDE DEF b2
  <2>3. b2 * b \in Nat /\ b2 * b > 0  BY <1>1, <2>1
  <2> QED  BY <2>1, <2>2, <2>3
<1>3. w \in Nat
  <2> DEFINE y2 == x2 * b  y3 == x3 * b2  y4 == x4 * b3
  <2>1. y2 \in Nat /\ y3 \in Nat /\ y4 \in Nat
    <3> HIDE DEF b2, b3
    <3> QED  BY <1>1, <1>2
  <2>2. w = x1 + y2 + y3 + y4  BY DEF WordOf
  <2> HIDE DEF w, y2, y3, y4
  <2> QED  BY <1>1, <2>1, <2>2
<1>4. v \in Int
  <2> HIDE DEF w, b, b2, b3
  <2> QED  BY <1>1, <1>2, <1>3
<1>5. x1 \in Int /\ x2 \in Int /\ x3 \in Int /\ x4 \in Int  BY <1>1
<1>6. w = x1 + x2 * b + x3 * b2 + x4 * b3  BY DEF WordOf
(* What shows that the byte at k is zero in both.                            *)
<1>7. ASSUME NEW k \in 1 .. 4, NEW p \in Nat, p > 0, NEW q \in Nat, q > 0,
             Chr!Place[k] = p, p * b * q = b * b3,
             NEW lo \in 0 .. p - 1, NEW t \in Int, MadeOf(w, lo, p, 0, b, t),
             NEW low \in 0 .. p - 1, NEW top \in Int, MadeOf(v, low, p, 0, b, top)
      PROVE  Chr!HasZero(w)
  <2>1. 0 \in 0 .. b - 1  BY <1>1
  <2> HIDE DEF v, w, b, b2, b3
  <2>2. (w \div p) % b = 0  BY <1>1, <1>3, <1>7, <2>1, DigitOf
  <2>3. ((v % (p * b * q)) \div p) % b = 0
    <3>1. b \in Nat /\ b > 0  BY <1>1
    <3> QED  BY <1>4, <1>7, <2>1, <3>1, DigitOfRest, Zenon
  <2>4. ((v % (b * b3)) \div p) % b = 0  BY <1>7, <2>3
  <2>5. Chr!Taken(w) = v % (b * b3)
    <3>1. Chr!Taken(w) = (b + b2 + (b3 - w)) % (b * b3)
      BY PlacesOfBytes DEF Chr!Taken, b, b2, b3
    <3>2. b + b2 + (b3 - w) = v  BY <1>1, <1>2, <1>3 DEF v
    <3> QED  BY <3>1, <3>2
  <2>6. ~ (0 >= b \div 2)
    <3>1. b \div 2 >= 1  BY <1>1
    <3> QED  BY <1>1, <3>1
  <2>7. ~ Chr!IsHigh(w, k)  BY <1>7, <2>2, <2>6 DEF Chr!IsHigh, b
  <2>8. ~ Chr!IsHigh(Chr!Taken(w), k)  BY <1>7, <2>4, <2>5, <2>6 DEF Chr!IsHigh, b
  <2> QED  BY <2>7, <2>8 DEF Chr!HasZero, Chr!Word
<1>8. v = (b + b2 + b3) - (x1 + x2 * b + x3 * b2 + x4 * b3)  BY <1>6
<1>9. /\ Chr!Place[1] = 1 /\ Chr!Place[2] = b /\ Chr!Place[3] = b2 /\ Chr!Place[4] = b3
  BY PlacesOfBytes
<1> SUFFICES Chr!HasZero(w)  OBVIOUS
<1> HIDE DEF v, w
<1>10. CASE x1 = 0
  <2> DEFINE t == x2 + x3 * b + x4 * b2
             top == (1 - x2) + (1 - x3) * b + (1 - x4) * b2
  <2>1. t \in Int /\ top \in Int
    <3> HIDE DEF b2
    <3> QED  BY <1>1, <1>2, <1>5
  <2>2. MadeOf(w, 0, 1, 0, b, t)  BY <1>1, <1>5, <1>6, <1>10 DEF MadeOf
  <2>3. MadeOf(v, 0, 1, 0, b, top)  BY <1>1, <1>5, <1>8, <1>10 DEF MadeOf
  <2>4. 1 * b * b3 = b * b3  BY <1>1, <1>2
  <2>5. 1 \in Nat /\ 1 > 0 /\ 1 \in 1 .. 4 /\ 0 \in 0 .. 1 - 1  OBVIOUS
  <2> HIDE DEF t, top, b, b2, b3
  <2> QED  BY <1>2, <1>7, <1>9, <2>1, <2>2, <2>3, <2>4, <2>5, Zenon
<1>11. CASE x1 # 0 /\ x2 = 0
  <2> DEFINE t == x3 + x4 * b
             top == (1 - x3) + (1 - x4) * b
             low == b - x1
  <2>1. t \in Int /\ top \in Int  BY <1>1, <1>5
  <2>2. MadeOf(w, x1, b, 0, b, t)  BY <1>1, <1>5, <1>6, <1>11 DEF MadeOf
  <2>3. MadeOf(v, low, b, 0, b, top)  BY <1>1, <1>5, <1>8, <1>11 DEF MadeOf
  <2>4. b * b * b2 = b * b3  BY <1>1
  <2>5. 2 \in 1 .. 4 /\ b > 0 /\ x1 \in 0 .. b - 1 /\ low \in 0 .. b - 1  BY <1>1, <1>11
  <2> HIDE DEF t, top, low, b, b2, b3
  <2> QED  BY <1>1, <1>2, <1>7, <1>9, <2>1, <2>2, <2>3, <2>4, <2>5, Zenon
<1>12. CASE x1 # 0 /\ x2 # 0 /\ x3 = 0
  <2> DEFINE lo == x1 + x2 * b
             low == (b - x1) + (b - x2) * b
             top == 1 - x4
  <2>1. x4 \in Int /\ top \in Int  BY <1>1, <1>5
  <2>2. MadeOf(w, lo, b2, 0, b, x4)  BY <1>1, <1>5, <1>6, <1>12 DEF MadeOf
  <2>3. MadeOf(v, low, b2, 0, b, top)  BY <1>1, <1>5, <1>8, <1>12 DEF MadeOf
  <2>4. b2 * b * b = b * b3  BY <1>1
  <2>5. lo \in 0 .. b2 - 1 /\ low \in 0 .. b2 - 1
    <3>1. x2 * b >= 0 /\ x2 * b <= (b - 1) * b  BY <1>1
    <3>2. (b - x2) * b >= 0 /\ (b - x2) * b <= (b - 1) * b  BY <1>1, <1>12
    <3> QED  BY <1>1, <1>12, <3>1, <3>2
  <2> HIDE DEF lo, top, low, b, b2, b3
  <2> QED  BY <1>1, <1>2, <1>7, <1>9, <2>1, <2>2, <2>3, <2>4, <2>5
<1>13. CASE x1 # 0 /\ x2 # 0 /\ x3 # 0 /\ x4 = 0
  <2> DEFINE lo == x1 + x2 * b + x3 * b2
             low == (b - x1) + (b - x2) * b + (b - x3) * b2
  <2>1. MadeOf(w, lo, b3, 0, b, 0)  BY <1>1, <1>5, <1>6, <1>13 DEF MadeOf
  <2>2. MadeOf(v, low, b3, 0, b, 0)  BY <1>1, <1>5, <1>8, <1>13 DEF MadeOf
  <2>3. b3 * b * 1 = b * b3  BY <1>1
  <2>4. lo \in 0 .. b3 - 1 /\ low \in 0 .. b3 - 1
    <3>1. x2 * b >= 0 /\ x2 * b <= (b - 1) * b  BY <1>1
    <3>2. (b - x2) * b >= 0 /\ (b - x2) * b <= (b - 1) * b  BY <1>1, <1>13
    <3>3. x3 * b2 >= 0 /\ x3 * b2 <= (b - 1) * b2
      <4>1. x3 \in Nat /\ x3 <= b - 1  BY <1>1
      <4> HIDE DEF b, b2
      <4> QED  BY <1>1, <1>2, <4>1
    <3>4. (b - x3) * b2 >= 0 /\ (b - x3) * b2 <= (b - 1) * b2
      <4>1. b - x3 \in Nat /\ b - x3 <= b - 1  BY <1>1, <1>13
      <4> DEFINE c == b - x3
      <4> HIDE DEF b, b2, c
      <4> QED  BY <1>1, <1>2, <4>1 DEF c
    <3> QED  BY <1>1, <1>13, <3>1, <3>2, <3>3, <3>4
  <2>5. 0 \in Int /\ 1 \in Nat /\ 1 > 0 /\ 4 \in 1 .. 4  OBVIOUS
  <2> HIDE DEF lo, low, b, b2, b3
  <2> QED  BY <1>1, <1>2, <1>7, <1>9, <2>1, <2>2, <2>3, <2>4, <2>5
<1> QED  BY <1>10, <1>11, <1>12, <1>13

(* Nothing that was passed over is the byte sought, there is something     *)
(* left where one goes on looking, and the call ends at the byte or with    *)
(* nothing left.                                                           *)
ChrInv ==
  /\ Chr!TypeOK /\ Chr!ReadsInside
  /\ place # "done" => answer = 0
  /\ place \in {"head", "bytes"} => l2 # 0
  /\ place = "words" => l2 >= 4
  /\ \A a \in params.p .. l1 - 1 : l3[a] # params.k
  /\ place = "done" =>
       \/ answer = 0 /\ l2 = 0
       \/ answer = l1 /\ l2 # 0 /\ l3[l1] = params.k

LEMMA ChrStarts == Chr!Init => ChrInv
<1> SUFFICES ASSUME Chr!Init PROVE ChrInv  OBVIOUS
<1>1. /\ params \in ChrCalls /\ l3 \in Memories /\ place = "enter"
      /\ l1 = params.p /\ l2 = params.n /\ l4 = {} /\ answer = 0
  BY DEF Chr!Init
<1>2. params.p \in Nat /\ params.n \in Nat  BY <1>1, ChrCallTypes
<1> QED  BY <1>1, <1>2 DEF ChrInv, Chr!TypeOK, Chr!ReadsInside

LEMMA ChrTypes ==
  ASSUME ChrInv
  PROVE  /\ params \in ChrCalls /\ l3 \in Memories
         /\ params.p \in Nat /\ params.p > 0 /\ params.k \in 0 .. Byte - 1 /\ params.n \in Nat
         /\ l1 \in Nat /\ l2 \in Nat /\ l1 >= params.p /\ l1 = params.p + (params.n - l2)
         /\ \A a \in params.p .. (params.p + params.n) - 1 : l3[a] \in 0 .. Byte - 1
         /\ l4 \subseteq params.p .. (params.p + params.n) - 1
<1>1. /\ params \in ChrCalls /\ l3 \in Memories
      /\ l2 \in 0 .. params.n /\ l1 = params.p + (params.n - l2)
      /\ answer \in {0} \cup params.p .. l1
  BY DEF ChrInv, Chr!TypeOK
<1>2. /\ params.p \in Nat /\ params.p > 0 /\ params.k \in 0 .. Byte - 1 /\ params.n \in Nat
      /\ \A a \in params.p .. (params.p + params.n) - 1 : l3[a] \in 0 .. Byte - 1
  BY <1>1, ChrCallTypes
<1>3. l4 \subseteq params.p .. params.p + params.n - 1  BY DEF ChrInv, Chr!ReadsInside
<1>4. params.p + params.n - 1 = (params.p + params.n) - 1  BY <1>2
<1> QED  BY <1>1, <1>2, <1>3, <1>4

(* A step reads bytes that are still to be looked at, and goes on behind    *)
(* some of them that are not the byte sought.                               *)
LEMMA ChrGoesOn ==
  ASSUME ChrInv, NEW k \in Nat, NEW j \in Nat, j <= k, k <= l2,
         params' = params, l3' = l3, l1' = l1 + j, l2' = l2 - j, Chr!Reads(k),
         \A a \in l1 .. (l1 + j) - 1 : l3[a] # params.k,
         place' \in {"head", "aligned", "words", "bytes", "done"},
         answer' \in {0, l1'}, place' # "done" => answer' = 0,
         place' \in {"head", "bytes"} => l2' # 0,
         place' = "words" => l2' >= 4,
         place' = "done" => \/ answer' = 0 /\ l2' = 0
                            \/ answer' = l1' /\ l2' # 0 /\ l3[l1'] = params.k
  PROVE  ChrInv'
<1> DEFINE first == params.p  len == params.n
<1>1. /\ params \in ChrCalls /\ l3 \in Memories
      /\ first \in Nat /\ first > 0 /\ len \in Nat
      /\ l1 \in Nat /\ l2 \in Nat /\ l1 >= first /\ l1 + l2 = first + len
      /\ l4 \subseteq first .. (first + len) - 1
  BY ChrTypes
<1>2. params'.p = first /\ params'.n = len /\ params'.k = params.k  OBVIOUS
<1>3. \A a \in first .. l1 - 1 : l3[a] # params.k  BY DEF ChrInv
<1>4. l4' = l4 \cup l1 .. l1 + k - 1  BY DEF Chr!Reads
<1> HIDE DEF first, len
<1>5. l1' \in Nat /\ l1' >= first /\ l2' \in 0 .. len /\ l1' = first + (len - l2')
  BY <1>1
<1>6. answer' \in {0} \cup first .. l1'  BY <1>1, <1>5
<1>7. Chr!TypeOK'
  <2>1. place' \in {"enter", "head", "aligned", "words", "bytes", "done"}  OBVIOUS
  <2> QED  BY <1>1, <1>2, <1>5, <1>6, <2>1 DEF Chr!TypeOK
<1>8. Chr!ReadsInside'
  <2>1. l1 .. l1 + k - 1 \subseteq first .. first + len - 1  BY <1>1
  <2>2. l4 \subseteq first .. first + len - 1  BY <1>1
  <2> QED  BY <1>2, <1>4, <2>1, <2>2 DEF Chr!ReadsInside
<1>9. \A a \in first .. l1' - 1 : l3[a] # params.k
  <2>1. TAKE a \in first .. l1' - 1
  <2>2. a \in first .. l1 - 1 \/ a \in l1 .. (l1 + j) - 1  BY <1>1, <2>1
  <2> QED  BY <1>3, <2>2
<1>10. \A a \in params'.p .. l1' - 1 : l3'[a] # params'.k  BY <1>2, <1>9
<1>11. place' = "done" => \/ answer' = 0 /\ l2' = 0
                          \/ answer' = l1' /\ l2' # 0 /\ l3'[l1'] = params'.k
  BY <1>2
<1> QED  BY <1>7, <1>8, <1>10, <1>11 DEF ChrInv

LEMMA EnterKeeps == ChrInv /\ Chr!Enter => ChrInv'
<1> SUFFICES ASSUME ChrInv, Chr!Enter PROVE ChrInv'  OBVIOUS
<1>1. /\ place = "enter" /\ place' = IF l1 % 4 # 0 /\ l2 # 0 THEN "head" ELSE "aligned"
      /\ params' = params /\ l3' = l3 /\ l1' = l1 /\ l2' = l2 /\ l4' = l4 /\ answer' = answer
  BY DEF Chr!Enter, Chr!Word
<1>2. place' = "head" => l2 # 0  BY <1>1
<1>3. place' \in {"head", "aligned"}  BY <1>1
<1>4. Chr!TypeOK'  BY <1>1, <1>3 DEF ChrInv, Chr!TypeOK
<1>5. Chr!ReadsInside'  BY <1>1 DEF ChrInv, Chr!ReadsInside
<1>6. place' # "done" /\ place' # "words" /\ place' # "bytes"  BY <1>3
<1> QED  BY <1>1, <1>2, <1>3, <1>4, <1>5, <1>6 DEF ChrInv

LEMMA HeadKeeps == ChrInv /\ Chr!Head => ChrInv'
<1> SUFFICES ASSUME ChrInv, Chr!Head PROVE ChrInv'  OBVIOUS
<1>1. /\ place = "head" /\ Chr!Reads(1)
      /\ params' = params /\ l3' = l3 /\ answer' = answer
  BY DEF Chr!Head
<1>2. l1 \in Nat /\ l2 \in Nat /\ l2 # 0 /\ answer = 0  BY <1>1, ChrTypes DEF ChrInv
<1>3. CASE l3[l1] = params.k
  <2>1. place' = "bytes" /\ l1' = l1 /\ l2' = l2  BY <1>3 DEF Chr!Head
  <2>2. l1' = l1 + 0 /\ l2' = l2 - 0 /\ 0 <= 1 /\ 1 <= l2  BY <1>2, <2>1
  <2>3. \A a \in l1 .. (l1 + 0) - 1 : l3[a] # params.k  BY <1>2
  <2>4. answer' \in {0, l1'} /\ answer' = 0 /\ l2' # 0  BY <1>1, <1>2, <2>1
  <2> QED  BY <1>1, <2>1, <2>2, <2>3, <2>4, ChrGoesOn
<1>4. CASE l3[l1] # params.k
  <2>1. /\ l1' = l1 + 1 /\ l2' = l2 - 1
        /\ place' = IF l1' % 4 = 0 \/ l2' = 0 THEN "aligned" ELSE "head"
    BY <1>4 DEF Chr!Head, Chr!Skip, Chr!Word
  <2>2. 1 <= l2  BY <1>2
  <2>3. \A a \in l1 .. (l1 + 1) - 1 : l3[a] # params.k
    <3>1. l1 .. (l1 + 1) - 1 = {l1}  BY <1>2
    <3> QED  BY <1>4, <3>1
  <2>4. place' \in {"aligned", "head"} /\ (place' = "head" => l2' # 0)  BY <2>1
  <2>5. answer' \in {0, l1'} /\ answer' = 0  BY <1>1, <1>2
  <2> QED  BY <1>1, <2>1, <2>2, <2>3, <2>4, <2>5, ChrGoesOn
<1> QED  BY <1>3, <1>4

LEMMA AlignedKeeps == ChrInv /\ Chr!Aligned => ChrInv'
<1> SUFFICES ASSUME ChrInv, Chr!Aligned PROVE ChrInv'  OBVIOUS
<1>1. /\ place = "aligned" /\ params' = params /\ l3' = l3 /\ l1' = l1 /\ l2' = l2
  BY DEF Chr!Aligned
<1>2. l1 \in Nat /\ l2 \in Nat /\ answer = 0  BY <1>1, ChrTypes DEF ChrInv
<1>3. l1' = l1 + 0 /\ l2' = l2 - 0 /\ \A a \in l1 .. (l1 + 0) - 1 : l3[a] # params.k
  BY <1>1, <1>2
<1>4. CASE l2 = 0
  <2>1. place' = "done" /\ answer' = 0 /\ l4' = l4
    BY <1>4 DEF Chr!Aligned, Chr!Return
  <2>2. Chr!Reads(0)
    <3>1. l1 .. l1 + 0 - 1 = {}  BY <1>2
    <3> QED  BY <2>1, <3>1 DEF Chr!Reads
  <2>3. 0 <= 0 /\ 0 <= l2 /\ l2' = 0 /\ answer' \in {0, l1'}  BY <1>1, <1>2, <1>4, <2>1
  <2> QED  BY <1>1, <1>3, <2>1, <2>2, <2>3, ChrGoesOn
<1>5. CASE l2 # 0
  <2>1. /\ Chr!Reads(1) /\ answer' = answer
        /\ place' = IF l3[l1] = params.k \/ l2 < 4 THEN "bytes" ELSE "words"
    BY <1>5 DEF Chr!Aligned, Chr!Word
  <2>2. 0 <= 1 /\ 1 <= l2 /\ answer' \in {0, l1'} /\ answer' = 0 /\ l2' # 0
    BY <1>1, <1>2, <1>5, <2>1
  <2>3. place' \in {"bytes", "words"} /\ (place' = "words" => l2' >= 4)
    BY <1>1, <1>2, <2>1
  <2> QED  BY <1>1, <1>3, <2>1, <2>2, <2>3, ChrGoesOn
<1> QED  BY <1>4, <1>5

LEMMA WordsKeeps == ChrInv /\ Chr!Words => ChrInv'
<1> SUFFICES ASSUME ChrInv, Chr!Words PROVE ChrInv'  OBVIOUS
<1>1. place = "words" /\ Chr!Reads(4) /\ params' = params /\ l3' = l3
  BY DEF Chr!Words, Chr!Word
<1>2. /\ l1 \in Nat /\ l2 \in Nat /\ l2 >= 4 /\ answer = 0
      /\ params.p \in Nat /\ params.n \in Nat /\ params.k \in 0 .. Byte - 1
      /\ l1 >= params.p /\ l1 + l2 = params.p + params.n
      /\ \A a \in params.p .. (params.p + params.n) - 1 : l3[a] \in 0 .. Byte - 1
  BY <1>1, ChrTypes DEF ChrInv
<1>3. 4 <= l2  BY <1>2
<1>4. CASE Chr!HasZero(Chr!Difference(l1))
  <2>1. place' = "bytes" /\ l1' = l1 /\ l2' = l2 /\ answer' = answer
    BY <1>4 DEF Chr!Words
  <2>2. l1' = l1 + 0 /\ l2' = l2 - 0 /\ 0 <= 4 /\ 4 \in Nat  BY <1>2, <2>1
  <2>3. \A a \in l1 .. (l1 + 0) - 1 : l3[a] # params.k  BY <1>2
  <2>4. answer' \in {0, l1'} /\ answer' = 0 /\ l2' # 0  BY <1>2, <2>1
  <2> QED  BY <1>1, <1>3, <2>1, <2>2, <2>3, <2>4, ChrGoesOn
<1>5. CASE ~ Chr!HasZero(Chr!Difference(l1))
  <2>1. /\ l1' = l1 + 4 /\ l2' = l2 - 4
        /\ IF l2' >= 4 THEN place' = "words" /\ answer' = answer
           ELSE IF l2' = 0 THEN place' = "done" /\ answer' = 0
           ELSE place' = "bytes" /\ answer' = answer
    BY <1>5 DEF Chr!Words, Chr!Skip, Chr!Return, Chr!Word
  <2> DEFINE x(i) == ChrXor[l3[l1 + i]][params.k]
  <2>2. \A i \in 0 .. 3 : /\ l3[l1 + i] \in 0 .. Byte - 1
                          /\ x(i) \in 0 .. Byte - 1
                          /\ x(i) = 0 <=> l3[l1 + i] = params.k
    <3>1. TAKE i \in 0 .. 3
    <3>2. l1 + i \in params.p .. (params.p + params.n) - 1  BY <1>2
    <3>3. l3[l1 + i] \in 0 .. Byte - 1  BY <1>2, <3>2
    <3> QED  BY <1>2, <3>3, ChrGiven
  <2>3. Chr!Difference(l1) = WordOf(x(0), x(1), x(2), x(3))
    BY PlacesOfBytes DEF Chr!Difference, WordOf
  <2>4. \A i \in 0 .. 3 : x(i) # 0
    <3>1. x(0) \in 0 .. Byte - 1 /\ x(1) \in 0 .. Byte - 1
          /\ x(2) \in 0 .. Byte - 1 /\ x(3) \in 0 .. Byte - 1
      BY <2>2
    <3> HIDE DEF x
    <3>2. ~ (x(0) = 0 \/ x(1) = 0 \/ x(2) = 0 \/ x(3) = 0)
      BY <1>5, <2>3, <3>1, ZeroIsSeen
    <3>3. 0 .. 3 = {0, 1, 2, 3}  OBVIOUS
    <3> QED  BY <3>2, <3>3
  <2>5. \A a \in l1 .. (l1 + 4) - 1 : l3[a] # params.k
    <3>1. TAKE a \in l1 .. (l1 + 4) - 1
    <3>2. PICK i \in 0 .. 3 : a = l1 + i
      <4>1. a - l1 \in 0 .. 3 /\ a = l1 + (a - l1)  BY <1>2
      <4> QED  BY <4>1
    <3> QED  BY <2>2, <2>4, <3>2
  <2>6. place' \in {"words", "done", "bytes"} /\ answer' = 0  BY <1>2, <2>1
  <2>7. /\ place' = "words" => l2' >= 4
        /\ place' = "bytes" => l2' # 0
        /\ place' = "done" => answer' = 0 /\ l2' = 0
        /\ answer' \in {0, l1'}
    BY <2>1, <2>6
  <2>8. 4 \in Nat /\ 4 <= 4  OBVIOUS
  <2> QED  BY <1>1, <1>3, <2>1, <2>5, <2>6, <2>7, <2>8, ChrGoesOn
<1> QED  BY <1>4, <1>5

LEMMA BytesKeeps == ChrInv /\ Chr!Bytes => ChrInv'
<1> SUFFICES ASSUME ChrInv, Chr!Bytes PROVE ChrInv'  OBVIOUS
<1>1. /\ place = "bytes" /\ Chr!Reads(1) /\ params' = params /\ l3' = l3
  BY DEF Chr!Bytes
<1>2. l1 \in Nat /\ l2 \in Nat /\ l2 # 0 /\ answer = 0  BY <1>1, ChrTypes DEF ChrInv
<1>3. CASE l3[l1] = params.k
  <2>1. place' = "done" /\ answer' = l1 /\ l1' = l1 /\ l2' = l2
    BY <1>3 DEF Chr!Bytes, Chr!Return
  <2>2. l1' = l1 + 0 /\ l2' = l2 - 0 /\ 0 <= 1 /\ 1 <= l2  BY <1>2, <2>1
  <2>3. \A a \in l1 .. (l1 + 0) - 1 : l3[a] # params.k  BY <1>2
  <2>4. answer' \in {0, l1'} /\ l2' # 0 /\ l3[l1'] = params.k  BY <1>2, <1>3, <2>1
  <2> QED  BY <1>1, <2>1, <2>2, <2>3, <2>4, ChrGoesOn
<1>4. CASE l3[l1] # params.k
  <2>1. /\ l1' = l1 + 1 /\ l2' = l2 - 1
        /\ IF l2' = 0 THEN place' = "done" /\ answer' = 0
           ELSE place' = place /\ answer' = answer
    BY <1>4 DEF Chr!Bytes, Chr!Skip, Chr!Return
  <2>2. 1 <= l2  BY <1>2
  <2>3. \A a \in l1 .. (l1 + 1) - 1 : l3[a] # params.k
    <3>1. l1 .. (l1 + 1) - 1 = {l1}  BY <1>2
    <3> QED  BY <1>4, <3>1
  <2>4. place' \in {"done", "bytes"} /\ answer' = 0 /\ answer' \in {0, l1'}
    BY <1>1, <1>2, <2>1
  <2>5. /\ place' = "bytes" => l2' # 0
        /\ place' = "done" => l2' = 0
    BY <1>1, <2>1
  <2> QED  BY <1>1, <2>1, <2>2, <2>3, <2>4, <2>5, ChrGoesOn
<1> QED  BY <1>3, <1>4

LEMMA ChrStep == ChrInv /\ [Chr!Next]_(Chr!vars) => ChrInv'
<1> SUFFICES ASSUME ChrInv, [Chr!Next]_(Chr!vars) PROVE ChrInv'  OBVIOUS
<1>1. CASE UNCHANGED Chr!vars
  <2>1. /\ params' = params /\ place' = place /\ answer' = answer
        /\ l1' = l1 /\ l2' = l2 /\ l3' = l3 /\ l4' = l4
    BY <1>1 DEF Chr!vars
  <2> QED  BY <2>1 DEF ChrInv, Chr!TypeOK, Chr!ReadsInside
<1> QED
  BY <1>1, EnterKeeps, HeadKeeps, AlignedKeeps, WordsKeeps, BytesKeeps DEF Chr!Next

LEMMA ChrTells ==
  ChrInv => Chr!TypeOK /\ Chr!ReadsInside /\ Chr!Found /\ Chr!LengthBounded
<1> SUFFICES ASSUME ChrInv
             PROVE  Chr!TypeOK /\ Chr!ReadsInside /\ Chr!Found /\ Chr!LengthBounded
  OBVIOUS
<1> DEFINE first == params.p  len == params.n
           places == {a \in first .. first + len - 1 : l3[a] = params.k}
<1>1. /\ first \in Nat /\ first > 0 /\ len \in Nat /\ l1 \in Nat /\ l2 \in Nat
      /\ l1 >= first /\ l1 + l2 = first + len
  BY ChrTypes
<1>2. \A a \in first .. l1 - 1 : l3[a] # params.k  BY DEF ChrInv
<1>3. place = "done" => \/ answer = 0 /\ l2 = 0
                        \/ answer = l1 /\ l2 # 0 /\ l3[l1] = params.k
  BY DEF ChrInv
<1>4. Chr!Found
  <2> SUFFICES ASSUME place = "done"
               PROVE  IF places = {} THEN answer = 0
                      ELSE answer \in places /\ \A a \in places : answer <= a
    BY DEF Chr!Found
  <2>1. \A a \in places : a \in Int /\ a >= l1
    BY <1>1, <1>2
  <2>2. CASE answer = 0 /\ l2 = 0
    <3>1. places = {}  BY <1>1, <2>1, <2>2
    <3> QED  BY <2>2, <3>1
  <2>3. CASE answer = l1 /\ l2 # 0 /\ l3[l1] = params.k
    <3>1. l1 \in places  BY <1>1, <2>3
    <3> QED  BY <2>1, <2>3, <3>1
  <2> QED  BY <1>3, <2>2, <2>3
<1>5. Chr!LengthBounded
  <2> SUFFICES ASSUME place = "done", params.k = 0
               PROVE  /\ Chr!Strnlen \in 0 .. len
                      /\ \A i \in 0 .. Chr!Strnlen - 1 : l3[first + i] # 0
    BY DEF Chr!LengthBounded
  <2>1. Chr!Strnlen = l1 - first /\ l1 - first \in 0 .. len
    BY <1>1, <1>3 DEF Chr!Strnlen
  <2>2. \A i \in 0 .. (l1 - first) - 1 : l3[first + i] # 0
    <3>1. TAKE i \in 0 .. (l1 - first) - 1
    <3>2. first + i \in first .. l1 - 1  BY <1>1
    <3> QED  BY <1>2, <3>2
  <2> QED  BY <2>1, <2>2
<1> QED  BY <1>4, <1>5 DEF ChrInv
-----------------------------------------------------------------------------
(***************************************************************************)
(* The stream.                                                             *)
(***************************************************************************)
OutputChars == {"c", "nl", "no"}

LEMMA StdGiven ==
  /\ Size \in Nat /\ Size > 0 /\ Fd \in Nat /\ Fd # 0
  /\ Texts \subseteq Seq(Seq(OutputChars))
BY LibraryAssumption DEF Std!StdioAssumption, OutputChars

(* The pieces of a text one after the other.                               *)
Joined(text, h) ==
  /\ h \in [0 .. Len(text) -> Seq(OutputChars)]
  /\ h[0] = <<>>
  /\ \A i \in 1 .. Len(text) : h[i] = h[i - 1] \o text[i]

LEMMA EmptyJoin ==
  ASSUME NEW s \in Seq(OutputChars)
  PROVE  <<>> \o s = s
OBVIOUS

LEMMA PieceTypes ==
  ASSUME NEW text \in Seq(Seq(OutputChars))
  PROVE  Len(text) \in Nat /\ \A i \in 1 .. Len(text) : text[i] \in Seq(OutputChars)
OBVIOUS

LEMMA JoinedIsFlat ==
  ASSUME NEW text \in Seq(Seq(OutputChars))
  PROVE  \E h : Joined(text, h) /\ Std!FlattenSeq(text) = h[Len(text)]
<1> DEFINE n == Len(text)
           S == Seq(OutputChars)
           before == [i \in 1 .. n |-> i - 1]
           step == [i \in 1 .. n |-> [x \in S |-> x \o text[i]]]
           G(f) == [i \in 1 .. n |-> IF i = 1 THEN text[i] ELSE f[i - 1] \o text[i]]
<1>1. n \in Nat /\ \A i \in 1 .. n : text[i] \in S  BY PieceTypes
<1>2. before \in [1 .. n -> Nat] /\ \A i \in 1 .. n : before[i] < i /\ before[i] = i - 1
  BY <1>1
<1>3. step \in [1 .. n -> [S -> S]]
  <2>1. ASSUME NEW i \in 1 .. n PROVE [x \in S |-> x \o text[i]] \in [S -> S]
    <3>1. \A x \in S : x \o text[i] \in S  BY <1>1
    <3> HIDE DEF S
    <3> QED  BY <3>1
  <2> HIDE DEF S, n
  <2> QED  BY <2>1
<1>4. \A i \in 1 .. n : step[i] = [x \in S |-> x \o text[i]]  OBVIOUS
<1>5. <<>> \in S  OBVIOUS
<1> HIDE DEF before, step, n
<1>6. PICK h : Defined(n, S, <<>>, before, step, h)
  <2>1. Recursive(n, S, <<>>, before, step)  BY <1>1, <1>2, <1>3, <1>5 DEF Recursive
  <2> HIDE DEF S
  <2> QED  BY <2>1, Recursion
<1>7. h \in [0 .. n -> S] /\ h[0] = <<>> /\ \A i \in 1 .. n : h[i] = step[i][h[before[i]]]
  BY <1>6 DEF Defined
<1>8. \A i \in 1 .. n : h[i] = h[i - 1] \o text[i]
  <2> TAKE i \in 1 .. n
  <2>1. i - 1 \in 0 .. n  BY <1>1
  <2>2. h[i - 1] \in S  BY <1>7, <2>1
  <2> DEFINE v == h[i - 1]
  <2>3. h[i] = step[i][v]  BY <1>2, <1>7
  <2>4. v \in S  BY <2>2
  <2> HIDE DEF S, v
  <2>5. step[i][v] = v \o text[i]  BY Zenon, <1>4, <2>4
  <2> QED  BY <2>3, <2>5 DEF v
<1>9. Joined(text, h)  BY <1>7, <1>8 DEF Joined, n
<1>10. CASE n = 0
  <2>1. text = <<>>  BY <1>10 DEF n
  <2>2. Std!FlattenSeq(text) = text  BY <1>10 DEF Std!FlattenSeq, n
  <2>3. h[n] = <<>>  BY <1>7, <1>10
  <2>4. h[Len(text)] = <<>>  BY <2>3 DEF n
  <2> QED  BY <1>9, <2>1, <2>2, <2>4
<1>11. CASE n # 0
  <2> DEFINE f == [i \in 1 .. n |-> h[i]]
  <2>1. f = G(f)
    <3>1. \A i \in 1 .. n : h[i] = IF i = 1 THEN text[i] ELSE h[i - 1] \o text[i]
      <4> TAKE i \in 1 .. n
      <4>1. CASE i = 1
        <5>1. h[i - 1] = <<>>  BY <1>7, <4>1
        <5>2. text[i] \in S  BY <1>1
        <5> QED  BY <1>8, <4>1, <5>1, <5>2, EmptyJoin
      <4>2. CASE i # 1  BY <1>8, <4>2
      <4> QED  BY <4>1, <4>2
    <3>2. \A i \in 1 .. n : i # 1 => i - 1 \in 1 .. n  BY <1>1
    <3>3. \A i \in 1 .. n : i # 1 => f[i - 1] = h[i - 1]  BY <3>2
    <3> QED  BY <3>1, <3>3
  <2> DEFINE F == CHOOSE k : k = G(k)
  <2>2. F = G(F)
    <3> HIDE DEF G, f
    <3> QED  BY <2>1
  <2>3. Std!FlattenSeq(text) = F[n]
    BY <1>11 DEF Std!FlattenSeq, n
  <2> HIDE DEF F, f
  <2>4. \A i \in 1 .. n : F[i] = IF i = 1 THEN text[i] ELSE F[i - 1] \o text[i]
    BY <2>2
  <2> HIDE DEF G
  <2> DEFINE T == {k \in 0 .. n : k = 0 \/ F[k] = h[k]}
  <2>5. \A k \in 1 .. n : k - 1 \in T => k \in T
    <3> SUFFICES ASSUME NEW k \in 1 .. n, k - 1 \in T PROVE F[k] = h[k]  BY <1>1
    <3>1. CASE k = 1
      <4>1. h[k - 1] = <<>>  BY <1>7, <3>1
      <4>2. text[k] \in S  BY <1>1
      <4> QED  BY <1>8, <2>4, <3>1, <4>1, <4>2, EmptyJoin
    <3>2. CASE k # 1
      <4>1. F[k - 1] = h[k - 1]  BY <3>2
      <4> QED  BY <1>8, <2>4, <3>2, <4>1
    <3> QED  BY <3>1, <3>2
  <2>6. \A k \in 0 .. n : k \in T
    <3>1. 0 \in T  BY <1>1
    <3> HIDE DEF T
    <3> QED  BY <1>1, <2>5, <3>1, UpTo
  <2>7. F[n] = h[n]  BY <1>1, <1>11, <2>6
  <2>8. Std!FlattenSeq(text) = h[Len(text)]  BY <2>3, <2>7 DEF n
  <2> QED  BY <1>9, <2>8
<1> QED  BY <1>10, <1>11

(* What a sequence ends with is its suffix.                                *)
LEMMA Suffixes ==
  ASSUME NEW s \in Seq(OutputChars), NEW t \in Seq(OutputChars)
  PROVE  Std!IsSuffix(t, s \o t)
<1> DEFINE u == s \o t
           r == Std!Reverse(t)  q == Std!Reverse(u)
<1>1. /\ u \in Seq(OutputChars) /\ Len(u) = Len(s) + Len(t)
      /\ \A i \in 1 .. Len(t) : u[Len(s) + i] = t[i]
  OBVIOUS
<1>2. Len(s) \in Nat /\ Len(t) \in Nat  OBVIOUS
<1> HIDE DEF u
<1>3. /\ r = [i \in 1 .. Len(t) |-> t[(Len(t) - i) + 1]]
      /\ q = [i \in 1 .. Len(u) |-> u[(Len(u) - i) + 1]]
  BY DEF Std!Reverse
<1>4. \A i \in 1 .. Len(t) : (Len(t) - i) + 1 \in 1 .. Len(t)  BY <1>2
<1>5. \A i \in 1 .. Len(u) : (Len(u) - i) + 1 \in 1 .. Len(u)  BY <1>1, <1>2
<1>6. r \in Seq(OutputChars) /\ Len(r) = Len(t)
  <2>1. \A i \in 1 .. Len(t) : t[(Len(t) - i) + 1] \in OutputChars  BY <1>4
  <2> HIDE DEF r
  <2> QED  BY <1>2, <1>3, <2>1
<1>7. q \in Seq(OutputChars) /\ Len(q) = Len(u)
  <2>1. \A i \in 1 .. Len(u) : u[(Len(u) - i) + 1] \in OutputChars  BY <1>1, <1>5
  <2>2. Len(u) \in Nat  BY <1>1, <1>2
  <2> HIDE DEF q
  <2> QED  BY <1>3, <2>1, <2>2
<1>8. \A i \in 1 .. Len(r) : r[i] = q[i]
  <2> TAKE i \in 1 .. Len(r)
  <2>1. i \in 1 .. Len(t) /\ i \in 1 .. Len(u)  BY <1>1, <1>2, <1>6
  <2>2. r[i] = t[(Len(t) - i) + 1] /\ q[i] = u[(Len(u) - i) + 1]
    <3> HIDE DEF r, q
    <3> QED  BY <1>3, <2>1
  <2>3. (Len(u) - i) + 1 = Len(s) + ((Len(t) - i) + 1)  BY <1>1, <1>2, <2>1
  <2>4. (Len(t) - i) + 1 \in 1 .. Len(t)  BY <1>4, <2>1
  <2>5. u[(Len(u) - i) + 1] = t[(Len(t) - i) + 1]
    <3> DEFINE k == (Len(t) - i) + 1
    <3>1. u[Len(s) + k] = t[k]
      <4>1. k \in 1 .. Len(t)  BY <2>4
      <4> HIDE DEF k
      <4> QED  BY <1>1, <4>1
    <3> QED  BY <2>3, <3>1
  <2> HIDE DEF r, q
  <2> QED  BY <2>2, <2>5
<1> HIDE DEF r, q
<1>9. Len(r) <= Len(q)  BY <1>1, <1>2, <1>6, <1>7
<1>10. SubSeq(r, 1, Len(r)) = SubSeq(q, 1, Len(r))
  <2>1. Len(r) \in Nat  BY <1>2, <1>6
  <2>2. SubSeq(r, 1, Len(r)) = [i \in 1 .. Len(r) |-> r[i]]  BY <1>6
  <2>3. SubSeq(q, 1, Len(r)) = [i \in 1 .. Len(r) |-> q[i]]
    <3>1. Len(r) \in 0 .. Len(q)  BY <1>9, <2>1, <1>7
    <3> QED  BY <1>7, <3>1
  <2> QED  BY <1>8, <2>2, <2>3
<1>11. Std!IsPrefix(r, q)  BY <1>9, <1>10 DEF Std!IsPrefix
<1> QED  BY <1>11 DEF Std!IsSuffix, r, q, u

(* What the buffer holds while a text is printed: as much of the text as   *)
(* has been, behind what it held before; nothing once the stream failed.   *)
StdInv ==
  /\ Std!TypeOK /\ Std!NoLineWaits
  /\ params \in Texts \cup {<<>>} /\ l6 \in Seq(OutputChars)
  /\ place = "idle" =>
       /\ answer = -1 => (l1 /\ l6 = <<>> /\ l5 = 0) \/ Std!IsSuffix(Std!Handed, l6)
       /\ params # <<>> /\ answer >= 0 => Std!IsSuffix(Std!FlattenSeq(params), l6)
  /\ place = "printing" =>
       /\ l1 => l6 = <<>> /\ l5 = 0
       /\ ~l1 => \E h : \E before \in Seq(OutputChars) : Joined(params, h) /\ l6 = before \o h[l8 - 1]

LEMMA TextTypes ==
  ASSUME NEW text \in Texts \cup {<<>>}
  PROVE  text \in Seq(Seq(OutputChars)) /\ Len(text) \in Nat
<1>1. <<>> \in Seq(Seq(OutputChars))  OBVIOUS
<1>2. text \in Seq(Seq(OutputChars))  BY <1>1, StdGiven
<1> QED  BY <1>2

LEMMA FlatTypes ==
  ASSUME NEW text \in Texts \cup {<<>>}
  PROVE  Std!FlattenSeq(text) \in Seq(OutputChars) /\ Len(Std!FlattenSeq(text)) \in Nat
<1>1. text \in Seq(Seq(OutputChars)) /\ Len(text) \in Nat  BY TextTypes
<1>2. PICK h : Joined(text, h) /\ Std!FlattenSeq(text) = h[Len(text)]  BY <1>1, JoinedIsFlat
<1>3. h[Len(text)] \in Seq(OutputChars)  BY <1>1, <1>2 DEF Joined
<1>4. Std!FlattenSeq(text) \in Seq(OutputChars)  BY <1>2, <1>3
<1> QED  BY <1>4

LEMMA JoinedUnique ==
  ASSUME NEW text, NEW n, n = Len(text), n \in Nat,
         NEW g, Joined(text, g), NEW h, Joined(text, h)
  PROVE  g[n] = h[n]
<1> DEFINE T == {k \in 0 .. n : g[k] = h[k]}
<1>1. 0 \in T  BY DEF Joined
<1>2. \A k \in 1 .. n : k - 1 \in T => k \in T
  <2> SUFFICES ASSUME NEW k \in 1 .. n, k - 1 \in T PROVE g[k] = h[k]  OBVIOUS
  <2>1. g[k] = g[k - 1] \o text[k] /\ h[k] = h[k - 1] \o text[k]  BY DEF Joined
  <2> QED  BY <2>1
<1>3. \A k \in 0 .. n : k \in T
  <2> HIDE DEF T
  <2> QED  BY <1>1, <1>2, UpTo
<1> QED  BY <1>3

LEMMA StdStarts == Std!Init => StdInv
<1> SUFFICES ASSUME Std!Init PROVE StdInv  OBVIOUS
<1>1. /\ l1 = FALSE /\ l2 = 0 /\ l3 = 0 /\ l4 = 0 /\ l5 = 0 /\ l6 = <<>>
      /\ place = "idle" /\ params = <<>> /\ l8 = 1 /\ l7 = FALSE /\ answer = 0
  BY DEF Std!Init
<1>2. Len(Std!FlattenSeq(params)) \in Nat  BY <1>1, FlatTypes
<1>3. Std!TypeOK
  <2>1. Len(l6) = 0 /\ Len(params) = 0  BY <1>1
  <2>2. l8 \in 1 .. Len(params) + 1 /\ Len(l6) = l4 - l3  BY <1>1, <2>1
  <2>3. answer \in -1 .. Len(Std!FlattenSeq(params))
    <3> DEFINE flat == Len(Std!FlattenSeq(params))
    <3>1. flat \in Nat  BY <1>2
    <3> HIDE DEF flat
    <3>2. answer \in -1 .. flat  BY <1>1, <3>1
    <3> QED  BY <3>2 DEF flat
  <2> QED  BY <1>1, <2>2, <2>3 DEF Std!TypeOK
<1>4. Std!NoLineWaits  BY <1>1 DEF Std!NoLineWaits, Std!Contains
<1> QED  BY <1>1, <1>3, <1>4 DEF StdInv

LEMMA StdTypes ==
  ASSUME StdInv
  PROVE  /\ l1 \in BOOLEAN /\ l2 \in {0, Fd} \cup Std!Errnos /\ place \in {"idle", "printing"}
         /\ \/ l3 = 0 /\ l4 = 0 /\ l5 = 0 /\ l6 = <<>>
            \/ /\ l3 = 1 /\ l5 = 1 + Size /\ l4 \in 1 .. 1 + Size /\ Len(l6) = l4 - 1
         /\ l5 = 0 => l3 = 0 /\ l4 = 0 /\ l6 = <<>>
         /\ Len(l6) = l4 - l3 /\ l6 \in Seq(OutputChars)
         /\ l8 \in 1 .. Len(params) + 1 /\ params \in Texts \cup {<<>>} /\ Len(params) \in Nat
         /\ place = "idle" => answer \in -1 .. Len(Std!FlattenSeq(params))
<1>1. /\ Std!TypeOK /\ params \in Texts \cup {<<>>} /\ l6 \in Seq(OutputChars)
  BY DEF StdInv
<1>2. Len(params) \in Nat  BY <1>1, TextTypes
<1>3. Size \in Nat /\ Size > 0  BY StdGiven
<1>4. Len(l6) = 0 => l6 = <<>>  BY <1>1
<1> QED  BY <1>1, <1>2, <1>3, <1>4 DEF Std!TypeOK, Std!Buf

LEMMA BeginKeeps ==
  ASSUME StdInv, NEW text \in Texts, Std!Begin(text)
  PROVE  StdInv'
<1>1. /\ place' = "printing" /\ params' = text /\ l8' = 1 /\ l1' = FALSE /\ l2' = l2
      /\ answer' = answer
      /\ \/ l5 = 0 /\ l3' = 1 /\ l4' = 1 /\ l5' = 1 + Size /\ l6' = <<>>
         \/ l5 # 0 /\ l3' = l3 /\ l4' = l4 /\ l5' = l5 /\ l6' = l6
  BY DEF Std!Begin, Std!Towrite, Std!Pointers, Std!buffer, Std!Buf
<1>2. Size \in Nat /\ Size > 0  BY StdGiven
<1>3. l6' \in Seq(OutputChars)  BY <1>1, StdTypes
<1>4. text \in Seq(Seq(OutputChars)) /\ Len(text) \in Nat  BY TextTypes
<1>5. Std!TypeOK'
  <2>1. /\ l1' \in BOOLEAN /\ l2' \in {0, Fd} \cup Std!Errnos /\ place' = "printing"
        /\ l8' \in 1 .. Len(params') + 1
    <3>1. 1 \in 1 .. Len(text) + 1  BY <1>4
    <3> QED  BY <1>1, <3>1, StdTypes
  <2>2. /\ l3' = 1 /\ l5' = 1 + Size /\ l4' \in 1 .. 1 + Size /\ Len(l6') = l4' - l3'
    BY <1>1, <1>2, StdTypes
  <2> QED  BY <2>1, <2>2 DEF Std!TypeOK, Std!Buf
<1>6. Std!NoLineWaits'
  BY <1>1 DEF StdInv, Std!NoLineWaits, Std!Contains
<1>7. PICK h : Joined(text, h)  BY <1>4, JoinedIsFlat
<1>8. h[0] = <<>> /\ l6' \o <<>> = l6'
  BY <1>3, <1>7 DEF Joined
<1>9. \E g : \E before \in Seq(OutputChars) : Joined(params', g) /\ l6' = before \o g[l8' - 1]
  <2>1. l8' - 1 = 0  BY <1>1
  <2>2. l6' = l6' \o h[l8' - 1]  BY <1>8, <2>1
  <2> QED  BY <1>1, <1>3, <1>7, <2>2
<1> QED  BY <1>1, <1>3, <1>5, <1>6, <1>9 DEF StdInv

(* The stream as __stdio_write leaves it.                                  *)
LEMMA Written ==
  ASSUME StdInv, Std!Write
  PROVE  /\ l1' = TRUE /\ l2' = Fd /\ l3' = 0 /\ l4' = 0 /\ l5' = 0 /\ l6' = <<>>
         /\ Std!NoLineWaits'
<1>1. l1' = TRUE /\ l2' = Fd /\ l3' = 0 /\ l4' = 0 /\ l5' = 0 /\ l6' = <<>>
  BY DEF Std!Write, Std!Pointers
<1>2. Std!NoLineWaits'  BY <1>1 DEF Std!NoLineWaits, Std!Contains
<1> QED  BY <1>1, <1>2

LEMMA NoLineAdded ==
  ASSUME NEW s \in Seq(OutputChars), NEW t \in Seq(OutputChars),
         ~ Std!Contains(s, "nl"), ~ Std!Contains(t, "nl")
  PROVE  ~ Std!Contains(s \o t, "nl")
<1> DEFINE u == s \o t
<1> SUFFICES ASSUME NEW i \in 1 .. Len(u) PROVE u[i] # "nl"
  BY DEF Std!Contains
<1>1. Len(u) = Len(s) + Len(t) /\ Len(s) \in Nat /\ Len(t) \in Nat  OBVIOUS
<1>2. CASE i <= Len(s)
  <2>1. i \in 1 .. Len(s) /\ u[i] = s[i]  BY <1>1, <1>2
  <2> QED  BY <2>1 DEF Std!Contains
<1>3. CASE i > Len(s)
  <2>1. i - Len(s) \in 1 .. Len(t) /\ u[i] = t[i - Len(s)]  BY <1>1, <1>3
  <2> QED  BY <2>1 DEF Std!Contains
<1> QED  BY <1>1, <1>2, <1>3

LEMMA BehindTypes ==
  ASSUME NEW s \in Seq(OutputChars), NEW t \in Seq(OutputChars)
  PROVE  s \o t \in Seq(OutputChars) /\ Len(s \o t) = Len(s) + Len(t)
OBVIOUS

LEMMA CopiedBehind ==
  ASSUME NEW before \in Seq(OutputChars), NEW done \in Seq(OutputChars),
         NEW piece \in Seq(OutputChars)
  PROVE  (before \o done) \o piece = before \o (done \o piece)
OBVIOUS

LEMMA PieceKeeps == StdInv /\ Std!Piece => StdInv'
<1> SUFFICES ASSUME StdInv, Std!Piece PROVE StdInv'  OBVIOUS
<1> DEFINE piece == params[l8]
<1>1. /\ place = "printing" /\ place' = "printing" /\ l8 <= Len(params) /\ l8' = l8 + 1
      /\ params' = params /\ answer' = answer
  BY DEF Std!Piece
<1>2. /\ params \in Seq(Seq(OutputChars)) /\ Len(params) \in Nat
      /\ params \in Texts \cup {<<>>}
  BY StdTypes, TextTypes
<1>3. l8 \in 1 .. Len(params) /\ l8' \in 1 .. Len(params) + 1 /\ l8' - 1 = l8
  <2>1. Len(params) \in Nat  BY <1>2
  <2>2. l8 \in 1 .. Len(params)  BY <1>1, <1>2, StdTypes
  <2>3. l8' = l8 + 1  BY <1>1
  <2> QED  BY <2>1, <2>2, <2>3
<1>4. piece \in Seq(OutputChars) /\ Len(piece) \in Nat
  <2>1. piece \in Seq(OutputChars)  BY <1>2, <1>3, PieceTypes
  <2> HIDE DEF piece
  <2> QED  BY <2>1
<1>5. CASE l1
  <2>1. /\ l1' = l1 /\ l2' = l2 /\ l3' = l3 /\ l4' = l4 /\ l5' = l5 /\ l6' = l6
    BY <1>5 DEF Std!Piece, Std!stream, Std!buffer
  <2>2. l6 = <<>> /\ l5 = 0  BY <1>1, <1>5 DEF StdInv
  <2>3. Std!TypeOK'
    BY <1>1, <1>3, <2>1 DEF StdInv, Std!TypeOK
  <2>4. Std!NoLineWaits'
    BY <2>1 DEF StdInv, Std!NoLineWaits
  <2> QED  BY <1>1, <1>5, <2>1, <2>2, <2>3, <2>4 DEF StdInv
<1>6. CASE ~l1 /\ Std!Write
  <2>1. /\ l1' = TRUE /\ l2' = Fd /\ l3' = 0 /\ l4' = 0 /\ l5' = 0 /\ l6' = <<>>
        /\ Std!NoLineWaits'
    BY <1>6, Written
  <2>2. Std!TypeOK'
    <3>1. Len(l6') = 0  BY <2>1
    <3> QED  BY <1>1, <1>3, <2>1, <3>1 DEF Std!TypeOK
  <2>3. l6' \in Seq(OutputChars)  BY <2>1
  <2> QED  BY <1>1, <1>2, <2>1, <2>2, <2>3 DEF StdInv
<1>7. CASE ~l1 /\ ~Std!Write
  <2> DEFINE pos == IF l5 = 0 THEN 1 ELSE l4
             end == IF l5 = 0 THEN 1 + Size ELSE l5
  <2>1. /\ Len(piece) <= end - pos /\ ~ Std!Contains(piece, "nl")
        /\ l6' = l6 \o piece
        /\ l3' = 1 /\ l4' = pos + Len(piece) /\ l5' = end
        /\ l1' = l1 /\ l2' = l2
    <3>1. Std!Fwritex(piece)  BY <1>7 DEF Std!Piece
    <3> HIDE DEF piece
    <3> QED  BY <1>7, <3>1
         DEF Std!Fwritex, Std!Fits, Std!HasLine, Std!Pointers, Std!Buf
  <2>2. Size \in Nat /\ Size > 0  BY StdGiven
  <2>3. /\ end = 1 + Size /\ pos \in 1 .. 1 + Size /\ Len(l6) = pos - 1 /\ l6 \in Seq(OutputChars)
    <3>1. CASE l5 = 0
      <4>1. l6 = <<>> /\ Len(l6) = 0  BY <3>1, StdTypes
      <4> QED  BY <2>2, <3>1, <4>1, StdTypes
    <3>2. CASE l5 # 0  BY <2>2, <3>2, StdTypes
    <3> QED  BY <3>1, <3>2
  <2> HIDE DEF piece, pos, end
  <2>4. l6' \in Seq(OutputChars) /\ Len(l6') = Len(l6) + Len(piece)
    <3>1. /\ l6 \o piece \in Seq(OutputChars)
          /\ Len(l6 \o piece) = Len(l6) + Len(piece)
      BY <1>4, <2>3, BehindTypes
    <3> QED  BY <2>1, <3>1
  <2>5. Std!TypeOK'
    <3>1. l4' \in 1 .. 1 + Size /\ Len(l6') = l4' - l3'
      BY <1>4, <2>1, <2>2, <2>3, <2>4
    <3>2. l1' \in BOOLEAN /\ l2' \in {0, Fd} \cup Std!Errnos  BY <2>1, StdTypes
    <3> QED  BY <1>1, <1>3, <2>1, <2>3, <3>1, <3>2 DEF Std!TypeOK, Std!Buf
  <2>6. Std!NoLineWaits'
    <3>1. ~ Std!Contains(l6, "nl")  BY DEF StdInv, Std!NoLineWaits
    <3>2. ~ Std!Contains(l6 \o piece, "nl")  BY <1>4, <2>1, <2>3, <3>1, NoLineAdded
    <3> QED  BY <2>1, <3>2 DEF Std!NoLineWaits
  <2>7. PICK h : \E before \in Seq(OutputChars) :
                Joined(params, h) /\ l6 = before \o h[l8 - 1]
    BY <1>1, <1>7 DEF StdInv
  <2>11. PICK before \in Seq(OutputChars) : Joined(params, h) /\ l6 = before \o h[l8 - 1]
    BY <2>7
  <2>8. h[l8] = h[l8 - 1] \o piece /\ h[l8 - 1] \in Seq(OutputChars)
    <3>1. l8 - 1 \in 0 .. Len(params)  BY <1>2, <1>3
    <3> QED  BY <1>3, <2>11, <3>1 DEF Joined, piece
  <2>9. l6' = before \o h[l8' - 1]
    <3>1. l6' = before \o h[l8]
      <4> DEFINE done == h[l8 - 1]
      <4>1. done \in Seq(OutputChars) /\ h[l8] = done \o piece /\ l6 = before \o done
        BY <2>8, <2>11
      <4> HIDE DEF done
      <4> QED  BY <1>4, <2>1, <4>1, CopiedBehind
    <3> QED  BY <1>3, <3>1
  <2>10. \E g : \E front \in Seq(OutputChars) : Joined(params', g) /\ l6' = front \o g[l8' - 1]
    BY <1>1, <2>9, <2>11
  <2> QED  BY <1>1, <1>2, <1>7, <2>1, <2>4, <2>5, <2>6, <2>10 DEF StdInv
<1> QED  BY <1>5, <1>6, <1>7

(* The first pieces of a text one after the other are those of the text.   *)
LEMMA JoinedFront ==
  ASSUME NEW text \in Seq(Seq(OutputChars)), NEW h, Joined(text, h), NEW k \in 0 .. Len(text)
  PROVE  Std!FlattenSeq(SubSeq(text, 1, k)) = h[k] /\ h[k] \in Seq(OutputChars)
<1> DEFINE front == SubSeq(text, 1, k)
           g == [i \in 0 .. k |-> h[i]]
<1>1. Len(text) \in Nat /\ k \in Nat /\ k <= Len(text)  OBVIOUS
<1>2. /\ front \in Seq(Seq(OutputChars)) /\ Len(front) = k
      /\ \A i \in 1 .. k : front[i] = text[i]
  BY <1>1
<1>3. h[k] \in Seq(OutputChars)  BY DEF Joined
<1> HIDE DEF front
<1>4. Joined(front, g)
  <2>1. \A i \in 0 .. k : i \in 0 .. Len(text) /\ h[i] \in Seq(OutputChars)
    BY <1>1 DEF Joined
  <2>2. g \in [0 .. k -> Seq(OutputChars)]  BY <2>1
  <2>3. g[0] = <<>>  BY <1>1 DEF Joined
  <2>4. ASSUME NEW i \in 1 .. k PROVE g[i] = g[i - 1] \o front[i]
    <3>1. i \in 1 .. Len(text) /\ i \in 0 .. k /\ i - 1 \in 0 .. k  BY <1>1
    <3>2. h[i] = h[i - 1] \o text[i]  BY <3>1 DEF Joined
    <3> QED  BY <1>2, <3>1, <3>2
  <2> HIDE DEF g
  <2> QED  BY <1>2, <2>2, <2>3, <2>4 DEF Joined
<1>5. PICK f : Joined(front, f) /\ Std!FlattenSeq(front) = f[Len(front)]
  BY <1>2, JoinedIsFlat
<1>6. g[k] = h[k]  BY <1>1
<1> HIDE DEF g
<1>7. f[k] = g[k]  BY <1>1, <1>2, <1>4, <1>5, JoinedUnique
<1> QED  BY <1>2, <1>3, <1>5, <1>6, <1>7 DEF front

LEMMA RejectKeeps ==
  ASSUME StdInv, NEW text \in Texts, Std!Reject(text)
  PROVE  StdInv'
<1>1. /\ place = "idle" /\ place' = "idle" /\ params' = text /\ l8' = 1 /\ answer' = -1
      /\ l2' \in Std!Errnos /\ l1' = l1
      /\ l3' = l3 /\ l4' = l4 /\ l5' = l5 /\ l6' = l6
  BY DEF Std!Reject, Std!buffer
<1>2. text \in Seq(Seq(OutputChars)) /\ Len(text) \in Nat  BY TextTypes
<1>3. Std!TypeOK'
  <2>1. Len(Std!FlattenSeq(params')) \in Nat  BY <1>1, FlatTypes
  <2>2. answer' \in -1 .. Len(Std!FlattenSeq(params'))
    <3> DEFINE flat == Len(Std!FlattenSeq(params'))
    <3> HIDE DEF flat
    <3>1. flat \in Nat => -1 \in -1 .. flat  OBVIOUS
    <3> QED  BY <1>1, <2>1, <3>1 DEF flat
  <2>3. l8' \in 1 .. Len(params') + 1  BY <1>1, <1>2
  <2> QED  BY <1>1, <2>2, <2>3 DEF StdInv, Std!TypeOK
<1>4. Std!NoLineWaits'  BY <1>1 DEF StdInv, Std!NoLineWaits
<1>5. Std!IsSuffix(Std!Handed, l6)'
  <2>1. Std!Handed' = <<>>
    <3>1. PICK h : Joined(text, h)  BY <1>2, JoinedIsFlat
    <3>2. Std!FlattenSeq(SubSeq(text, 1, 0)) = h[0]  BY <1>2, <3>1, JoinedFront
    <3>3. h[0] = <<>>  BY <3>1 DEF Joined
    <3> QED  BY <1>1, <3>2, <3>3 DEF Std!Handed
  <2>2. l6 \in Seq(OutputChars)  BY DEF StdInv
  <2>3. <<>> \in Seq(OutputChars) /\ l6 = l6 \o <<>>  BY <2>2
  <2>4. Std!IsSuffix(<<>>, l6)  BY <2>2, <2>3, Suffixes
  <2> QED  BY <1>1, <2>1, <2>4
<1> QED  BY <1>1, <1>3, <1>4, <1>5 DEF StdInv

LEMMA FinishKeepsText == StdInv /\ Std!Finish => StdInv'
<1> SUFFICES ASSUME StdInv, Std!Finish PROVE StdInv'  OBVIOUS
<1>1. /\ place = "printing" /\ place' = "idle" /\ (Std!Refused \/ l8 > Len(params))
      /\ answer' = IF l1 \/ Std!Refused THEN -1 ELSE Len(Std!FlattenSeq(params))
      /\ l1' = (l1 \/ l7) /\ params' = params /\ l8' = l8
      /\ l3' = l3 /\ l4' = l4 /\ l5' = l5 /\ l6' = l6
  BY DEF Std!Finish, Std!buffer
<1>8. l2' \in {0, Fd} \cup Std!Errnos
  BY StdTypes DEF Std!Finish, Std!Reason
<1>2. Len(Std!FlattenSeq(params)) \in Nat /\ Std!FlattenSeq(params) \in Seq(OutputChars)
  BY StdTypes, FlatTypes
<1>3. params \in Seq(Seq(OutputChars)) /\ Len(params) \in Nat /\ l8 - 1 \in 0 .. Len(params)
  BY <1>1, StdTypes, TextTypes
<1>4. Std!TypeOK'
  <2>1. answer' \in -1 .. Len(Std!FlattenSeq(params))  BY <1>1, <1>2
  <2> QED  BY <1>1, <1>8, <2>1 DEF StdInv, Std!TypeOK
<1>5. Std!NoLineWaits'  BY <1>1 DEF StdInv, Std!NoLineWaits
<1>6. answer' = -1 => (l1' /\ l6' = <<>> /\ l5' = 0) \/ Std!IsSuffix(Std!Handed, l6)
  <2>1. CASE l1
    <3>1. l6 = <<>> /\ l5 = 0  BY <1>1, <2>1 DEF StdInv
    <3> QED  BY <1>1, <2>1, <3>1
  <2>2. CASE ~l1
    <3>1. PICK h : \E before \in Seq(OutputChars) :
                  Joined(params, h) /\ l6 = before \o h[l8 - 1]
      BY <1>1, <2>2 DEF StdInv
    <3>2. PICK before \in Seq(OutputChars) : Joined(params, h) /\ l6 = before \o h[l8 - 1]
      BY <3>1
    <3>3. Std!Handed = h[l8 - 1] /\ h[l8 - 1] \in Seq(OutputChars)
      BY <1>3, <3>2, JoinedFront DEF Std!Handed
    <3>4. Std!Handed \in Seq(OutputChars) /\ l6 = before \o Std!Handed  BY <3>2, <3>3
    <3> QED  BY <3>4, Suffixes
  <2> QED  BY <2>1, <2>2
<1>7. answer' >= 0 => Std!IsSuffix(Std!FlattenSeq(params), l6)
  <2> SUFFICES ASSUME answer' >= 0 PROVE Std!IsSuffix(Std!FlattenSeq(params), l6)  OBVIOUS
  <2>1. ~l1 /\ l8 > Len(params)  BY <1>1
  <2>2. PICK h : \E before \in Seq(OutputChars) :
                Joined(params, h) /\ l6 = before \o h[l8 - 1]
    BY <1>1, <2>1 DEF StdInv
  <2>7. PICK before \in Seq(OutputChars) : Joined(params, h) /\ l6 = before \o h[l8 - 1]
    BY <2>2
  <2>3. PICK g : Joined(params, g) /\ Std!FlattenSeq(params) = g[Len(params)]
    BY <1>3, JoinedIsFlat
  <2>4. g[Len(params)] = h[Len(params)]  BY <1>3, <2>3, <2>7, JoinedUnique
  <2>5. l8 - 1 = Len(params)  BY <1>3, <2>1, StdTypes
  <2>6. l6 = before \o Std!FlattenSeq(params)  BY <2>3, <2>4, <2>5, <2>7
  <2> QED  BY <1>2, <2>6, Suffixes
<1>9. Std!Handed' = Std!Handed  BY <1>1 DEF Std!Handed
<1> QED  BY <1>1, <1>4, <1>5, <1>6, <1>7, <1>9 DEF StdInv

LEMMA FflushKeeps == StdInv /\ Std!Fflush => StdInv'
<1> SUFFICES ASSUME StdInv, Std!Fflush PROVE StdInv'  OBVIOUS
<1>1. /\ place' = "idle" /\ params' = <<>> /\ l8' = 1
      /\ \/ Std!Write /\ answer' = -1
         \/ /\ l3' = 0 /\ l4' = 0 /\ l5' = 0 /\ l6' = <<>> /\ answer' = 0
            /\ l1' = l1 /\ l2' = l2
  BY DEF Std!Fflush, Std!Pointers
<1>2. Std!NoLineWaits' /\ l3' = 0 /\ l4' = 0 /\ l5' = 0 /\ l6' = <<>>
      /\ answer' \in {-1, 0} /\ l1' \in BOOLEAN /\ l2' \in {0, Fd} \cup Std!Errnos
      /\ (answer' = -1 => l1')
  <2>1. CASE Std!Write /\ answer' = -1
    <3>1. l1' = TRUE /\ l2' = Fd  BY <2>1, Written
    <3> QED  BY <2>1, <3>1, Written
  <2>2. CASE ~ (Std!Write /\ answer' = -1)
    <3>1. /\ l3' = 0 /\ l4' = 0 /\ l5' = 0 /\ l6' = <<>> /\ answer' = 0 /\ l1' = l1 /\ l2' = l2
      BY <1>1, <2>2
    <3>2. Std!NoLineWaits'  BY <3>1 DEF Std!NoLineWaits, Std!Contains
    <3> QED  BY <3>1, <3>2, StdTypes
  <2> QED  BY <2>1, <2>2
<1>3. Len(Std!FlattenSeq(params')) \in Nat  BY <1>1, FlatTypes
<1>4. Std!TypeOK'
  <2>1. Len(l6') = 0 /\ Len(params') = 0  BY <1>1, <1>2
  <2> QED  BY <1>1, <1>2, <1>3, <2>1 DEF Std!TypeOK
<1>5. l6' \in Seq(OutputChars)  BY <1>2
<1> QED  BY <1>1, <1>2, <1>4, <1>5 DEF StdInv

(* A stream that has failed before the call has failed after it.           *)
LEMMA FailureStays ==
  ASSUME StdInv, Std!Next \/ UNCHANGED Std!vars, place' = "idle",
         IF place = "idle" THEN l1 ELSE l7
  PROVE  l1'
<1>1. CASE \E text \in Texts : Std!Begin(text)
  <2>1. place' = "printing"  BY <1>1 DEF Std!Begin
  <2> QED  BY <2>1
<1>6. CASE \E text \in Texts : Std!Reject(text)
  BY <1>6 DEF Std!Reject
<1>2. CASE Std!Piece
  <2>1. place' = "printing"  BY <1>2 DEF Std!Piece
  <2> QED  BY <2>1
<1>3. CASE Std!Finish
  BY <1>3 DEF Std!Finish
<1>4. CASE Std!Fflush
  BY <1>4 DEF Std!Fflush, Std!Write
<1>5. CASE UNCHANGED Std!vars
  <2>1. place' = place /\ l1' = l1 /\ l7' = l7  BY <1>5 DEF Std!vars, Std!stream
  <2> QED  BY <2>1
<1> QED  BY <1>1, <1>2, <1>3, <1>4, <1>5, <1>6 DEF Std!Next

LEMMA StdStep == StdInv /\ [Std!Next]_(Std!vars) => StdInv'
<1> SUFFICES ASSUME StdInv, [Std!Next]_(Std!vars) PROVE StdInv'  OBVIOUS
<1>1. CASE \E text \in Texts : Std!Begin(text)  BY <1>1, BeginKeeps
<1>3. CASE \E text \in Texts : Std!Reject(text)  BY <1>3, RejectKeeps
<1>2. CASE UNCHANGED Std!vars
  <2>1. /\ params' = params /\ place' = place /\ answer' = answer
        /\ l1' = l1 /\ l2' = l2 /\ l3' = l3 /\ l4' = l4 /\ l5' = l5 /\ l6' = l6
        /\ l7' = l7 /\ l8' = l8
    BY <1>2 DEF Std!vars, Std!stream, Std!buffer
  <2> QED  BY <2>1 DEF StdInv, Joined, Std!TypeOK, Std!NoLineWaits, Std!Handed
<1> QED  BY <1>1, <1>2, <1>3, PieceKeeps, FinishKeepsText, FflushKeeps DEF Std!Next

LEMMA StdTells ==
  StdInv =>
    Std!TypeOK /\ Std!AcceptedIsHeld /\ Std!FailedLeavesPart /\ Std!NoLineWaits
BY DEF StdInv, Std!AcceptedIsHeld, Std!FailedLeavesPart
-----------------------------------------------------------------------------
(* A character with bytes has those of its range, and none of the ranges   *)
(* is that of a surrogate.                                                 *)
OfTwo == params \in 128 .. 2047
OfThree == params \in 2048 .. Wide!Plane - 1 /\ params \notin Wide!Surrogates
OfFour == params \in Wide!Plane .. 17 * Wide!Plane - 1
OfNone == params \in Wide!Surrogates \/ params >= 17 * Wide!Plane

Encoded ==
  \/ params <= 127 /\ l3 = <<params>>
  \/ OfTwo /\ l3 = <<192 + params \div 64, 128 + (params % 64)>>
  \/ /\ OfThree
     /\ l3 = <<224 + params \div (64 * 64), 128 + ((params \div 64) % 64), 128 + (params % 64)>>
  \/ /\ OfFour
     /\ l3 = <<240 + params \div (64 * (64 * 64)), 128 + ((params \div (64 * 64)) % 64),
               128 + ((params \div 64) % 64), 128 + (params % 64)>>

(* What wctomb has stored and returned.                                    *)
WideInv ==
  /\ params \in Characters /\ l1 \in BOOLEAN /\ l2 \in BOOLEAN
  /\ place \in {"called", "done"}
  /\ place = "called" => l3 = <<>> /\ l4 = 0 /\ answer = 0
  /\ place = "done" /\ ~l1 => l3 = <<>> /\ l4 = 0 /\ answer = 0
  /\ place = "done" /\ l1 =>
       \/ l2 /\ Encoded /\ answer = Len(l3) /\ l4 = 0
       \/ /\ ~l2 /\ answer = 1 /\ l4 = 0
          /\ params <= 127 \/ params \div 128 = 447
          /\ l3 = <<params % 256>>
       \/ /\ answer = -1 /\ l4 = 25 /\ l3 = <<>>
          /\ l2 => OfNone

LEMMA CharacterTypes == ASSUME WideInv PROVE params \in Nat
BY LibraryAssumption DEF WideInv, Wide!WideCharAssumption

LEMMA WideStarts == Wide!Init => WideInv
BY DEF Wide!Init, WideInv

(* The ranges as the code tests them.                                      *)
LEMMA PlaneFacts ==
  /\ Wide!Plane \in Nat /\ Wide!Plane = 8 * 8192
  /\ \A w \in Nat : w \in Wide!Surrogates <=> 27 * 2048 <= w /\ w < 7 * 8192
<1>1. Wide!Plane \in Nat /\ Wide!Plane = 8 * 8192  BY DEF Wide!Plane
<1>2. ASSUME NEW w \in Nat PROVE w \in Wide!Surrogates <=> 27 * 2048 <= w /\ w < 7 * 8192
  BY <1>2, SMTT(30) DEF Wide!Surrogates
<1> QED  BY <1>1, <1>2

LEMMA InBasicPlane ==
  ASSUME params \in Nat
  PROVE  Wide!BasicPlane <=> OfThree
<1> DEFINE p == Wide!Plane
<1>1. p = 8 * 8192 /\ p \in Nat  BY PlaneFacts
<1>2. params \in Wide!Surrogates <=> 27 * 2048 <= params /\ params < 7 * 8192  BY PlaneFacts
<1>3. params \div 8192 = 7 <=> 7 * 8192 <= params /\ params < 8 * 8192  OBVIOUS
<1>4. params \in 2048 .. 27 * 2048 - 1 <=> 2048 <= params /\ params < 27 * 2048
  <2> DEFINE hi == 27 * 2048
  <2>1. hi \in Nat  OBVIOUS
  <2> HIDE DEF hi
  <2>2. params \in 2048 .. hi - 1 <=> 2048 <= params /\ params < hi  BY <2>1, SMTT(30)
  <2> QED  BY <2>2, Zenon DEF hi
<1>5. params \in 2048 .. p - 1 <=> 2048 <= params /\ params < 8 * 8192
  <2>1. p \in Nat  BY <1>1
  <2> HIDE DEF p
  <2>2. params \in 2048 .. p - 1 <=> 2048 <= params /\ params < p  BY <2>1, SMTT(30)
  <2>3. params < p <=> params < 8 * 8192  BY <1>1
  <2> QED  BY <2>2, <2>3
<1>6. (2048 <= params /\ params < 27 * 2048) \/ (7 * 8192 <= params /\ params < 8 * 8192)
      <=> 2048 <= params /\ params < 8 * 8192
          /\ ~ (27 * 2048 <= params /\ params < 7 * 8192)
  OBVIOUS
<1>7. Wide!BasicPlane <=>
        (2048 <= params /\ params < 27 * 2048) \/ (7 * 8192 <= params /\ params < 8 * 8192)
  <2> DEFINE a == params \in 2048 .. 27 * 2048 - 1
             b == params \div 8192 = 7
  <2>1. Wide!BasicPlane <=> a \/ b  BY DEF Wide!BasicPlane
  <2>2. a <=> 2048 <= params /\ params < 27 * 2048  BY <1>4, Zenon
  <2>3. b <=> 7 * 8192 <= params /\ params < 8 * 8192  BY <1>3
  <2> HIDE DEF a, b
  <2> QED  BY <2>1, <2>2, <2>3
<1>8. OfThree <=> params \in 2048 .. p - 1 /\ params \notin Wide!Surrogates
  BY Zenon DEF OfThree
<1> HIDE DEF p
<1>9. OfThree <=> 2048 <= params /\ params < 8 * 8192
          /\ ~ (27 * 2048 <= params /\ params < 7 * 8192)
  BY <1>2, <1>5, <1>8
<1> QED  BY <1>6, <1>7, <1>9

LEMMA PlaneType == Wide!Plane \in Nat
BY DEF Wide!Plane

LEMMA InHigherPlanes ==
  ASSUME params \in Nat
  PROVE  Wide!HigherPlanes <=> OfFour
<1> DEFINE p == Wide!Plane
<1>1. p \in Nat  BY PlaneType
<1> HIDE DEF p
<1>2. params - p \in 0 .. 16 * p - 1 <=> params \in p .. 17 * p - 1  BY <1>1
<1> QED  BY <1>2 DEF p, Wide!HigherPlanes, OfFour

LEMMA InNoPlane ==
  ASSUME params \in Nat, params > 2047
  PROVE  OfThree \/ OfFour \/ OfNone
<1> DEFINE p == Wide!Plane
<1>1. p \in Nat  BY PlaneType
<1> HIDE DEF p
<1>2. params \in 2048 .. p - 1 \/ params \in p .. 17 * p - 1 \/ params >= 17 * p
  BY <1>1
<1> QED  BY <1>2 DEF p, OfThree, OfFour, OfNone

LEMMA SixBits ==
  ASSUME params \in Nat, NEW mark
  PROVE  /\ Wide!Tail6(1) = 128 + (params % 64)
         /\ Wide!Tail6(Wide!Bits6) = 128 + ((params \div 64) % 64)
         /\ Wide!Tail6(Wide!Bits12) = 128 + ((params \div (64 * 64)) % 64)
         /\ Wide!Lead(Wide!Bits6, mark) = mark + params \div 64
         /\ Wide!Lead(Wide!Bits12, mark) = mark + params \div (64 * 64)
         /\ Wide!Lead(Wide!Bits18, mark) = mark + params \div (64 * (64 * 64))
<1>1. params \div 1 = params  OBVIOUS
<1>2. Wide!Tail6(1) = 128 + (params % 64)
  BY Zenon, <1>1 DEF Wide!Tail6, Wide!Bits6
<1>3. Wide!Tail6(Wide!Bits6) = 128 + ((params \div 64) % 64)
  BY Zenon DEF Wide!Tail6, Wide!Bits6
<1>4. Wide!Tail6(Wide!Bits12) = 128 + ((params \div (64 * 64)) % 64)
  BY Zenon DEF Wide!Tail6, Wide!Bits6, Wide!Bits12
<1>5. /\ Wide!Lead(Wide!Bits6, mark) = mark + params \div 64
      /\ Wide!Lead(Wide!Bits12, mark) = mark + params \div (64 * 64)
      /\ Wide!Lead(Wide!Bits18, mark) = mark + params \div (64 * (64 * 64))
  BY Zenon DEF Wide!Lead, Wide!Bits6, Wide!Bits12, Wide!Bits18
<1> QED  BY <1>2, <1>3, <1>4, <1>5

LEMMA OneKeeps == WideInv /\ Wide!One => WideInv'
<1> SUFFICES ASSUME WideInv, Wide!One PROVE WideInv'  OBVIOUS
<1>1. params \in Nat  BY CharacterTypes
<1>2. /\ place = "called" /\ l1 /\ place' = "done" /\ params' = params /\ l1' = l1 /\ l2' = l2
      /\ l3' = <<params % 256>> /\ answer' = Len(<<params % 256>>) /\ l4' = l4
      /\ params <= 127 \/ (~l2 /\ params \div 128 = 447)
  BY DEF Wide!One, Wide!Stores, Wide!Return, Wide!AsItself
<1>3. answer' = 1 /\ l4' = 0  BY <1>2 DEF WideInv
<1>4. params <= 127 \/ (~l2 /\ params \div 128 = 447)  BY <1>2
<1>5. CASE l2
  <2>1. params <= 127 /\ params % 256 = params  BY <1>1, <1>4, <1>5
  <2>2. Encoded' /\ answer' = Len(l3')  BY <1>2, <1>3, <2>1 DEF Encoded
  <2> QED  BY <1>2, <1>3, <1>5, <2>2 DEF WideInv
<1>6. CASE ~l2
  BY <1>2, <1>3, <1>4, <1>6 DEF WideInv
<1> QED  BY <1>5, <1>6

LEMMA TwoKeeps == WideInv /\ Wide!Two => WideInv'
<1> SUFFICES ASSUME WideInv, Wide!Two PROVE WideInv'  OBVIOUS
<1>1. params \in Nat  BY CharacterTypes
<1> DEFINE s == <<192 + params \div 64, 128 + (params % 64)>>
<1>2. /\ place = "called" /\ l1 /\ l2 /\ place' = "done"
      /\ params' = params /\ l1' = l1 /\ l2' = l2
      /\ l3' = s /\ answer' = Len(s) /\ l4' = l4
      /\ ~ (params <= 127) /\ params <= 2047
  <2>1. s = <<Wide!Lead(Wide!Bits6, 192), Wide!Tail6(1)>>
    BY Zenon, <1>1, SixBits
  <2> HIDE DEF s
  <2> QED  BY <2>1 DEF Wide!Two, Wide!Stores, Wide!Return, Wide!AsItself
<1>3. answer' = Len(l3') /\ l4' = 0  BY <1>2 DEF WideInv
<1>4. OfTwo  BY <1>1, <1>2 DEF OfTwo
<1>5. Encoded'  BY <1>2, <1>4 DEF Encoded, OfThree, OfFour, OfTwo, s
<1> QED  BY <1>2, <1>3, <1>5 DEF WideInv

LEMMA ThreeKeeps == WideInv /\ Wide!Three => WideInv'
<1> SUFFICES ASSUME WideInv, Wide!Three PROVE WideInv'  OBVIOUS
<1>1. params \in Nat  BY CharacterTypes
<1> DEFINE s == <<224 + params \div (64 * 64), 128 + ((params \div 64) % 64), 128 + (params % 64)>>
<1>2. /\ place = "called" /\ l1 /\ l2 /\ place' = "done"
      /\ params' = params /\ l1' = l1 /\ l2' = l2
      /\ l3' = s /\ answer' = Len(s) /\ l4' = l4
      /\ Wide!BasicPlane
  <2>1. s = <<Wide!Lead(Wide!Bits12, 224), Wide!Tail6(Wide!Bits6), Wide!Tail6(1)>>
    BY Zenon, <1>1, SixBits
  <2> HIDE DEF s
  <2> QED  BY <2>1 DEF Wide!Three, Wide!Stores, Wide!Return
<1>3. answer' = Len(l3') /\ l4' = 0  BY <1>2 DEF WideInv
<1> HIDE DEF s
<1>4. OfThree
  BY Zenon, <1>1, <1>2, InBasicPlane
<1>5. Encoded'  BY <1>2, <1>4 DEF Encoded, OfThree, OfFour, OfTwo, s
<1> QED  BY <1>2, <1>3, <1>5 DEF WideInv

LEMMA FourKeeps == WideInv /\ Wide!Four => WideInv'
<1> SUFFICES ASSUME WideInv, Wide!Four PROVE WideInv'  OBVIOUS
<1>1. params \in Nat  BY CharacterTypes
<1> DEFINE s == <<240 + params \div (64 * (64 * 64)), 128 + ((params \div (64 * 64)) % 64),
                  128 + ((params \div 64) % 64), 128 + (params % 64)>>
<1>2. /\ place = "called" /\ l1 /\ l2 /\ place' = "done"
      /\ params' = params /\ l1' = l1 /\ l2' = l2
      /\ l3' = s /\ answer' = Len(s) /\ l4' = l4
      /\ Wide!HigherPlanes
  <2>1. s = <<Wide!Lead(Wide!Bits18, 240), Wide!Tail6(Wide!Bits12), Wide!Tail6(Wide!Bits6),
            Wide!Tail6(1)>>
    BY Zenon, <1>1, SixBits
  <2> HIDE DEF s
  <2> QED  BY <2>1 DEF Wide!Four, Wide!Stores, Wide!Return
<1>3. answer' = Len(l3') /\ l4' = 0  BY <1>2 DEF WideInv
<1> HIDE DEF s
<1>4. OfFour  BY <1>1, <1>2, InHigherPlanes
<1>5. Encoded'  BY <1>2, <1>4 DEF Encoded, OfThree, OfFour, OfTwo, s
<1> QED  BY <1>2, <1>3, <1>5 DEF WideInv

LEMMA RefusedKeeps == WideInv /\ Wide!Refused => WideInv'
<1> SUFFICES ASSUME WideInv, Wide!Refused PROVE WideInv'  OBVIOUS
<1>1. params \in Nat  BY CharacterTypes
<1>2. /\ place = "called" /\ l1 /\ place' = "done"
      /\ params' = params /\ l1' = l1 /\ l2' = l2
      /\ l3' = l3 /\ answer' = -1 /\ l4' = 25
      /\ l2 => params > 2047 /\ ~ Wide!BasicPlane /\ ~ Wide!HigherPlanes
  BY DEF Wide!Refused, Wide!Return, Wide!EILSEQ
<1>3. l2 => OfNone
  <2> SUFFICES ASSUME l2 PROVE OfNone  OBVIOUS
  <2>1. params > 2047 /\ ~ Wide!BasicPlane /\ ~ Wide!HigherPlanes  BY <1>2
  <2>2. ~ OfThree  BY <1>1, <2>1, InBasicPlane
  <2>3. ~ OfFour  BY <1>1, <2>1, InHigherPlanes
  <2>4. OfThree \/ OfFour \/ OfNone  BY <1>1, <2>1, InNoPlane
  <2> QED  BY <2>2, <2>3, <2>4
<1>4. l2 => OfNone'  BY <1>2, <1>3 DEF OfNone
<1> QED  BY <1>2, <1>4 DEF WideInv

LEMMA WideStep == WideInv /\ [Wide!Next]_(Wide!vars) => WideInv'
<1> SUFFICES ASSUME WideInv, Wide!Next \/ UNCHANGED Wide!vars PROVE WideInv'  OBVIOUS
<1>1. CASE Wide!NoBuffer
  BY <1>1 DEF Wide!NoBuffer, Wide!Return, WideInv
<1>2. CASE UNCHANGED Wide!vars
  BY <1>2 DEF Wide!vars, WideInv, Encoded, OfTwo, OfThree, OfFour, OfNone
<1> QED
  BY <1>1, <1>2, OneKeeps, TwoKeeps, ThreeKeeps, FourKeeps, RefusedKeeps DEF Wide!Next

(* What a decoder adds up.                                                 *)
LEMMA DecodedSums ==
  ASSUME Len(l3) \in 1 .. 4, \A i \in 1 .. Len(l3) : l3[i] \in Int
  PROVE  /\ Len(l3) = 1 => Wide!Decoded = l3[1]
         /\ Len(l3) = 2 => Wide!Decoded = (l3[1] - 192) * 64 + (l3[2] - 128)
         /\ Len(l3) = 3 =>
              Wide!Decoded = ((l3[1] - 224) * 64 + (l3[2] - 128)) * 64 + (l3[3] - 128)
         /\ Len(l3) = 4 =>
              Wide!Decoded = (((l3[1] - 240) * 64 + (l3[2] - 128)) * 64 + (l3[3] - 128)) * 64
                             + (l3[4] - 128)
<1> DEFINE n == Len(l3)
           S == Int
           G(d) == [i \in 0 .. n |-> IF i = 0 THEN 0 ELSE d[i - 1] * 64 + Wide!Payload(i)]
           before == [i \in 1 .. n |-> i - 1]
           step == [i \in 1 .. n |-> [x \in S |-> x * 64 + Wide!Payload(i)]]
<1>1. n \in 1 .. 4 /\ n \in Nat  OBVIOUS
<1> DEFINE marks == <<0, 192, 224, 240>>
<1>2. Wide!Payload(1) = l3[1] - marks[n]  BY DEF Wide!Payload
<1>23. /\ n = 1 => marks[n] = 0
       /\ n = 2 => marks[n] = 192
       /\ n = 3 => marks[n] = 224
       /\ n = 4 => marks[n] = 240
       /\ marks[n] \in Int
  <2> HIDE DEF n
  <2> QED  BY <1>1
<1> HIDE DEF marks
<1>3. \A i \in 1 .. n : i # 1 => Wide!Payload(i) = l3[i] - 128
  BY DEF Wide!Payload
<1>4. \A i \in 1 .. n : Wide!Payload(i) \in Int
  <2> TAKE i \in 1 .. n
  <2>1. l3[i] \in Int /\ l3[1] \in Int  BY <1>1
  <2> QED  BY <1>2, <1>3, <1>23, <2>1
<1>5. before \in [1 .. n -> Nat] /\ \A i \in 1 .. n : before[i] < i /\ before[i] = i - 1
  BY <1>1
<1>6. step \in [1 .. n -> [S -> S]]
  <2>1. \A i \in 1 .. n : [x \in S |-> x * 64 + Wide!Payload(i)] \in [S -> S]
    BY <1>4
  <2> HIDE DEF S, n
  <2> QED  BY <2>1
<1>7. \A i \in 1 .. n : step[i] = [x \in S |-> x * 64 + Wide!Payload(i)]
  OBVIOUS
<1>24. 0 \in S  OBVIOUS
<1> HIDE DEF before, step, n, S
<1>8. PICK h : Defined(n, S, 0, before, step, h)
  <2>1. Recursive(n, S, 0, before, step)  BY <1>1, <1>5, <1>6, <1>24 DEF Recursive
  <2> QED  BY <2>1, Recursion
<1>9. h \in [0 .. n -> S] /\ h[0] = 0 /\ \A i \in 1 .. n : h[i] = step[i][h[before[i]]]
  BY <1>8 DEF Defined
<1>10. \A i \in 1 .. n : h[i] = h[i - 1] * 64 + Wide!Payload(i)
  <2> TAKE i \in 1 .. n
  <2>1. i - 1 \in 0 .. n  BY <1>1
  <2>2. h[i - 1] \in S  BY <1>9, <2>1
  <2>3. h[i] = step[i][h[i - 1]]  BY <1>5, <1>9
  <2> QED  BY <1>7, <2>2, <2>3
<1>11. h = G(h)
  <2>1. h = [i \in 0 .. n |-> h[i]]  BY <1>9
  <2>2. \A i \in 0 .. n : i = 0 \/ i \in 1 .. n  BY <1>1
  <2> QED  BY <1>9, <1>10, <2>1, <2>2
<1> DEFINE F == CHOOSE d : d = G(d)
<1>12. F = G(F)
  <2> HIDE DEF G
  <2> QED  BY <1>11
<1>13. Wide!Decoded = F[n]
  BY DEF Wide!Decoded, n
<1> HIDE DEF F
<1>14. F[0] = 0 /\ \A i \in 1 .. n : F[i] = F[i - 1] * 64 + Wide!Payload(i)
  <2>1. \A i \in 0 .. n : F[i] = IF i = 0 THEN 0 ELSE F[i - 1] * 64 + Wide!Payload(i)
    BY <1>12
  <2>2. 0 \in 0 .. n /\ \A i \in 1 .. n : i \in 0 .. n /\ i # 0  BY <1>1
  <2> HIDE DEF G
  <2> QED  BY <2>1, <2>2
<1> HIDE DEF G
<1>15. F[1] = Wide!Payload(1) /\ F[1] \in Int
  <2>1. 1 \in 1 .. n  BY <1>1
  <2> QED  BY <1>4, <1>14, <2>1
<1>16. n >= 2 => F[2] = F[1] * 64 + (l3[2] - 128) /\ l3[2] \in Int
  <2>1. n >= 2 => 2 \in 1 .. n  BY <1>1
  <2> QED  BY <1>3, <1>14, <2>1 DEF n
<1>17. n >= 3 => F[3] = F[2] * 64 + (l3[3] - 128) /\ l3[3] \in Int
  <2>1. n >= 3 => 3 \in 1 .. n  BY <1>1
  <2> QED  BY <1>3, <1>14, <2>1 DEF n
<1>18. n >= 4 => F[4] = F[3] * 64 + (l3[4] - 128) /\ l3[4] \in Int
  <2>1. n >= 4 => 4 \in 1 .. n  BY <1>1
  <2> QED  BY <1>3, <1>14, <2>1 DEF n
<1>19. CASE n = 1
  <2>1. l3[1] \in Int  BY <1>19 DEF n
  <2> QED  BY <1>2, <1>23, <1>13, <1>15, <1>19, <2>1 DEF n
<1>20. CASE n = 2  BY <1>2, <1>23, <1>13, <1>15, <1>16, <1>20 DEF n
<1>21. CASE n = 3  BY <1>2, <1>23, <1>13, <1>15, <1>16, <1>17, <1>21 DEF n
<1>22. CASE n = 4  BY <1>2, <1>23, <1>13, <1>15, <1>16, <1>17, <1>18, <1>22 DEF n
<1> QED  BY <1>1, <1>19, <1>20, <1>21, <1>22 DEF n

(* The first byte of a sequence announces its length.                      *)
LEMMA Announces ==
  ASSUME NEW b \in Nat
  PROVE  /\ b < 128 => Wide!Announced(b) = 1
         /\ b \in 192 .. 223 => Wide!Announced(b) = 2
         /\ b \in 224 .. 239 => Wide!Announced(b) = 3
         /\ b \in 240 .. 247 => Wide!Announced(b) = 4
<1>1. CASE b < 128  BY <1>1 DEF Wide!Announced
<1>2. CASE b \in 192 .. 223  BY <1>2 DEF Wide!Announced
<1>3. CASE b \in 224 .. 239  BY <1>3 DEF Wide!Announced
<1>4. CASE b \in 240 .. 247  BY <1>4 DEF Wide!Announced
<1> QED  BY <1>1, <1>2, <1>3, <1>4

(* A number is made of its groups of six bits.                             *)
LEMMA Groups ==
  ASSUME NEW w \in Nat
  PROVE  /\ w % 64 \in 0 .. 63 /\ w \div 64 \in Nat /\ w = (w \div 64) * 64 + (w % 64)
OBVIOUS

LEMMA DivDiv ==
  ASSUME NEW w \in Nat
  PROVE  /\ w \div (64 * 64) = (w \div 64) \div 64
         /\ w \div (64 * (64 * 64)) = ((w \div 64) \div 64) \div 64
OBVIOUS

LEMMA PlaneBounds ==
  ASSUME NEW w \in Nat, NEW p \in Nat, w \in p .. 17 * p - 1
  PROVE  w >= p /\ w < 17 * p
OBVIOUS

LEMMA AboveSurrogates ==
  ASSUME NEW w \in Nat, NEW p \in Nat, p = 32 * 2048, w >= p
  PROVE  w \notin Wide!Surrogates
<1>1. w >= 32 * 2048  OBVIOUS
<1> QED  BY <1>1, PlaneFacts

(* The planes in groups of twelve bits.                                    *)
LEMMA PlaneGroups == \E j \in Nat : j = 16 /\ Wide!Plane = 64 * (64 * j)
<1>1. Wide!Plane = 64 * (64 * 16)  BY DEF Wide!Plane
<1> QED  BY <1>1

LEMMA SequenceOfFour ==
  ASSUME NEW w \in Nat, NEW w6 \in Nat, NEW w12 \in Nat, NEW w18 \in Nat,
         NEW r6 \in Nat, NEW r12 \in Nat, NEW r18 \in Nat,
         w = w6 * 64 + r6, w6 = w12 * 64 + r12, w12 = w18 * 64 + r18,
         w < 17 * Wide!Plane
  PROVE  w18 <= 7
<1>1. PICK j \in Nat : j = 16 /\ Wide!Plane = 64 * (64 * j)  BY PlaneGroups
<1>2. w < 17 * (64 * (64 * j))
  <2>1. Wide!Plane = 64 * (64 * j)  BY <1>1
  <2> QED  BY <2>1
<1>3. w6 < 17 * (64 * j)  BY <1>2
<1>4. w12 < 17 * j  BY <1>3
<1>5. w12 < 17 * 16  BY <1>1, <1>4
<1> QED  BY <1>5

LEMMA SequenceOfTwo ==
  ASSUME NEW w \in 128 .. 2047
  PROVE  w \div 64 \in 2 .. 31
OBVIOUS

LEMMA WideTells == WideInv => Wide!TypeOK /\ Wide!DecodedAgain /\ Wide!RefusedOnlyIfNone
<1> SUFFICES ASSUME WideInv
             PROVE  Wide!TypeOK /\ Wide!DecodedAgain /\ Wide!RefusedOnlyIfNone
  OBVIOUS
<1> DEFINE w == params
           w6 == w \div 64  w12 == w6 \div 64  w18 == w12 \div 64
           Good == /\ Len(l3) \in 1 .. 4 /\ l3 \in Seq(0 .. 255)
                   /\ Len(l3) = Wide!Announced(l3[1])
                   /\ \A i \in 2 .. Len(l3) : l3[i] \in 128 .. 191
                   /\ Wide!Decoded = w
                   /\ w >= Wide!Shortest[Len(l3)]
                   /\ w \notin Wide!Surrogates /\ w < 17 * Wide!Plane
<1>1. w \in Nat  BY CharacterTypes
<1>2. /\ w6 \in Nat /\ w = w6 * 64 + (w % 64) /\ w % 64 \in 0 .. 63
      /\ w12 \in Nat /\ w6 = w12 * 64 + (w6 % 64) /\ w6 % 64 \in 0 .. 63
      /\ w18 \in Nat /\ w12 = w18 * 64 + (w12 % 64) /\ w12 % 64 \in 0 .. 63
  BY <1>1, Groups
<1>3. w \div (64 * 64) = w12 /\ w \div (64 * (64 * 64)) = w18  BY <1>1, DivDiv
<1>4. Wide!Plane \in Nat /\ Wide!Plane = 32 * 2048
  BY PlaneType DEF Wide!Plane
<1>5. w < 2048 => w \notin Wide!Surrogates /\ w < 17 * Wide!Plane
  <2> HIDE DEF w
  <2> QED  BY <1>1, <1>4, PlaneFacts
<1>6. ASSUME w <= 127, l3 = <<w>> PROVE Good
  <2>1. Len(l3) = 1 /\ l3[1] = w /\ l3 \in Seq(0 .. 255)
    <3>1. w \in 0 .. 255  BY <1>1, <1>6
    <3> HIDE DEF w
    <3> QED  BY <1>6, <3>1
  <2>2. Wide!Announced(l3[1]) = 1  BY <1>1, <1>6, <2>1, Announces
  <2>3. Wide!Decoded = w
    <3>1. \A i \in 1 .. Len(l3) : l3[i] \in Int  BY <1>1, <2>1
    <3> QED  BY <2>1, <3>1, DecodedSums
  <2>4. Wide!Shortest[1] = 0  BY DEF Wide!Shortest
  <2>5. w < 2048  BY <1>1, <1>6
  <2> HIDE DEF w
  <2> QED  BY <1>1, <1>5, <2>1, <2>2, <2>3, <2>4, <2>5
<1>7. ASSUME OfTwo, l3 = <<192 + w6, 128 + (w % 64)>> PROVE Good
  <2>1. w \in 128 .. 2047  BY <1>7 DEF OfTwo
  <2> DEFINE x == 192 + w6  y == 128 + (w % 64)
  <2>2. x \in 192 .. 223 /\ y \in 128 .. 191 /\ (x - 192) * 64 + (y - 128) = w
    <3>1. w6 \in 2 .. 31  BY <2>1, SequenceOfTwo
    <3> HIDE DEF w, w6
    <3> QED  BY <1>2, <2>1, <3>1
  <2>3. l3 = <<x, y>>  BY <1>7
  <2>4. w < 2048 /\ w >= 128  BY <2>1
  <2> HIDE DEF x, y, w
  <2>5. Len(l3) = 2 /\ l3[1] = x /\ l3[2] = y /\ l3 \in Seq(0 .. 255)  BY <2>2, <2>3
  <2>6. Wide!Announced(l3[1]) = 2  BY <2>2, <2>5, Announces
  <2>7. Wide!Decoded = w
    <3>1. \A i \in 1 .. Len(l3) : l3[i] \in Int  BY <2>2, <2>5
    <3> QED  BY <2>2, <2>5, <3>1, DecodedSums
  <2>8. Wide!Shortest[2] = 128  BY DEF Wide!Shortest
  <2>9. \A i \in 2 .. Len(l3) : l3[i] \in 128 .. 191
    <3> TAKE i \in 2 .. Len(l3)
    <3>1. i = 2  BY <2>5
    <3> QED  BY <2>2, <2>5, <3>1
  <2> QED  BY <1>5, <2>4, <2>5, <2>6, <2>7, <2>8, <2>9
<1>8. ASSUME OfThree, l3 = <<224 + w12, 128 + (w6 % 64), 128 + (w % 64)>> PROVE Good
  <2> DEFINE x == 224 + w12  y == 128 + (w6 % 64)  z == 128 + (w % 64)
  <2>1. /\ w \in 2048 .. Wide!Plane - 1 /\ w \notin Wide!Surrogates  BY <1>8 DEF OfThree
  <2>2. /\ x \in 224 .. 239 /\ y \in 128 .. 191 /\ z \in 128 .. 191
        /\ ((x - 224) * 64 + (y - 128)) * 64 + (z - 128) = w
    <3>1. w12 <= 15
      <4> HIDE DEF w, w6, w12
      <4>1. w < 65536
        <5>1. w < Wide!Plane  BY <1>1, <2>1, PlaneType
        <5> QED  BY <1>1, <1>4, <5>1
      <4>2. w12 * 64 <= w6  BY <1>2
      <4>3. w6 * 64 <= w  BY <1>1, <1>2
      <4> QED  BY <1>1, <1>2, <4>1, <4>2, <4>3
    <3> HIDE DEF w, w6, w12
    <3> QED  BY <1>2, <3>1
  <2>3. l3 = <<x, y, z>>  BY <1>8
  <2>4. w >= 2048 /\ w < 17 * Wide!Plane
    <3> HIDE DEF w
    <3>1. w >= 2048 /\ w < Wide!Plane  BY <1>1, <2>1, PlaneType
    <3> QED  BY <1>1, <1>4, <3>1
  <2> HIDE DEF x, y, z, w
  <2>5. Len(l3) = 3 /\ l3[1] = x /\ l3[2] = y /\ l3[3] = z /\ l3 \in Seq(0 .. 255)
    BY <2>2, <2>3
  <2>6. Wide!Announced(l3[1]) = 3  BY <2>2, <2>5, Announces
  <2>7. Wide!Decoded = w
    <3>1. \A i \in 1 .. Len(l3) : l3[i] \in Int  BY <2>2, <2>5
    <3> QED  BY <2>2, <2>5, <3>1, DecodedSums
  <2>8. Wide!Shortest[3] = 2048  BY DEF Wide!Shortest
  <2>9. \A i \in 2 .. Len(l3) : l3[i] \in 128 .. 191
    <3> TAKE i \in 2 .. Len(l3)
    <3>1. i = 2 \/ i = 3  BY <2>5
    <3>2. CASE i = 2  BY <2>2, <2>5, <3>2
    <3>3. CASE i = 3  BY <2>2, <2>5, <3>3
    <3> QED  BY <3>1, <3>2, <3>3
  <2> QED  BY <2>1, <2>4, <2>5, <2>6, <2>7, <2>8, <2>9
<1>9. ASSUME OfFour,
             l3 = <<240 + w18, 128 + (w12 % 64), 128 + (w6 % 64), 128 + (w % 64)>>
      PROVE  Good
  <2> DEFINE x == 240 + w18  y == 128 + (w12 % 64)  z == 128 + (w6 % 64)  t == 128 + (w % 64)
  <2>1. w \in Wide!Plane .. 17 * Wide!Plane - 1  BY <1>9 DEF OfFour
  <2>2. /\ x \in 240 .. 247 /\ y \in 128 .. 191 /\ z \in 128 .. 191 /\ t \in 128 .. 191
        /\ (((x - 240) * 64 + (y - 128)) * 64 + (z - 128)) * 64 + (t - 128) = w
    <3>1. w18 <= 7
      <4> HIDE DEF w, w6, w12, w18
      <4>1. w < 17 * Wide!Plane  BY <1>1, <2>1, PlaneType, PlaneBounds
      <4> DEFINE r6 == w % 64  r12 == w6 % 64  r18 == w12 % 64
      <4>2. /\ w \in Nat /\ w6 \in Nat /\ w12 \in Nat /\ w18 \in Nat
            /\ r6 \in Nat /\ r12 \in Nat /\ r18 \in Nat
            /\ w = w6 * 64 + r6 /\ w6 = w12 * 64 + r12 /\ w12 = w18 * 64 + r18
        BY <1>1, <1>2
      <4> HIDE DEF r6, r12, r18
      <4> QED  BY <4>1, <4>2, SequenceOfFour
    <3> HIDE DEF w, w6, w12, w18
    <3> QED  BY <1>2, <3>1
  <2>3. l3 = <<x, y, z, t>>  BY <1>9
  <2>4. w >= Wide!Plane /\ w < 17 * Wide!Plane /\ w \notin Wide!Surrogates
    <3> HIDE DEF w
    <3>1. w \in Wide!Plane .. 17 * Wide!Plane - 1  BY <2>1
    <3>2. w >= Wide!Plane /\ w < 17 * Wide!Plane
      BY <1>1, <3>1, PlaneType, PlaneBounds
    <3>3. w \notin Wide!Surrogates  BY <1>1, <1>4, <3>2, AboveSurrogates
    <3> QED  BY <3>2, <3>3
  <2> HIDE DEF x, y, z, t, w
  <2>5. /\ Len(l3) = 4 /\ l3[1] = x /\ l3[2] = y /\ l3[3] = z /\ l3[4] = t
        /\ l3 \in Seq(0 .. 255)
    BY <2>2, <2>3
  <2>6. Wide!Announced(l3[1]) = 4  BY <2>2, <2>5, Announces
  <2>7. Wide!Decoded = w
    <3>1. \A i \in 1 .. Len(l3) : l3[i] \in Int  BY <2>2, <2>5
    <3> QED  BY <2>2, <2>5, <3>1, DecodedSums
  <2>8. Wide!Shortest[4] = Wide!Plane  BY DEF Wide!Shortest
  <2>9. \A i \in 2 .. Len(l3) : l3[i] \in 128 .. 191
    <3> TAKE i \in 2 .. Len(l3)
    <3>1. i = 2 \/ i = 3 \/ i = 4  BY <2>5
    <3>2. CASE i = 2  BY <2>2, <2>5, <3>2
    <3>3. CASE i = 3  BY <2>2, <2>5, <3>3
    <3>4. CASE i = 4  BY <2>2, <2>5, <3>4
    <3> QED  BY <3>1, <3>2, <3>3, <3>4
  <2> QED  BY <2>4, <2>5, <2>6, <2>7, <2>8, <2>9
<1>10. Encoded => Good
  <2> HIDE DEF Good
  <2> QED  BY <1>3, <1>6, <1>7, <1>8, <1>9 DEF Encoded
<1>11. CASE place = "called" \/ ~l1
  <2>1. l3 = <<>> /\ l4 = 0 /\ answer = 0 /\ place \in {"called", "done"} /\ l1 \in BOOLEAN
    BY <1>11 DEF WideInv
  <2>2. Wide!TypeOK  BY <2>1 DEF Wide!TypeOK
  <2> QED  BY <1>11, <2>1, <2>2 DEF Wide!DecodedAgain, Wide!RefusedOnlyIfNone
<1>12. CASE place = "done" /\ l1 /\ l2 /\ Encoded /\ answer = Len(l3) /\ l4 = 0
  <2>1. Good  BY <1>10, <1>12
  <2>5. Len(l3) \in 1 .. 4 /\ l3 \in Seq(0 .. 255)  BY <2>1
  <2> HIDE DEF Good
  <2>2. Wide!TypeOK
    <3>1. \A i \in DOMAIN l3 : l3[i] \in 0 .. 255
      <4>1. DOMAIN l3 = 1 .. Len(l3)  BY <2>5
      <4>2. \A i \in 1 .. Len(l3) : l3[i] \in 0 .. 255
        <5> DEFINE S == 0 .. 255
        <5>1. l3 \in Seq(S)  BY <2>5
        <5> HIDE DEF S
        <5>2. \A i \in 1 .. Len(l3) : l3[i] \in S  BY <5>1
        <5> QED  BY <5>2 DEF S
      <4> QED  BY <4>1, <4>2
    <3>2. answer \in -1 .. 4  BY <1>12, <2>5
    <3> QED  BY <1>12, <3>1, <3>2 DEF Wide!TypeOK
  <2> USE DEF Good
  <2>3. Wide!DecodedAgain
    <3> HIDE DEF w
    <3> QED  BY <2>1 DEF Wide!DecodedAgain, w
  <2>4. Wide!RefusedOnlyIfNone
    <3>1. answer # -1 /\ l4 # 25  BY <1>12, <2>1
    <3> QED  BY <1>12, <3>1 DEF Wide!RefusedOnlyIfNone, Wide!EILSEQ
  <2> QED  BY <2>2, <2>3, <2>4
<1>13. CASE /\ place = "done" /\ l1 /\ ~l2 /\ answer = 1 /\ l4 = 0
            /\ params <= 127 \/ params \div 128 = 447
            /\ l3 = <<params % 256>>
  <2> DEFINE x == w % 256
  <2>1. x \in 0 .. 255 /\ (w <= 127 <=> x <= 127)
    <3>1. x \in 0 .. 255  BY <1>1
    <3>2. w <= 127 => x <= 127  BY <1>1
    <3>3. w \div 128 = 447 => x > 127 /\ w > 127  BY <1>1
    <3> QED  BY <1>13, <3>1, <3>2, <3>3
  <2> HIDE DEF x
  <2>2. l3 = <<x>> /\ l3[1] = x /\ Len(l3) = 1  BY <1>13 DEF x
  <2>3. Wide!TypeOK  BY <1>13, <2>1, <2>2 DEF Wide!TypeOK
  <2>4. Wide!RefusedOnlyIfNone  BY <1>13, <2>1, <2>2 DEF Wide!RefusedOnlyIfNone, Wide!EILSEQ
  <2> QED  BY <1>13, <2>3, <2>4 DEF Wide!DecodedAgain
<1>14. CASE place = "done" /\ l1 /\ answer = -1 /\ l4 = 25 /\ l3 = <<>> /\ (l2 => OfNone)
  <2>1. Wide!TypeOK  BY <1>14 DEF Wide!TypeOK, Wide!EILSEQ
  <2>2. Wide!RefusedOnlyIfNone  BY <1>14 DEF Wide!RefusedOnlyIfNone, Wide!EILSEQ, OfNone
  <2> QED  BY <1>14, <2>1, <2>2 DEF Wide!DecodedAgain
<1> QED  BY <1>11, <1>12, <1>13, <1>14 DEF WideInv
-----------------------------------------------------------------------------
(* A number goes on with the digits of a text to another one.              *)
Continues(text, base, first, last, g) ==
  /\ g \in [0 .. Len(text) -> Nat]
  /\ g[0] = first /\ g[Len(text)] = last
  /\ \A i \in 1 .. Len(text) : g[i] = g[i - 1] * base + text[i]

(* What is still to be written goes on with the digits written to the      *)
(* value; what has been read goes on with those still to be read to it.    *)
NumInv ==
  /\ params \in {"x", "o", "u"} /\ l1 \in Nat /\ l2 \in 0 .. l1
  /\ l3 \in Seq(0 .. Num!Base - 1) /\ answer \in -1 .. Num!IntMax
  /\ place \in {"long", "cut", "short", "printed", "read"}
  /\ place # "read" =>
       answer = 0 /\ \E g : Continues(l3, Num!Base, l2, l1, g)
  /\ place = "long" => params = "u" /\ l2 >= Half
  /\ place = "cut" => l2 # 0 /\ l2 < Half
  /\ place = "short" => l2 # 0
  /\ place = "printed" => l2 = 0 /\ (l3 # <<>> => Head(l3) # 0)
  /\ place = "read" =>
       /\ params = "u"
       /\ answer # -1 => \E g : Continues(l3, 10, answer, l1, g)
       /\ answer = -1 => l1 > Num!IntMax

LEMMA NumGiven == Half \in Nat /\ Half > 20 /\ Num!IntMax \in Nat /\ Num!IntMax >= 9
<1>1. Half \in Nat /\ Half > 20  BY LibraryAssumption DEF Num!NumeralsAssumption
<1> QED  BY <1>1 DEF Num!IntMax

LEMMA BaseFacts ==
  ASSUME params \in {"x", "o", "u"}
  PROVE  Num!Base \in {8, 10, 16} /\ (params = "u" => Num!Base = 10)
<1>1. CASE params = "x"  BY <1>1 DEF Num!Base
<1>2. CASE params = "o"  BY <1>2 DEF Num!Base
<1>3. CASE params = "u"  BY <1>3 DEF Num!Base
<1> QED  BY <1>1, <1>2, <1>3

(* Another digit is written in front of the others.                        *)
LEMMA DigitInFront ==
  ASSUME NEW base \in Nat, base > 1, NEW text \in Seq(0 .. base - 1),
         NEW rest \in Nat, NEW value \in Nat, NEW g, Continues(text, base, rest, value, g)
  PROVE  /\ <<rest % base>> \o text \in Seq(0 .. base - 1)
         /\ \E h : Continues(<<rest % base>> \o text, base, rest \div base, value, h)
         /\ rest \div base \in 0 .. rest
         /\ Head(<<rest % base>> \o text) = rest % base
         /\ <<rest % base>> \o text # <<>>
<1> DEFINE q == rest \div base  d == rest % base  n == Len(text)
           D == 0 .. base - 1
           t == <<d>> \o text
           h == [i \in 0 .. n + 1 |-> IF i = 0 THEN q ELSE g[i - 1]]
<1>1. q \in Nat /\ d \in 0 .. base - 1 /\ d \in Nat /\ rest = q * base + d /\ q <= rest
  <2>1. q \in Int /\ rest = base * q + d /\ d \in 0 .. base - 1  BY Divided
  <2>2. d \in Nat /\ d < base  BY <2>1
  <2> HIDE DEF q, d
  <2> DEFINE z == base * q
  <2>3. z = q * base  BY <2>1
  <2>4. q <= -1 => z <= -base  BY <2>1
  <2>5. q >= 0 => q <= z  BY <2>1
  <2>6. rest = z + d  BY <2>1
  <2>7. q \in Int /\ z \in Int  BY <2>1
  <2> HIDE DEF z
  <2>8. q >= 0  BY <2>2, <2>4, <2>6, <2>7
  <2>9. q \in Nat /\ q <= rest  BY <2>2, <2>5, <2>6, <2>7, <2>8
  <2>10. rest = q * base + d  BY <2>3, <2>6
  <2> QED  BY <2>1, <2>2, <2>9, <2>10
<1>2. d \in D  BY <1>1
<1>3. n \in Nat /\ text \in Seq(D)  OBVIOUS
<1> HIDE DEF q, d, D
<1>4. /\ t \in Seq(D) /\ Len(t) = n + 1 /\ t[1] = d
      /\ \A i \in 2 .. n + 1 : t[i] = text[i - 1]
      /\ Head(t) = d /\ t # <<>>
  BY <1>2, <1>3
<1>5. /\ g \in [0 .. n -> Nat] /\ g[0] = rest /\ g[n] = value
      /\ \A i \in 1 .. n : g[i] = g[i - 1] * base + text[i]
  BY DEF Continues
<1> HIDE DEF t, n
<1>6. h \in [0 .. n + 1 -> Nat]
  <2>1. \A i \in 0 .. n + 1 : i # 0 => g[i - 1] \in Nat
    <3>1. \A i \in 0 .. n + 1 : i # 0 => i - 1 \in 0 .. n  BY <1>3
    <3> QED  BY <1>5, <3>1
  <2> QED  BY <1>1, <2>1
<1>7. h[0] = q /\ h[n + 1] = value
  <2>1. 0 \in 0 .. n + 1 /\ n + 1 \in 0 .. n + 1 /\ n + 1 # 0 /\ (n + 1) - 1 = n  BY <1>3
  <2> QED  BY <1>5, <2>1
<1>8. \A i \in 1 .. n + 1 : h[i] = h[i - 1] * base + t[i]
  <2> TAKE i \in 1 .. n + 1
  <2>1. i \in 0 .. n + 1 /\ i # 0 /\ i - 1 \in 0 .. n + 1  BY <1>3
  <2>2. h[i] = g[i - 1]  BY <2>1
  <2>3. CASE i = 1
    <3>1. h[i - 1] = q /\ h[i] = rest  BY <1>5, <2>1, <2>2, <2>3
    <3> QED  BY <1>1, <1>4, <2>3, <3>1
  <2>4. CASE i # 1
    <3>1. i - 1 \in 1 .. n /\ i - 1 # 0 /\ i \in 2 .. n + 1  BY <1>3, <2>4
    <3>2. h[i - 1] = g[(i - 1) - 1]  BY <2>1, <3>1
    <3>3. g[i - 1] = g[(i - 1) - 1] * base + text[i - 1]  BY <1>5, <3>1
    <3> QED  BY <1>4, <2>2, <3>1, <3>2, <3>3
  <2> QED  BY <2>3, <2>4
<1> HIDE DEF h
<1>9. Continues(t, base, q, value, h)
  BY <1>4, <1>6, <1>7, <1>8 DEF Continues
<1>10. q \in 0 .. rest  BY <1>1
<1> QED  BY <1>4, <1>9, <1>10 DEF t, q, d, D

LEMMA Grows == ASSUME NEW x \in Nat, NEW base \in Nat, base > 1 PROVE x * base >= x
OBVIOUS

(* The first digit is read.                                                *)
LEMMA DigitRead ==
  ASSUME NEW base \in Nat, base > 1, NEW text \in Seq(0 .. base - 1), text # <<>>,
         NEW number \in Nat, NEW value \in Nat, NEW g, Continues(text, base, number, value, g)
  PROVE  /\ Head(text) \in 0 .. base - 1 /\ Tail(text) \in Seq(0 .. base - 1)
         /\ \E h : Continues(Tail(text), base, number * base + Head(text), value, h)
         /\ value >= number * base + Head(text)
<1> DEFINE n == Len(text)  D == 0 .. base - 1
           t == Tail(text)  d == Head(text)
           next == number * base + d
           h == [i \in 0 .. n - 1 |-> g[i + 1]]
<1>1. n \in Nat /\ n >= 1 /\ text \in Seq(D)  OBVIOUS
<1> HIDE DEF D
<1>2. /\ t \in Seq(D) /\ Len(t) = n - 1 /\ d = text[1] /\ d \in D
      /\ \A i \in 1 .. n - 1 : t[i] = text[i + 1]
  BY <1>1
<1>3. /\ g \in [0 .. n -> Nat] /\ g[0] = number /\ g[n] = value
      /\ \A i \in 1 .. n : g[i] = g[i - 1] * base + text[i]
  BY DEF Continues
<1>4. \A i \in 1 .. n : text[i] \in D  BY <1>1
<1> HIDE DEF t, d, n
<1>5. g[1] = next
  <2>1. 1 \in 1 .. n /\ 1 - 1 = 0  BY <1>1
  <2> QED  BY <1>2, <1>3, <2>1
<1>6. h \in [0 .. n - 1 -> Nat] /\ h[0] = next /\ h[n - 1] = value
  <2>1. \A i \in 0 .. n - 1 : i + 1 \in 0 .. n  BY <1>1
  <2>2. 0 \in 0 .. n - 1 /\ n - 1 \in 0 .. n - 1 /\ (n - 1) + 1 = n /\ 0 + 1 = 1  BY <1>1
  <2> HIDE DEF next
  <2> QED  BY <1>3, <1>5, <2>1, <2>2
<1>7. \A i \in 1 .. n - 1 : h[i] = h[i - 1] * base + t[i]
  <2> TAKE i \in 1 .. n - 1
  <2>1. i \in 0 .. n - 1 /\ i - 1 \in 0 .. n - 1 /\ i + 1 \in 1 .. n /\ (i - 1) + 1 = i
        /\ (i + 1) - 1 = i
    BY <1>1
  <2>2. h[i] = g[i + 1] /\ h[i - 1] = g[i]  BY <2>1
  <2>3. g[i + 1] = g[i] * base + text[i + 1]  BY <1>3, <2>1
  <2> QED  BY <1>2, <2>2, <2>3
<1> HIDE DEF h, next
<1>8. Continues(t, base, next, value, h)
  BY <1>2, <1>6, <1>7 DEF Continues
<1>9. value >= next
  <2> DEFINE T == {k \in 0 .. n - 1 : h[k] >= next}
  <2>1. 0 \in T
    <3>1. next \in Nat  BY <1>1, <1>6
    <3> QED  BY <1>1, <1>6, <3>1
  <2>2. \A k \in 1 .. n - 1 : k - 1 \in T => k \in T
    <3> SUFFICES ASSUME NEW k \in 1 .. n - 1, k - 1 \in T PROVE h[k] >= next
      BY <1>1
    <3>1. /\ h[k] = h[k - 1] * base + t[k] /\ h[k - 1] >= next
          /\ h[k - 1] \in Nat /\ t[k] \in Nat /\ next \in Nat
      <4>1. k - 1 \in 0 .. n - 1 /\ k + 1 \in 1 .. n /\ 0 \in 0 .. n - 1  BY <1>1
      <4>2. t[k] \in D  BY <1>2, <1>4, <4>1
      <4>3. h[0] \in Nat  BY <1>6, <4>1
      <4>4. t[k] \in Nat  BY <4>2 DEF D
      <4>5. h[k - 1] \in Nat /\ next \in Nat  BY <1>6, <4>1, <4>3
      <4>6. h[k - 1] >= next  OBVIOUS
      <4> QED  BY <1>7, <4>4, <4>5, <4>6
    <3>2. h[k - 1] * base >= h[k - 1]  BY <3>1, Grows
    <3> DEFINE x == h[k - 1] * base
    <3>3. x \in Nat  BY <3>1
    <3> HIDE DEF x
    <3>4. h[k] = x + t[k] /\ x >= h[k - 1]  BY <3>1, <3>2 DEF x
    <3> QED  BY <3>1, <3>3, <3>4
  <2>3. \A k \in 0 .. n - 1 : k \in T
    <3>1. n - 1 \in Nat  BY <1>1
    <3> HIDE DEF T
    <3> QED  BY <2>1, <2>2, <3>1, UpTo
  <2>4. n - 1 \in 0 .. n - 1  BY <1>1
  <2> QED  BY <1>6, <2>3, <2>4
<1> QED  BY <1>2, <1>8, <1>9 DEF t, d, next, D

(* What the digits are worth.                                              *)
LEMMA WorthIs ==
  ASSUME params \in {"x", "o", "u"}, l3 \in Seq(0 .. Num!Base - 1), l1 \in Nat,
         NEW g, Continues(l3, Num!Base, 0, l1, g)
  PROVE  Num!Worth = l1
<1> DEFINE n == Len(l3)
           G(w) == [i \in 0 .. n |-> IF i = 0 THEN 0 ELSE w[i - 1] * Num!Base + l3[i]]
           F == CHOOSE w : w = G(w)
           T == {k \in 0 .. n : F[k] = g[k]}
<1>1. n \in Nat  OBVIOUS
<1>2. /\ g \in [0 .. n -> Nat] /\ g[0] = 0 /\ g[n] = l1
      /\ \A i \in 1 .. n : g[i] = g[i - 1] * Num!Base + l3[i]
  BY DEF Continues
<1>3. Num!Worth = F[n]  BY DEF Num!Worth
<1> HIDE DEF n
<1>4. g = G(g)
  <2>1. g = [i \in 0 .. n |-> g[i]]  BY <1>2
  <2>2. ASSUME NEW i \in 0 .. n PROVE g[i] = IF i = 0 THEN 0 ELSE g[i - 1] * Num!Base + l3[i]
    <3>1. CASE i = 0  BY <1>2, <3>1
    <3>2. CASE i # 0
      <4>1. i \in 1 .. n  BY <1>1, <3>2
      <4>2. g[i] = g[i - 1] * Num!Base + l3[i]  BY <1>2, <4>1
      <4> QED  BY <3>2, <4>2
    <3> QED  BY <3>1, <3>2
  <2> QED  BY <2>1, <2>2
<1>5. F = G(F)
  <2> HIDE DEF G
  <2> QED  BY <1>4
<1> HIDE DEF F
<1>6. \A i \in 0 .. n : F[i] = IF i = 0 THEN 0 ELSE F[i - 1] * Num!Base + l3[i]
  BY <1>5
<1> HIDE DEF G
<1>7. 0 \in T  BY <1>1, <1>2, <1>6
<1>8. ASSUME NEW k \in 1 .. n, k - 1 \in T PROVE k \in T
  <2>1. k \in 0 .. n /\ k # 0  BY <1>1
  <2>2. F[k - 1] = g[k - 1]  BY <1>8
  <2>3. F[k] = F[k - 1] * Num!Base + l3[k]  BY <1>6, <2>1
  <2>4. g[k] = g[k - 1] * Num!Base + l3[k]  BY <1>2
  <2>5. F[k] = g[k]  BY <2>2, <2>3, <2>4
  <2> QED  BY <2>1, <2>5
<1>9. \A k \in 0 .. n : k \in T
  <2> HIDE DEF T
  <2> QED  BY <1>1, <1>7, <1>8, UpTo
<1>10. n \in 0 .. n  BY <1>1
<1> QED  BY <1>2, <1>3, <1>9, <1>10

LEMMA NumStarts == Num!Init => NumInv
<1> SUFFICES ASSUME Num!Init PROVE NumInv  OBVIOUS
<1>1. /\ params \in {"x", "o", "u"} /\ l1 \in 0 .. Half * Half - 1
      /\ l2 = l1 /\ l3 = <<>> /\ answer = 0
      /\ place = CASE l1 = 0 -> "printed"
                   [] l1 # 0 /\ params = "u" /\ l1 >= Half -> "long"
                   [] OTHER -> "short"
  BY DEF Num!Init
<1>2. l1 \in Nat /\ Half \in Nat  BY <1>1, NumGiven
<1>3. \/ l1 = 0 /\ place = "printed"
      \/ l1 # 0 /\ params = "u" /\ l1 >= Half /\ place = "long"
      \/ l1 # 0 /\ place = "short"
  <2>1. CASE l1 = 0  BY <1>1, <2>1
  <2>2. CASE l1 # 0 /\ params = "u" /\ l1 >= Half  BY <1>1, <2>2
  <2>3. CASE l1 # 0 /\ ~ (params = "u" /\ l1 >= Half)  BY <1>1, <2>3
  <2> QED  BY <2>1, <2>2, <2>3
<1>4. Num!IntMax \in Nat  BY NumGiven
<1>5. \E g : Continues(l3, Num!Base, l2, l1, g)
  <2> DEFINE g == [i \in 0 .. 0 |-> l1]
  <2>1. Len(l3) = 0  BY <1>1
  <2>2. g \in [0 .. 0 -> Nat] /\ g[0] = l1  BY <1>2
  <2> HIDE DEF g
  <2>3. Continues(l3, Num!Base, l2, l1, g)
    BY <1>1, <2>1, <2>2 DEF Continues
  <2> QED  BY <2>3
<1>6. l3 \in Seq(0 .. Num!Base - 1) /\ l2 \in 0 .. l1 /\ answer \in -1 .. Num!IntMax
  BY <1>1, <1>2, <1>4
<1> QED  BY <1>1, <1>2, <1>3, <1>5, <1>6 DEF NumInv

(* What a step that writes a digit leaves.                                 *)
LEMMA DigitKeeps ==
  ASSUME NumInv, place \in {"long", "short"}, Num!Digit
  PROVE  /\ params' = params /\ l1' = l1 /\ answer' = answer /\ Num!Base' = Num!Base
         /\ l2 \in Nat /\ l2' = l2 \div Num!Base /\ l2' \in 0 .. l1
         /\ l3' \in Seq(0 .. Num!Base - 1) /\ l3' # <<>> /\ Head(l3') = l2 % Num!Base
         /\ \E g : Continues(l3', Num!Base, l2', l1, g)
         /\ Num!Base \in {8, 10, 16} /\ (params = "u" => Num!Base = 10)
<1>1. /\ params' = params /\ l1' = l1 /\ answer' = answer
      /\ l2' = l2 \div Num!Base /\ l3' = <<l2 % Num!Base>> \o l3
  BY DEF Num!Digit
<1>2. Num!Base' = Num!Base  BY <1>1 DEF Num!Base
<1>3. /\ params \in {"x", "o", "u"} /\ l1 \in Nat /\ l2 \in 0 .. l1
      /\ l3 \in Seq(0 .. Num!Base - 1)
      /\ \E g : Continues(l3, Num!Base, l2, l1, g)
  BY DEF NumInv
<1>4. Num!Base \in {8, 10, 16} /\ (params = "u" => Num!Base = 10)  BY <1>3, BaseFacts
<1> DEFINE base == Num!Base
<1>5. base \in Nat /\ base > 1 /\ l2 \in Nat  BY <1>3, <1>4
<1>6. /\ l3' \in Seq(0 .. base - 1) /\ l3' # <<>> /\ Head(l3') = l2 % base
      /\ \E g : Continues(l3', base, l2', l1, g)
      /\ l2' \in 0 .. l2
  <2> HIDE DEF base
  <2>1. PICK g : Continues(l3, base, l2, l1, g)  BY <1>3 DEF base
  <2>2. l3 \in Seq(0 .. base - 1) /\ l1 \in Nat  BY <1>3 DEF base
  <2>3. l2' = l2 \div base /\ l3' = <<l2 % base>> \o l3  BY <1>1 DEF base
  <2> QED  BY <1>5, <2>1, <2>2, <2>3, DigitInFront
<1>7. l2' \in 0 .. l1  BY <1>3, <1>6
<1> QED  BY <1>1, <1>2, <1>4, <1>5, <1>6, <1>7

LEMMA LongKeeps == NumInv /\ Num!Long => NumInv'
<1> SUFFICES ASSUME NumInv, Num!Long PROVE NumInv'  OBVIOUS
<1>1. /\ place = "long" /\ Num!Digit
      /\ place' = IF l2 > 10 * Half - 1 THEN "long" ELSE "cut"
  BY DEF Num!Long
<1>2. /\ params = "u" /\ l2 >= Half /\ answer = 0
      /\ params \in {"x", "o", "u"} /\ l1 \in Nat /\ answer \in -1 .. Num!IntMax
  BY <1>1 DEF NumInv
<1>3. /\ params' = params /\ l1' = l1 /\ answer' = answer /\ Num!Base' = Num!Base
      /\ l2 \in Nat /\ l2' = l2 \div Num!Base /\ l2' \in 0 .. l1
      /\ l3' \in Seq(0 .. Num!Base - 1)
      /\ \E g : Continues(l3', Num!Base, l2', l1, g)
      /\ Num!Base = 10
  BY <1>1, <1>2, DigitKeeps
<1>4. /\ place' = "long" => l2' >= Half
      /\ place' = "cut" => l2' # 0 /\ l2' < Half
      /\ place' \in {"long", "cut"}
  BY <1>1, <1>2, <1>3, NumGiven
<1>5. Num!IntMax' = Num!IntMax  BY DEF Num!IntMax
<1> QED  BY <1>2, <1>3, <1>4, <1>5 DEF NumInv

LEMMA CutKeeps == NumInv /\ Num!Cut => NumInv'
<1> SUFFICES ASSUME NumInv, Num!Cut PROVE NumInv'  OBVIOUS
<1>1. /\ place = "cut" /\ l2' = l2 % Half /\ place' = IF l2 = 0 THEN "printed" ELSE "short"
      /\ params' = params /\ l1' = l1 /\ l3' = l3 /\ answer' = answer
  BY DEF Num!Cut
<1>2. l2 # 0 /\ l2 < Half /\ l2 \in 0 .. l1 /\ l1 \in Nat  BY <1>1 DEF NumInv
<1>3. l2 % Half = l2  BY <1>2, NumGiven
<1>4. l2' = l2 /\ place' = "short"  BY <1>1, <1>2, <1>3
<1>5. Num!Base' = Num!Base /\ Num!IntMax' = Num!IntMax  BY <1>1 DEF Num!Base, Num!IntMax
<1> QED  BY <1>1, <1>2, <1>4, <1>5 DEF NumInv

LEMMA ShortKeeps == NumInv /\ Num!Short => NumInv'
<1> SUFFICES ASSUME NumInv, Num!Short PROVE NumInv'  OBVIOUS
<1>1. /\ place = "short" /\ Num!Digit
      /\ place' = IF l2 > Num!Base - 1 THEN "short" ELSE "printed"
  BY DEF Num!Short
<1>2. /\ l2 # 0 /\ answer = 0
      /\ params \in {"x", "o", "u"} /\ l1 \in Nat /\ answer \in -1 .. Num!IntMax
  BY <1>1 DEF NumInv
<1>3. /\ params' = params /\ l1' = l1 /\ answer' = answer /\ Num!Base' = Num!Base
      /\ l2 \in Nat /\ l2' = l2 \div Num!Base /\ l2' \in 0 .. l1
      /\ l3' \in Seq(0 .. Num!Base - 1) /\ Head(l3') = l2 % Num!Base
      /\ \E g : Continues(l3', Num!Base, l2', l1, g)
      /\ Num!Base \in {8, 10, 16}
  BY <1>1, DigitKeeps
<1>4. /\ place' = "short" => l2' # 0
      /\ place' = "printed" => l2' = 0 /\ Head(l3') # 0
      /\ place' \in {"short", "printed"}
  <2>1. CASE Num!Base = 8  BY <1>1, <1>2, <1>3, <2>1
  <2>2. CASE Num!Base = 10  BY <1>1, <1>2, <1>3, <2>2
  <2>3. CASE Num!Base = 16  BY <1>1, <1>2, <1>3, <2>3
  <2> QED  BY <1>3, <2>1, <2>2, <2>3
<1>5. Num!IntMax' = Num!IntMax  BY DEF Num!IntMax
<1> QED  BY <1>2, <1>3, <1>4, <1>5 DEF NumInv

LEMMA TurnKeeps == NumInv /\ Num!Turn => NumInv'
<1> SUFFICES ASSUME NumInv, Num!Turn PROVE NumInv'  OBVIOUS
<1>1. /\ place = "printed" /\ params = "u" /\ place' = "read"
      /\ params' = params /\ l1' = l1 /\ l2' = l2 /\ l3' = l3 /\ answer' = answer
  BY DEF Num!Turn
<1>2. answer = 0 /\ l2 = 0 /\ \E g : Continues(l3, Num!Base, l2, l1, g)
  BY <1>1 DEF NumInv
<1>3. Num!Base = 10 /\ Num!Base' = Num!Base /\ Num!IntMax' = Num!IntMax
  BY <1>1, BaseFacts DEF Num!Base, Num!IntMax
<1>4. \E g : Continues(l3, 10, answer, l1, g)  BY <1>2, <1>3
<1> QED  BY <1>1, <1>2, <1>3, <1>4 DEF NumInv

(* When the next digit still fits an int.                                  *)
LEMMA NextFits ==
  ASSUME NEW number \in Nat, NEW max \in Nat, NEW d \in 0 .. 9
  PROVE  /\ number > max \div 10 => number * 10 + d > max
         /\ ~ (number > max \div 10) => (d > max - 10 * number <=> number * 10 + d > max)
         /\ 10 * number + d = number * 10 + d
<1>1. max \div 10 \in Nat /\ max = (max \div 10) * 10 + (max % 10) /\ max % 10 \in 0 .. 9
  OBVIOUS
<1> QED  BY <1>1

LEMMA GetintKeeps == NumInv /\ Num!Getint => NumInv'
<1> SUFFICES ASSUME NumInv, Num!Getint PROVE NumInv'  OBVIOUS
<1> DEFINE d == Head(l3)  max == Num!IntMax
           next == IF answer = -1 \/ answer > max \div 10 THEN -1
                   ELSE IF d > max - 10 * answer THEN -1 ELSE 10 * answer + d
<1>1. /\ place = "read" /\ l3 # <<>> /\ l3' = Tail(l3) /\ place' = place
      /\ params' = params /\ l1' = l1 /\ l2' = l2
      /\ answer' = next
  BY DEF Num!Getint
<1>2. /\ params = "u" /\ l1 \in Nat /\ l2 \in 0 .. l1
      /\ l3 \in Seq(0 .. Num!Base - 1) /\ answer \in -1 .. max
      /\ answer # -1 => \E g : Continues(l3, 10, answer, l1, g)
      /\ answer = -1 => l1 > max
  BY <1>1 DEF NumInv
<1>3. Num!Base = 10 /\ Num!Base' = Num!Base /\ Num!IntMax' = Num!IntMax
  BY <1>1, <1>2, BaseFacts DEF Num!Base, Num!IntMax
<1>4. max \in Nat  BY NumGiven
<1>5. l3 \in Seq(0 .. 10 - 1)  BY <1>2, <1>3
<1>6. Tail(l3) \in Seq(0 .. 10 - 1) /\ d \in 0 .. 9
  <2> DEFINE D == 0 .. 10 - 1
  <2>1. l3 \in Seq(D) /\ l3 # <<>>  BY <1>1, <1>5
  <2> HIDE DEF D
  <2>2. Tail(l3) \in Seq(D) /\ d \in D  BY <2>1
  <2> QED  BY <2>2 DEF D
<1> HIDE DEF next, max, d
<1>7. /\ next \in -1 .. max
      /\ next # -1 => \E g : Continues(Tail(l3), 10, next, l1, g)
      /\ next = -1 => l1 > max
  <2>1. CASE answer = -1
    <3>1. next = -1  BY <2>1 DEF next
    <3> QED  BY <1>2, <1>4, <2>1, <3>1
  <2>2. CASE answer # -1
    <3>1. answer \in Nat  BY <1>2, <1>4, <2>2
    <3>2. PICK g : Continues(l3, 10, answer, l1, g)  BY <1>2, <2>2
    <3>3. /\ \E h : Continues(Tail(l3), 10, answer * 10 + d, l1, h)
          /\ l1 >= answer * 10 + d
      <4> DEFINE base == 10
      <4>1. base \in Nat /\ base > 1 /\ l3 \in Seq(0 .. base - 1)
            /\ Continues(l3, base, answer, l1, g)
        BY <1>5, <3>2
      <4> HIDE DEF base
      <4>2. /\ \E h : Continues(Tail(l3), base, answer * base + Head(l3), l1, h)
            /\ l1 >= answer * base + Head(l3)
        BY <1>1, <1>2, <3>1, <4>1, DigitRead
      <4> QED  BY <4>2 DEF base, d
    <3> DEFINE more == answer * 10 + d
    <3>4. /\ answer > max \div 10 => more > max
          /\ ~ (answer > max \div 10) => (d > max - 10 * answer <=> more > max)
          /\ 10 * answer + d = more /\ more \in Nat
      BY <1>4, <1>6, <3>1, NextFits
    <3>5. \E h : Continues(Tail(l3), 10, more, l1, h)  BY <3>3
    <3>6. l1 >= more  BY <3>3
    <3> HIDE DEF more
    <3>7. next = IF more > max THEN -1 ELSE more
      <4>1. CASE answer > max \div 10  BY <2>2, <3>4, <4>1 DEF next
      <4>2. CASE ~ (answer > max \div 10)  BY <2>2, <3>4, <4>2 DEF next
      <4> QED  BY <4>1, <4>2
    <3>8. CASE more > max
      <4>1. next = -1 /\ l1 > max  BY <1>2, <1>4, <3>4, <3>6, <3>7, <3>8
      <4> QED  BY <1>4, <4>1
    <3>9. CASE ~ (more > max)
      <4>1. next = more /\ next \in -1 .. max /\ next # -1  BY <1>4, <3>4, <3>7, <3>9
      <4> QED  BY <3>5, <4>1
    <3> QED  BY <3>8, <3>9
  <2> QED  BY <2>1, <2>2
<1>8. l3' \in Seq(0 .. Num!Base - 1)  BY <1>1, <1>3, <1>6
<1> QED  BY <1>1, <1>2, <1>3, <1>7, <1>8 DEF NumInv, max

LEMMA NumStep == NumInv /\ [Num!Next]_(Num!vars) => NumInv'
<1> SUFFICES ASSUME NumInv, Num!Next \/ UNCHANGED Num!vars PROVE NumInv'  OBVIOUS
<1>1. CASE UNCHANGED Num!vars
  BY <1>1 DEF Num!vars, NumInv, Num!Base, Num!IntMax
<1> QED
  BY <1>1, LongKeeps, CutKeeps, ShortKeeps, TurnKeeps, GetintKeeps DEF Num!Next

LEMMA NumTells == NumInv => Num!TypeOK /\ Num!Printed /\ Num!ReadAgain
<1> SUFFICES ASSUME NumInv PROVE Num!TypeOK /\ Num!Printed /\ Num!ReadAgain  OBVIOUS
<1>1. /\ params \in {"x", "o", "u"} /\ l1 \in Nat /\ l2 \in 0 .. l1
      /\ l3 \in Seq(0 .. Num!Base - 1) /\ answer \in -1 .. Num!IntMax
      /\ place \in {"long", "cut", "short", "printed", "read"}
  BY DEF NumInv
<1>2. Num!TypeOK
  <2> DEFINE D == 0 .. Num!Base - 1
  <2>1. l3 \in Seq(D)  BY <1>1
  <2> HIDE DEF D
  <2>2. \A i \in DOMAIN l3 : l3[i] \in D
    <3>1. DOMAIN l3 = 1 .. Len(l3)  BY <2>1
    <3>2. \A i \in 1 .. Len(l3) : l3[i] \in D  BY <2>1
    <3> QED  BY <3>1, <3>2
  <2> QED  BY <1>1, <2>2 DEF Num!TypeOK, D
<1>3. Num!Printed
  <2> SUFFICES ASSUME place = "printed" PROVE Num!Worth = l1 /\ (l3 # <<>> => Head(l3) # 0)
    BY DEF Num!Printed
  <2>1. l2 = 0 /\ (l3 # <<>> => Head(l3) # 0) /\ \E g : Continues(l3, Num!Base, l2, l1, g)
    BY DEF NumInv
  <2>2. Num!Worth = l1  BY <1>1, <2>1, WorthIs
  <2> QED  BY <2>1, <2>2
<1>4. Num!ReadAgain
  <2> SUFFICES ASSUME place = "read", l3 = <<>>
               PROVE  answer = IF l1 <= Num!IntMax THEN l1 ELSE -1
    BY DEF Num!ReadAgain
  <2>1. /\ answer # -1 => \E g : Continues(l3, 10, answer, l1, g)
        /\ answer = -1 => l1 > Num!IntMax
    BY DEF NumInv
  <2>2. CASE answer = -1  BY <1>1, <2>1, <2>2, NumGiven
  <2>3. CASE answer # -1
    <3>1. PICK g : Continues(l3, 10, answer, l1, g)  BY <2>1, <2>3
    <3>2. Len(l3) = 0  OBVIOUS
    <3>3. g[0] = answer /\ g[0] = l1  BY <3>1, <3>2 DEF Continues
    <3> QED  BY <1>1, <3>3, NumGiven
  <2> QED  BY <2>2, <2>3
<1> QED  BY <1>2, <1>3, <1>4
-----------------------------------------------------------------------------
(***************************************************************************)
(* Long doubles.                                                           *)
(***************************************************************************)
(* What holds at 0, and at the next number if it holds at one.             *)
LEMMA ForAllNumbers ==
  ASSUME NEW T, 0 \in T, \A k \in Nat : k \in T => k + 1 \in T
  PROVE  \A k \in Nat : k \in T
<1>1. TAKE n \in Nat
<1>2. ASSUME NEW k \in 1 .. n, k - 1 \in T PROVE k \in T
  <2>1. k - 1 \in Nat /\ (k - 1) + 1 = k  OBVIOUS
  <2> QED  BY <1>2, <2>1
<1>3. \A k \in 0 .. n : k \in T  BY <1>2, UpTo
<1> QED  BY <1>3

(* The powers of two up to one.                                            *)
PowersTo(n, h) ==
  /\ h \in [0 .. n -> Nat] /\ h[0] = 1
  /\ \A i \in 1 .. n : h[i] = 2 * h[i - 1]

LEMMA PowersExist == \A n \in Nat : \E h : PowersTo(n, h)
<1> DEFINE T == {n \in Nat : \E h : PowersTo(n, h)}
<1>1. 0 \in T
  <2> DEFINE h == [i \in 0 .. 0 |-> 1]
  <2>1. PowersTo(0, h)  BY DEF PowersTo
  <2> QED  BY <2>1
<1>2. ASSUME NEW n \in Nat, n \in T PROVE n + 1 \in T
  <2>1. PICK h : PowersTo(n, h)  BY <1>2
  <2>2. h \in [0 .. n -> Nat] /\ h[0] = 1 /\ \A i \in 1 .. n : h[i] = 2 * h[i - 1]
    BY <2>1 DEF PowersTo
  <2> DEFINE g == [i \in 0 .. n + 1 |-> IF i = n + 1 THEN 2 * h[n] ELSE h[i]]
  <2>3. \A i \in 0 .. n + 1 : i # n + 1 => i \in 0 .. n  OBVIOUS
  <2>4. h[n] \in Nat  BY <2>2
  <2>5. g \in [0 .. n + 1 -> Nat]  BY <2>2, <2>3, <2>4
  <2>6. g[0] = 1  BY <2>2
  <2>7. ASSUME NEW i \in 1 .. n + 1 PROVE g[i] = 2 * g[i - 1]
    <3>1. i - 1 \in 0 .. n /\ i - 1 # n + 1 /\ i - 1 \in 0 .. n + 1  OBVIOUS
    <3>2. g[i - 1] = h[i - 1]  BY <3>1
    <3>3. CASE i = n + 1
      <4>1. g[i] = 2 * h[n] /\ i - 1 = n  BY <3>3
      <4> QED  BY <3>2, <4>1
    <3>4. CASE i # n + 1
      <4>1. g[i] = h[i] /\ i \in 1 .. n  BY <3>4
      <4> QED  BY <2>2, <3>2, <4>1
    <3> QED  BY <3>3, <3>4
  <2> HIDE DEF g
  <2>8. PowersTo(n + 1, g)  BY <2>5, <2>6, <2>7 DEF PowersTo
  <2> QED  BY <2>8
<1> HIDE DEF T
<1>3. \A n \in Nat : n \in T  BY <1>1, <1>2, ForAllNumbers
<1> QED  BY <1>3 DEF T

LEMMA PowersAgree ==
  ASSUME NEW n \in Nat, NEW m \in Nat, n <= m,
         NEW h, PowersTo(n, h), NEW g, PowersTo(m, g)
  PROVE  \A k \in 0 .. n : h[k] = g[k]
<1> DEFINE T == {k \in Nat : h[k] = g[k]}
<1>1. h[0] = 1 /\ g[0] = 1 /\ (\A i \in 1 .. n : h[i] = 2 * h[i - 1])
      /\ \A i \in 1 .. m : g[i] = 2 * g[i - 1]
  BY DEF PowersTo
<1>2. 0 \in T  BY <1>1
<1>3. ASSUME NEW k \in 1 .. n, k - 1 \in T PROVE k \in T
  <2>1. k \in Nat /\ k \in 1 .. m /\ h[k - 1] = g[k - 1]  BY <1>3
  <2> QED  BY <1>1, <2>1
<1> HIDE DEF T
<1>4. \A k \in 0 .. n : k \in T  BY <1>2, <1>3, UpTo
<1> QED  BY <1>4 DEF T

LEMMA PowerSteps ==
  /\ Long!Power[0] = 1
  /\ \A k \in Nat : Long!Power[k] \in Nat /\ Long!Power[k + 1] = 2 * Long!Power[k]
<1> DEFINE G(f) == [k \in Nat |-> IF k = 0 THEN 1 ELSE 2 * f[k - 1]]
           upto(n) == CHOOSE h : PowersTo(n, h)
           p == [n \in Nat |-> upto(n)[n]]
<1>1. \A n \in Nat : PowersTo(n, upto(n))  BY PowersExist
<1> HIDE DEF upto
<1>2. \A n \in Nat : p[n] \in Nat
  <2>1. TAKE n \in Nat
  <2>2. upto(n) \in [0 .. n -> Nat] /\ n \in 0 .. n  BY <1>1 DEF PowersTo
  <2>3. upto(n)[n] \in Nat  BY <2>2
  <2> QED  BY <2>3
<1>3. p[0] = 1  BY <1>1 DEF PowersTo
<1>4. ASSUME NEW k \in Nat PROVE p[k + 1] = 2 * p[k]
  <2> DEFINE m == k + 1
  <2>1. m \in Nat /\ m \in 1 .. m /\ m - 1 = k /\ k <= m /\ k \in 0 .. k  OBVIOUS
  <2>2. upto(m)[m] = 2 * upto(m)[k]
    <3>1. PowersTo(m, upto(m))  BY <1>1, <2>1
    <3> HIDE DEF m
    <3>2. upto(m)[m] = 2 * upto(m)[m - 1]  BY <2>1, <3>1 DEF PowersTo
    <3> QED  BY <2>1, <3>2
  <2>3. upto(k)[k] = upto(m)[k]
    <3>1. PowersTo(m, upto(m)) /\ PowersTo(k, upto(k))  BY <1>1, <2>1
    <3> HIDE DEF m
    <3> QED  BY <2>1, <3>1, PowersAgree
  <2>4. p[m] = upto(m)[m] /\ p[k] = upto(k)[k]  BY <2>1
  <2> HIDE DEF p
  <2> QED  BY <2>2, <2>3, <2>4
<1>5. p = G(p)
  <2>1. p = [k \in Nat |-> p[k]]  OBVIOUS
  <2> HIDE DEF p
  <2>2. ASSUME NEW k \in Nat PROVE p[k] = IF k = 0 THEN 1 ELSE 2 * p[k - 1]
    <3>1. CASE k = 0  BY <1>3, <3>1
    <3>2. CASE k # 0
      <4>1. k - 1 \in Nat /\ (k - 1) + 1 = k  BY <3>2
      <4> QED  BY <1>4, <3>2, <4>1
    <3> QED  BY <3>1, <3>2
  <2> QED  BY <2>1, <2>2
<1> HIDE DEF p
<1>6. PICK f : f = G(f) /\ Long!Power = f
  BY <1>5 DEF Long!Power
<1>7. f[0] = 1  BY <1>6
<1>8. ASSUME NEW k \in Nat PROVE f[k + 1] = 2 * f[k]
  <2>1. k + 1 \in Nat /\ k + 1 # 0 /\ (k + 1) - 1 = k  OBVIOUS
  <2> QED  BY <1>6, <2>1
<1>9. \A k \in Nat : f[k] \in Nat
  <2> DEFINE T == {k \in Nat : f[k] \in Nat}
  <2> HIDE DEF G
  <2>1. 0 \in T  BY <1>7
  <2>2. ASSUME NEW k \in Nat, k \in T PROVE k + 1 \in T
    <3>1. f[k] \in Nat  BY <2>2
    <3> QED  BY <1>8, <3>1
  <2> HIDE DEF T
  <2>3. \A k \in Nat : k \in T  BY <2>1, <2>2, ForAllNumbers
  <2> QED  BY <2>3 DEF T
<1> HIDE DEF G
<1> QED  BY <1>6, <1>7, <1>8, <1>9
(* A power of two.                                                          *)
Two(k) == Long!Power[k]

LEMMA TwoFacts ==
  /\ Two(0) = 1 /\ Two(1) = 2
  /\ \A k \in Nat : Two(k) \in Nat /\ Two(k) >= 1 /\ Two(k + 1) = 2 * Two(k)
<1>1. Two(0) = 1 /\ \A k \in Nat : Two(k) \in Nat /\ Two(k + 1) = 2 * Two(k)
  BY PowerSteps DEF Two
<1>2. Two(1) = 2
  <2>1. Two(0 + 1) = 2 * Two(0)  BY <1>1
  <2> QED  BY <1>1, <2>1
<1> DEFINE T == {k \in Nat : Two(k) >= 1}
<1>3. 0 \in T  BY <1>1
<1>4. ASSUME NEW k \in Nat, k \in T PROVE k + 1 \in T
  BY <1>1, <1>4
<1> HIDE DEF T
<1>5. \A k \in Nat : k \in T  BY <1>3, <1>4, ForAllNumbers
<1> QED  BY <1>1, <1>2, <1>5 DEF T

LEMMA TwoSum ==
  ASSUME NEW a \in Nat, NEW b \in Nat
  PROVE  Two(a + b) = Two(a) * Two(b)
<1> DEFINE T == {k \in Nat : Two(a + k) = Two(a) * Two(k)}
<1>1. 0 \in T
  <2>1. Two(a + 0) = Two(a) * Two(0)  BY TwoFacts
  <2> QED  BY <2>1
<1>2. ASSUME NEW k \in Nat, k \in T PROVE k + 1 \in T
  <2>1. Two(a + k) = Two(a) * Two(k)  BY <1>2
  <2>2. Two((a + k) + 1) = 2 * Two(a + k) /\ Two(k + 1) = 2 * Two(k)
        /\ Two(a) \in Nat /\ Two(k) \in Nat
    BY TwoFacts
  <2>3. (a + k) + 1 = a + (k + 1) /\ k + 1 \in Nat  OBVIOUS
  <2>4. Two(a + (k + 1)) = Two(a) * Two(k + 1)
    <3> DEFINE x == Two(a)  y == Two(k)
    <3>1. Two(a + (k + 1)) = 2 * (x * y)  BY <2>1, <2>2, <2>3
    <3>2. 2 * (x * y) = x * (2 * y)
      <4>1. x \in Nat /\ y \in Nat  BY <2>2
      <4> HIDE DEF x, y
      <4> QED  BY <4>1
    <3> HIDE DEF x
    <3> QED  BY <2>2, <3>1, <3>2 DEF x
  <2> QED  BY <2>3, <2>4
<1> HIDE DEF T
<1>3. \A k \in Nat : k \in T  BY <1>1, <1>2, ForAllNumbers
<1> QED  BY <1>3 DEF T

LEMMA TwoGrows ==
  ASSUME NEW a \in Nat, NEW b \in Nat
  PROVE  /\ a <= b => Two(a) <= Two(b)
         /\ a < b => 2 * Two(a) <= Two(b)
<1>1. ASSUME NEW c \in Nat, NEW k \in Nat PROVE Two(c) <= Two(c + k)
  <2>1. Two(c + k) = Two(c) * Two(k) /\ Two(c) \in Nat /\ Two(k) \in Nat /\ Two(k) >= 1
    BY TwoFacts, TwoSum
  <2> DEFINE x == Two(c)  y == Two(k)
  <2>2. x <= x * y
    <3>1. x \in Nat /\ y \in Nat /\ y >= 1  BY <2>1
    <3> HIDE DEF x, y
    <3> QED  BY <3>1
  <2> QED  BY <2>1, <2>2
<1>2. ASSUME a <= b PROVE Two(a) <= Two(b)
  <2>1. b - a \in Nat /\ a + (b - a) = b  BY <1>2
  <2>2. Two(a) <= Two(a + (b - a))  BY <1>1, <2>1
  <2> QED  BY <2>1, <2>2
<1>3. ASSUME a < b PROVE 2 * Two(a) <= Two(b)
  <2>1. b - (a + 1) \in Nat /\ (a + 1) + (b - (a + 1)) = b /\ a + 1 \in Nat  BY <1>3
  <2>2. Two(a + 1) <= Two((a + 1) + (b - (a + 1)))  BY <1>1, <2>1
  <2>3. Two(a + 1) = 2 * Two(a)  BY TwoFacts
  <2> QED  BY <2>1, <2>2, <2>3
<1> QED  BY <1>2, <1>3

(* The widths and the biases.                                               *)
LEMMA LongGiven ==
  /\ LongWord \in Nat /\ HighFrac \in Nat /\ HighFrac > 0
  /\ SrcExp \in Nat /\ DstExp \in Nat /\ DstExp > 0 /\ DstExp < SrcExp
  /\ DstFrac \in Nat /\ DstFrac > 0
  /\ Long!SrcFrac = HighFrac + LongWord /\ Long!SrcFrac = DstFrac + Long!Discard
  /\ Long!SrcFrac \in Nat /\ Long!Discard \in Nat
  /\ Long!Discard >= 2 /\ Long!Discard < LongWord /\ HighFrac + 1 <= Long!Discard
  /\ HighFrac + 1 < LongWord
BY LibraryAssumption DEF Long!LongDoubleAssumption, Long!SrcFrac, Long!Discard

LEMMA LongBiases ==
  /\ Long!SrcBias \in Nat /\ Long!DstBias \in Nat /\ Long!DstBias < Long!SrcBias
  /\ Long!SrcInf = 2 * Long!SrcBias + 1 /\ Long!DstInf = 2 * Long!DstBias + 1
<1> DEFINE p == SrcExp - 1  q == DstExp - 1
<1>1. p \in Nat /\ q \in Nat /\ q < p /\ p + 1 = SrcExp /\ q + 1 = DstExp  BY LongGiven
<1> HIDE DEF p, q
<1>2. /\ Two(p) \in Nat /\ Two(q) \in Nat /\ Two(q) >= 1
      /\ Two(p + 1) = 2 * Two(p) /\ Two(q + 1) = 2 * Two(q) /\ 2 * Two(q) <= Two(p)
  BY <1>1, TwoFacts, TwoGrows
<1>3. /\ Long!SrcBias = Two(p) - 1 /\ Long!DstBias = Two(q) - 1
      /\ Long!SrcInf = Two(p + 1) - 1 /\ Long!DstInf = Two(q + 1) - 1
  BY <1>1 DEF Long!SrcBias, Long!DstBias, Long!SrcInf, Long!DstInf, Two, p, q
<1> QED  BY <1>2, <1>3

(* A number in front of a place and behind it.                              *)
LEMMA AtPlace ==
  ASSUME NEW x \in Nat, NEW k \in Nat
  PROVE  /\ x \div Two(k) \in Nat /\ x % Two(k) \in 0 .. Two(k) - 1
         /\ x = (x \div Two(k)) * Two(k) + (x % Two(k))
<1> DEFINE m == Two(k)
<1>1. m \in Nat /\ m > 0  BY TwoFacts
<1> HIDE DEF m
<1>2. /\ x \div m \in Int /\ x = m * (x \div m) + (x % m) /\ x % m \in 0 .. m - 1
  BY <1>1, Divided
<1> DEFINE q == x \div m  r == x % m
<1>3. q \in Int /\ r \in 0 .. m - 1 /\ x = m * q + r  BY <1>2
<1> HIDE DEF q, r
<1>4. q >= 0
  <2>1. q < 0 => m * q <= -m  BY <1>1, <1>3
  <2> QED  BY <1>1, <1>3, <2>1
<1>5. q \in Nat /\ x = q * m + r  BY <1>1, <1>3, <1>4
<1> QED  BY <1>3, <1>5 DEF q, r, m

LEMMA PlaceUnique ==
  ASSUME NEW k \in Nat, NEW q \in Nat, NEW r \in 0 .. Two(k) - 1
  PROVE  (q * Two(k) + r) \div Two(k) = q /\ (q * Two(k) + r) % Two(k) = r
<1> DEFINE m == Two(k)
<1>1. m \in Nat /\ m > 0 /\ r \in 0 .. m - 1  BY TwoFacts
<1> HIDE DEF m
<1>2. q * m = m * q  BY <1>1
<1>3. (m * q + r) \div m = q /\ (m * q + r) % m = r  BY <1>1, DivUnique
<1>4. (q * m + r) \div m = q /\ (q * m + r) % m = r  BY <1>2, <1>3
<1> QED  BY <1>4 DEF m

(* The shifts of a word: to the right the quotient stays, to the left the   *)
(* remainder moves up.                                                      *)
LEMMA ShiftOfWord ==
  ASSUME NEW x \in Nat, NEW k \in Nat, k < LongWord
  PROVE  /\ Long!Shr(x, k) = x \div Two(k)
         /\ Long!Shl(x, k) = (x % Two(LongWord - k)) * Two(k)
<1>1. k % LongWord = k  BY LongGiven
<1> DEFINE j == LongWord - k  up == x \div Two(j)  low == x % Two(j)
<1>2. j \in Nat /\ k + j = LongWord /\ j + k = LongWord  BY LongGiven
<1> HIDE DEF j
<1>3. up \in Nat /\ low \in 0 .. Two(j) - 1 /\ x = up * Two(j) + low
  BY <1>2, AtPlace
<1> HIDE DEF up, low
<1>4. Two(LongWord) = Two(j) * Two(k) /\ Two(j) \in Nat /\ Two(k) \in Nat /\ Two(k) >= 1
      /\ Two(j) >= 1
  BY <1>2, TwoSum, TwoFacts
<1> DEFINE a == Two(j)  b == Two(k)
<1>5. a \in Nat /\ b \in Nat /\ b >= 1 /\ a >= 1 /\ low \in Nat /\ low <= a - 1 /\ x = up * a + low
  BY <1>3, <1>4
<1>6. Two(LongWord) = a * b  BY <1>4
<1> HIDE DEF a, b
<1>7. x * b = up * (a * b) + low * b  BY <1>3, <1>5
<1>8. low * b \in Nat /\ low * b <= (a * b) - 1
  <2>1. low * b \in Nat  BY <1>5
  <2>2. low * b <= (a - 1) * b  BY <1>5
  <2>3. (a - 1) * b = a * b - b  BY <1>5
  <2>4. a * b \in Nat  BY <1>5
  <2> QED  BY <1>5, <2>1, <2>2, <2>3, <2>4
<1> DEFINE r == low * b
<1>9. r \in 0 .. Two(LongWord) - 1
  <2>1. r \in Nat /\ r <= Two(LongWord) - 1  BY <1>6, <1>8
  <2>2. Two(LongWord) \in Nat  BY TwoFacts, LongGiven
  <2> HIDE DEF r
  <2> QED  BY <2>1, <2>2
<1>10. x * b = up * Two(LongWord) + r  BY <1>6, <1>7
<1> HIDE DEF r
<1>11. (x * b) % Two(LongWord) = r  BY <1>3, <1>9, <1>10, PlaceUnique, LongGiven
<1>12. Long!Shl(x, k) = (x * b) % Two(LongWord)
  BY <1>1 DEF Long!Shl, Two, b
<1>13. Long!Shr(x, k) = x \div Two(k)  BY <1>1 DEF Long!Shr, Two
<1> QED  BY <1>11, <1>12, <1>13 DEF r, low, b, j

(* Two words and what they are together.                                    *)
Together(lo, hi) == hi * Two(LongWord) + lo

LEMMA KeptAndLost ==
  ASSUME NEW lo \in 0 .. Two(LongWord) - 1, NEW hi \in 0 .. Two(Long!Discard) - 1
  PROVE  /\ Long!Kept(lo, hi) \in Nat /\ Long!Lost(lo) \in 0 .. Two(Long!Discard) - 1
         /\ Together(lo, hi) = Long!Kept(lo, hi) * Two(Long!Discard) + Long!Lost(lo)
<1> DEFINE d == Long!Discard  c == LongWord - d
           p == Two(d)  q == Two(c)  up == lo \div p  low == lo % p
<1>1. d \in Nat /\ d < LongWord /\ c \in Nat /\ c < LongWord /\ c + d = LongWord
      /\ LongWord - c = d
  BY LongGiven
<1>2. lo \in Nat /\ hi \in Nat  BY LongGiven, TwoFacts
<1> HIDE DEF d, c
<1>3. Two(LongWord) = q * p /\ p \in Nat /\ q \in Nat /\ p >= 1  BY <1>1, TwoSum, TwoFacts
<1>4. up \in Nat /\ low \in 0 .. p - 1 /\ lo = up * p + low  BY <1>1, <1>2, AtPlace
<1>5. Long!Shr(lo, d) = up  BY <1>1, <1>2, ShiftOfWord
<1>6. Long!Shl(hi, c) = hi * q
  <2>1. Long!Shl(hi, c) = (hi % p) * q  BY <1>1, <1>2, ShiftOfWord
  <2>2. hi % p = hi
    <3>1. hi \in 0 .. p - 1  BY DEF d
    <3> HIDE DEF p
    <3> QED  BY <1>2, <1>3, <3>1
  <2> QED  BY <2>1, <2>2
<1>7. Long!Kept(lo, hi) = up + hi * q  BY <1>5, <1>6 DEF Long!Kept, d, c
<1>8. Long!Lost(lo) = low  BY DEF Long!Lost, Two, d
<1> HIDE DEF p, q, up, low
<1>9. hi * q \in Nat  BY <1>2, <1>3
<1>10. hi * (q * p) + lo = (up + hi * q) * p + low  BY <1>2, <1>3, <1>4
<1>11. Together(lo, hi) = hi * (q * p) + lo  BY <1>3 DEF Together
<1>12. Long!Kept(lo, hi) \in Nat  BY <1>4, <1>7, <1>9
<1>13. Together(lo, hi) = Long!Kept(lo, hi) * p + Long!Lost(lo)
  BY <1>7, <1>8, <1>10, <1>11
<1>14. Long!Lost(lo) \in 0 .. p - 1  BY <1>4, <1>8
<1> QED  BY <1>12, <1>13, <1>14 DEF p, d

(* What a shift to the right drops is what the other one to the left keeps. *)
LEMMA Shifted ==
  ASSUME NEW lo \in 0 .. Two(LongWord) - 1, NEW hi \in 0 .. Two(LongWord) - 1,
         NEW k \in Nat, k > 0, k < 2 * LongWord,
         NEW right, right = Long!ShiftRight(lo, hi, k),
         NEW dropped, dropped = Long!ShiftLeft(lo, hi, 2 * LongWord - k)
  PROVE  /\ right.lo \in 0 .. Two(LongWord) - 1 /\ right.hi \in Nat
         /\ right.hi <= hi
         /\ \E rest \in 0 .. Two(k) - 1 :
              /\ Together(lo, hi) = Together(right.lo, right.hi) * Two(k) + rest
              /\ rest # 0 <=> dropped.lo # 0 \/ dropped.hi # 0
<1> DEFINE w == LongWord
<1>1. w \in Nat /\ w > 0 /\ Two(w) \in Nat /\ lo \in Nat /\ hi \in Nat
  BY LongGiven, TwoFacts
<1>2. CASE k < w
  <2> DEFINE c == w - k  j == 2 * w - k
             a == Two(k)  b == Two(c)
             h1 == hi \div a  h0 == hi % a  t1 == lo \div a  t0 == lo % a
  <2>1. /\ c \in Nat /\ c < w /\ c > 0 /\ w - c = k /\ k + c = w
        /\ (k \div w) % 2 = 0 /\ (j \div w) % 2 = 1 /\ j - w = c
    <3>1. k \div w = 0  BY <1>1, <1>2
    <3>2. j \div w = 1
      <4>1. j = w * 1 + c /\ c \in 0 .. w - 1  BY <1>1, <1>2
      <4> HIDE DEF j, c
      <4> QED  BY <1>1, <4>1, DivUnique
    <3> QED  BY <1>1, <1>2, <3>1, <3>2
  <2> HIDE DEF c, j
  <2>2. Two(w) = a * b /\ a \in Nat /\ b \in Nat /\ a >= 1 /\ b >= 1
    BY <2>1, TwoSum, TwoFacts
  <2>3. /\ h1 \in Nat /\ h0 \in 0 .. a - 1 /\ hi = h1 * a + h0
        /\ t1 \in Nat /\ t0 \in 0 .. a - 1 /\ lo = t1 * a + t0
    BY <1>1, AtPlace
  <2>4. right = [lo |-> h0 * b + t1, hi |-> h1]
    <3>1. Long!Shr(lo, k) = t1 /\ Long!Shr(hi, k) = h1 /\ Long!Shl(hi, c) = h0 * b
      BY <1>1, <1>2, <2>1, ShiftOfWord
    <3>2. right = [lo |-> Long!Shl(hi, c) + Long!Shr(lo, k), hi |-> Long!Shr(hi, k)]
      BY <2>1 DEF Long!ShiftRight, c
    <3> QED  BY <3>1, <3>2
  <2>5. dropped = [lo |-> 0, hi |-> t0 * b]
    <3>1. Long!Shl(lo, c) = t0 * b  BY <1>1, <2>1, ShiftOfWord
    <3>2. dropped = [lo |-> 0, hi |-> Long!Shl(lo, j - w)]
      BY <2>1 DEF Long!ShiftLeft, j
    <3> QED  BY <2>1, <3>1, <3>2
  <2> HIDE DEF h1, h0, t1, t0, a, b
  <2>6. t1 <= b - 1
    <3>1. t1 * a < a * b
      <4>1. t1 * a <= lo  BY <2>2, <2>3
      <4>2. lo < a * b  BY <1>1, <2>2
      <4>3. t1 * a \in Nat /\ a * b \in Nat  BY <2>2, <2>3
      <4> QED  BY <1>1, <4>1, <4>2, <4>3
    <3>2. t1 >= b => t1 * a >= a * b  BY <2>2, <2>3
    <3>3. t1 * a \in Nat /\ a * b \in Nat  BY <2>2, <2>3
    <3> QED  BY <2>2, <2>3, <3>1, <3>2, <3>3
  <2>7. h0 * b + t1 \in 0 .. Two(w) - 1
    <3>1. h0 * b \in Nat  BY <2>2, <2>3
    <3>2. h0 * b <= (a - 1) * b  BY <2>2, <2>3
    <3>3. (a - 1) * b = a * b - b /\ a * b \in Nat  BY <2>2
    <3> DEFINE x == h0 * b  y == a * b
    <3>4. x \in Nat /\ y \in Nat /\ x <= y - b /\ Two(w) = y  BY <2>2, <3>1, <3>2, <3>3
    <3> HIDE DEF x, y
    <3>5. x + t1 \in 0 .. Two(w) - 1  BY <2>2, <2>3, <2>6, <3>4
    <3> QED  BY <3>5 DEF x
  <2>8. h1 <= hi
    <3>1. h1 <= h1 * a  BY <2>2, <2>3
    <3>2. h1 * a \in Nat  BY <2>2, <2>3
    <3> QED  BY <1>1, <2>2, <2>3, <3>1, <3>2
  <2>9. hi * (a * b) + lo = (h1 * (a * b) + (h0 * b + t1)) * a + t0
    BY <2>2, <2>3
  <2>10. t0 # 0 <=> t0 * b # 0  BY <2>2, <2>3
  <2>11. Together(lo, hi) = Together(right.lo, right.hi) * a + t0
    BY <2>2, <2>4, <2>9 DEF Together
  <2>12. t0 \in 0 .. Two(k) - 1  BY <2>3 DEF a
  <2>13. t0 # 0 <=> dropped.lo # 0 \/ dropped.hi # 0  BY <2>5, <2>10
  <2>14. right.lo \in 0 .. Two(w) - 1 /\ right.hi \in Nat /\ right.hi <= hi
    BY <2>3, <2>4, <2>7, <2>8
  <2>15. Together(lo, hi) = Together(right.lo, right.hi) * Two(k) + t0  BY <2>11 DEF a
  <2> QED  BY <2>12, <2>13, <2>14, <2>15
<1>3. CASE k >= w
  <2> DEFINE e == k - w  c == 2 * w - k
             a == Two(e)
             h1 == hi \div a  h0 == hi % a
  <2>1. /\ e \in Nat /\ e < w /\ e + w = k /\ w + e = k
        /\ c \in Nat /\ c <= w /\ c > 0 /\ w - e = c /\ w - c = e
        /\ (k \div w) % 2 = 1
    <3>1. k \div w = 1
      <4>1. k = w * 1 + e /\ e \in 0 .. w - 1  BY <1>1, <1>3
      <4> HIDE DEF e
      <4> QED  BY <1>1, <4>1, DivUnique
    <3> QED  BY <1>1, <1>3, <3>1
  <2>2. right = [lo |-> Long!Shr(hi, k - w), hi |-> 0]  BY <2>1 DEF Long!ShiftRight
  <2>3. Long!Shr(hi, k - w) = h1
    <3> DEFINE f == k - w
    <3> HIDE DEF f
    <3>1. f \in Nat /\ f < w  BY <2>1 DEF f
    <3>2. Long!Shr(hi, f) = hi \div Two(f)  BY <1>1, <3>1, ShiftOfWord
    <3> QED  BY <3>2 DEF f
  <2> HIDE DEF e, c
  <2>4. Two(k) = a * Two(w) /\ a \in Nat /\ a >= 1 /\ Two(w) >= 1
    <3>1. Two(e + w) = a * Two(w)  BY <1>1, <2>1, TwoSum
    <3>2. Two(k) = Two(e + w)  BY <2>1
    <3> QED  BY <1>1, <2>1, <3>1, <3>2, TwoFacts
  <2>5. h1 \in Nat /\ h0 \in 0 .. a - 1 /\ hi = h1 * a + h0  BY <1>1, <2>1, AtPlace
  <2> HIDE DEF h1, h0, a
  <2>6. h1 <= hi
    <3>1. h1 <= h1 * a  BY <2>4, <2>5
    <3>2. h1 * a \in Nat  BY <2>4, <2>5
    <3> QED  BY <1>1, <2>4, <2>5, <3>1, <3>2
  <2> DEFINE rest == h0 * Two(w) + lo
  <2>7. rest \in 0 .. Two(k) - 1
    <3> DEFINE v == Two(w)
    <3>1. v \in Nat /\ v >= 1 /\ lo <= v - 1 /\ Two(k) = a * v  BY <1>1, <2>4
    <3> HIDE DEF v
    <3>2. h0 * v \in Nat /\ h0 * v <= (a - 1) * v /\ (a - 1) * v = a * v - v /\ a * v \in Nat
      BY <2>4, <2>5, <3>1
    <3> DEFINE x == h0 * v  y == a * v
    <3>3. x \in Nat /\ y \in Nat /\ x <= y - v /\ Two(k) = y  BY <3>1, <3>2
    <3> HIDE DEF x, y
    <3>4. x + lo \in 0 .. Two(k) - 1  BY <1>1, <3>1, <3>3
    <3> QED  BY <3>4 DEF x, v
  <2>8. rest # 0 <=> h0 # 0 \/ lo # 0
    <3> DEFINE v == Two(w)
    <3>1. v \in Nat /\ v >= 1  BY <1>1, <2>4
    <3> HIDE DEF v
    <3>2. h0 * v \in Nat /\ (h0 * v = 0 <=> h0 = 0)  BY <2>5, <3>1
    <3> DEFINE x == h0 * v
    <3> HIDE DEF x
    <3>3. x + lo # 0 <=> h0 # 0 \/ lo # 0  BY <1>1, <3>2 DEF x
    <3> QED  BY <3>3 DEF x, v
  <2>9. dropped.lo # 0 \/ dropped.hi # 0 <=> h0 # 0 \/ lo # 0
    <3>1. CASE e = 0
      <4>1. c = w /\ (c \div w) % 2 = 1 /\ c - w = 0  BY <1>1, <2>1, <3>1
      <4>2. dropped = [lo |-> 0, hi |-> Long!Shl(lo, c - w)]
        BY <4>1 DEF Long!ShiftLeft, c
      <4>3. Long!Shl(lo, 0) = (lo % Two(w - 0)) * Two(0)  BY <1>1, ShiftOfWord
      <4>4. lo % Two(w) = lo  BY <1>1
      <4>5. w - 0 = w /\ Two(0) = 1  BY <1>1, TwoFacts
      <4>6. Long!Shl(lo, 0) = lo  BY <1>1, <4>3, <4>4, <4>5
      <4>7. a = 1  BY <3>1, TwoFacts DEF a
      <4>8. h0 = 0  BY <2>5, <4>7
      <4> QED  BY <4>1, <4>2, <4>6, <4>8
    <3>2. CASE e # 0
      <4> DEFINE b == Two(c)  t1 == lo \div a  t0 == lo % a
      <4>1. /\ c < w /\ (c \div w) % 2 # 1 /\ c # 0  BY <1>1, <2>1, <3>2
      <4>2. dropped = [lo |-> Long!Shl(lo, c), hi |-> Long!Shr(lo, w - c) + Long!Shl(hi, c)]
        BY <4>1 DEF Long!ShiftLeft, c
      <4>3. /\ Long!Shl(lo, c) = t0 * b /\ Long!Shl(hi, c) = h0 * b /\ Long!Shr(lo, e) = t1
        BY <1>1, <2>1, <4>1, ShiftOfWord DEF a, h0
      <4>4. t1 \in Nat /\ t0 \in 0 .. a - 1 /\ lo = t1 * a + t0
        BY <1>1, <2>1, AtPlace DEF a
      <4>5. b \in Nat /\ b >= 1  BY <2>1, TwoFacts
      <4>6. dropped.lo = t0 * b /\ dropped.hi = t1 + h0 * b  BY <2>1, <4>2, <4>3
      <4> HIDE DEF b, t1, t0
      <4>7. /\ t0 * b \in Nat /\ (t0 * b = 0 <=> t0 = 0)
            /\ h0 * b \in Nat /\ (h0 * b = 0 <=> h0 = 0)
        BY <2>4, <2>5, <4>4, <4>5
      <4>8. lo = 0 <=> t1 = 0 /\ t0 = 0
        <5>1. t1 * a \in Nat /\ (t1 * a = 0 <=> t1 = 0)  BY <2>4, <4>4
        <5> QED  BY <2>4, <4>4, <5>1
      <4> DEFINE x == t0 * b  y == h0 * b
      <4>9. /\ dropped.lo = x /\ dropped.hi = t1 + y /\ x \in Nat /\ y \in Nat
            /\ (x = 0 <=> t0 = 0) /\ (y = 0 <=> h0 = 0)
        BY <4>6, <4>7
      <4> HIDE DEF x, y
      <4> QED  BY <4>4, <4>8, <4>9
    <3> QED  BY <3>1, <3>2
  <2>10. right.lo = h1 /\ right.hi = 0  BY <2>2, <2>3
  <2>11. Together(lo, hi) = Together(right.lo, right.hi) * Two(k) + rest
    <3> DEFINE v == Two(w)
    <3>1. v \in Nat /\ Two(k) = a * v  BY <1>1, <2>4
    <3>2. Together(lo, hi) = hi * v + lo /\ Together(right.lo, right.hi) = 0 * v + h1
      BY <2>10 DEF Together
    <3> HIDE DEF v
    <3>3. hi * v + lo = (0 * v + h1) * (a * v) + (h0 * v + lo)
      BY <1>1, <2>4, <2>5, <3>1
    <3> QED  BY <3>1, <3>2, <3>3 DEF v
  <2>12. right.lo \in 0 .. Two(w) - 1 /\ right.hi \in Nat /\ right.hi <= hi
    BY <1>1, <2>5, <2>6, <2>10
  <2> HIDE DEF rest
  <2> QED  BY <2>7, <2>8, <2>9, <2>11, <2>12
<1> QED  BY <1>1, <1>2, <1>3

(* Rounding goes up where more than half is lost, or half of an odd number. *)
LEMMA RoundFacts ==
  ASSUME NEW kept \in Nat, NEW lost \in Nat
  PROVE  LET half == Two(Long!Discard - 1)
             up == lost > half \/ (lost = half /\ kept % 2 = 1)
         IN  Long!Round(kept, lost) = IF up THEN kept + 1 ELSE kept
<1> DEFINE half == Two(Long!Discard - 1)
<1>1. half \in Nat  BY LongGiven, TwoFacts
<1>2. Long!Round(kept, lost) =
        IF lost > half THEN kept + 1
        ELSE IF lost = half THEN kept + (kept % 2) ELSE kept
  BY DEF Long!Round, Two
<1>3. kept % 2 = 0 \/ kept % 2 = 1  OBVIOUS
<1> HIDE DEF half
<1>4. Long!Round(kept, lost) =
        IF lost > half \/ (lost = half /\ kept % 2 = 1) THEN kept + 1 ELSE kept
  BY <1>1, <1>2, <1>3
<1> QED  BY <1>4 DEF half

(* Of the multiples of s next to a number the one chosen is the nearest.    *)
Apart(v, x) == IF v - x < 0 THEN -(v - x) ELSE v - x

LEMMA NearestMultiple ==
  ASSUME NEW s \in Nat, s > 0, NEW m \in Nat, NEW r \in 0 .. s - 1,
         NEW v, v = m * s + r,
         NEW up \in BOOLEAN,
         up => 2 * r >= s /\ (2 * r = s => m % 2 = 1),
         ~up => 2 * r <= s /\ (2 * r = s => m % 2 = 0),
         NEW c, c = (IF up THEN m + 1 ELSE m),
         NEW x \in Int, x <= m * s \/ x >= m * s + s
  PROVE  \/ Apart(v, c * s) < Apart(v, x)
         \/ Apart(v, c * s) = Apart(v, x) /\ (x = c * s \/ c % 2 = 0)
<1> DEFINE y == m * s
<1>1. y \in Nat  OBVIOUS
<1>2. c * s = IF up THEN y + s ELSE y
  <2>1. (m + 1) * s = m * s + s  OBVIOUS
  <2> QED  BY <2>1
<1>3. up /\ m % 2 = 1 => c % 2 = 0  OBVIOUS
<1>4. v = y + r  OBVIOUS
<1> HIDE DEF y
<1>5. CASE up
  <2>1. c * s = y + s /\ Apart(v, c * s) = s - r  BY <1>1, <1>2, <1>4, <1>5 DEF Apart
  <2>2. 2 * r >= s /\ (2 * r = s => c % 2 = 0)  BY <1>3, <1>5
  <2>3. x <= y \/ x >= y + s  BY DEF y
  <2>4. CASE x <= y
    <3>1. Apart(v, x) = (y + r) - x  BY <1>1, <1>4, <2>4 DEF Apart
    <3>2. s - r < (y + r) - x \/ (s - r = (y + r) - x /\ 2 * r = s)  BY <1>1, <2>2, <2>4
    <3> QED  BY <2>1, <2>2, <3>1, <3>2
  <2>5. CASE x >= y + s
    <3>1. Apart(v, x) = x - (y + r)  BY <1>1, <1>4, <2>5 DEF Apart
    <3>2. s - r < x - (y + r) \/ (s - r = x - (y + r) /\ x = y + s)  BY <1>1, <2>5
    <3> QED  BY <2>1, <3>1, <3>2
  <2> QED  BY <2>3, <2>4, <2>5
<1>6. CASE ~up
  <2>1. c = m /\ c * s = y /\ Apart(v, c * s) = r  BY <1>1, <1>2, <1>4, <1>6 DEF Apart
  <2>2. 2 * r <= s /\ (2 * r = s => c % 2 = 0)  BY <1>6, <2>1
  <2>3. x <= y \/ x >= y + s  BY DEF y
  <2>4. CASE x <= y
    <3>1. Apart(v, x) = (y + r) - x  BY <1>1, <1>4, <2>4 DEF Apart
    <3>2. r < (y + r) - x \/ (r = (y + r) - x /\ x = y)  BY <1>1, <2>4
    <3> QED  BY <2>1, <3>1, <3>2
  <2>5. CASE x >= y + s
    <3>1. Apart(v, x) = x - (y + r)  BY <1>1, <1>4, <2>5 DEF Apart
    <3>2. r < x - (y + r) \/ (r = x - (y + r) /\ 2 * r = s)  BY <1>1, <2>2, <2>5
    <3> QED  BY <2>1, <2>2, <3>1, <3>2
  <2> QED  BY <2>3, <2>4, <2>5
<1> QED  BY <1>5, <1>6

(* Doubles: a step of an exponent, what the fraction counts, and what a     *)
(* double is worth with both.                                               *)
Steps(e) == (IF e = 0 THEN 1 ELSE e) - 1
Counts(e, f) == IF e = 0 THEN f ELSE f + Two(DstFrac)

LEMMA WorthOfDouble ==
  ASSUME NEW e, NEW f
  PROVE  Long!DstValue(e, f) = Counts(e, f) * Two(Steps(e)) * Long!Ulp
BY DEF Long!DstValue, Counts, Steps, Two

LEMMA DoubleTypes ==
  ASSUME NEW d \in Long!Doubles
  PROVE  /\ d.exp \in 0 .. Long!DstInf /\ d.frac \in 0 .. Two(DstFrac) - 1
         /\ d = [exp |-> d.exp, frac |-> d.frac]
         /\ Steps(d.exp) \in Nat /\ Counts(d.exp, d.frac) \in Nat
         /\ Counts(d.exp, d.frac) < 2 * Two(DstFrac)
         /\ Steps(d.exp) > 0 => Counts(d.exp, d.frac) >= Two(DstFrac)
<1>1. /\ Two(DstFrac) \in Nat /\ Two(DstFrac) >= 1 /\ Long!DstInf \in Nat
  BY LongGiven, LongBiases, TwoFacts
<1>2. d \in [exp : 0 .. Long!DstInf - 1, frac : 0 .. Two(DstFrac) - 1] \/ d = [exp |-> Long!DstInf, frac |-> 0]
  BY DEF Long!Doubles, Two
<1>3. /\ d.exp \in 0 .. Long!DstInf /\ d.frac \in 0 .. Two(DstFrac) - 1
      /\ d = [exp |-> d.exp, frac |-> d.frac]
  BY <1>1, <1>2
<1> DEFINE e == d.exp  f == d.frac
<1>4. e \in Nat /\ f \in Nat /\ f <= Two(DstFrac) - 1  BY <1>1, <1>3
<1> HIDE DEF e, f
<1>5. /\ Steps(e) \in Nat /\ Counts(e, f) \in Nat /\ Counts(e, f) < 2 * Two(DstFrac)
      /\ Steps(e) > 0 => Counts(e, f) >= Two(DstFrac)
  BY <1>1, <1>4 DEF Steps, Counts
<1> QED  BY <1>3, <1>5 DEF e, f

LEMMA UlpType == Long!Ulp \in Nat /\ Long!Ulp >= 1
<1>1. Long!Ulp = Two(Long!SrcBias - Long!DstBias + Long!Discard)  BY DEF Long!Ulp, Two
<1>2. Long!SrcBias - Long!DstBias + Long!Discard \in Nat  BY LongGiven, LongBiases
<1> QED  BY <1>1, <1>2, TwoFacts

(* With a lower exponent everything is worth less.                          *)
LEMMA LowerIsLess ==
  ASSUME NEW d \in Long!Doubles, NEW g \in Nat, Steps(d.exp) < g
  PROVE  Counts(d.exp, d.frac) * Two(Steps(d.exp)) < Two(DstFrac) * Two(g)
<1> DEFINE n == Counts(d.exp, d.frac)  st == Steps(d.exp)  t == Two(st)
           b == Two(DstFrac)  h == Two(g)
<1>1. st \in Nat /\ n \in Nat /\ n < 2 * b  BY DoubleTypes
<1>2. t \in Nat /\ t >= 1 /\ h \in Nat /\ b \in Nat
  <2> HIDE DEF st
  <2> QED  BY <1>1, LongGiven, TwoFacts
<1>3. 2 * t <= h
  <2>1. st < g  OBVIOUS
  <2> HIDE DEF st
  <2> QED  BY <1>1, <2>1, TwoGrows
<1> HIDE DEF n, t, b, h
<1>4. n * t < 2 * b * t
  <2>1. n <= 2 * b - 1  BY <1>1, <1>2
  <2>2. n * t <= (2 * b - 1) * t  BY <1>1, <1>2, <2>1
  <2>3. (2 * b - 1) * t = 2 * b * t - t  BY <1>2
  <2>4. 2 * b * t \in Nat /\ n * t \in Nat  BY <1>1, <1>2
  <2> QED  BY <1>2, <2>2, <2>3, <2>4
<1>5. b * (2 * t) <= b * h  BY <1>2, <1>3
<1>6. b * (2 * t) = 2 * b * t  BY <1>2
<1>7. n * t \in Nat /\ b * h \in Nat /\ 2 * b * t \in Nat  BY <1>1, <1>2
<1>8. n * t < b * h  BY <1>4, <1>5, <1>6, <1>7
<1> QED  BY <1>8 DEF n, t, b, h, st

(* Where doubles are multiples of s, or lower, none is between two of them. *)
LEMMA BetweenDoubles ==
  ASSUME NEW d \in Long!Doubles, NEW g \in Nat, NEW m \in Nat,
         m >= Two(DstFrac) \/ g = 0,
         NEW s, s = Two(g) * Long!Ulp,
         NEW x, x = Long!DstValue(d.exp, d.frac)
  PROVE  x \in Nat /\ (x <= m * s \/ x >= m * s + s)
<1> DEFINE n == Counts(d.exp, d.frac)  st == Steps(d.exp)  t == Two(st)
           b == Two(DstFrac)  h == Two(g)  u == Long!Ulp
<1>1. st \in Nat /\ n \in Nat  BY DoubleTypes
<1>2. t \in Nat /\ h \in Nat /\ b \in Nat /\ u \in Nat /\ u >= 1
  <2> HIDE DEF st
  <2> QED  BY <1>1, LongGiven, TwoFacts, UlpType
<1>3. x = n * t * u /\ s = h * u  BY WorthOfDouble
<1>4. x \in Nat
  <2> HIDE DEF n, t, u
  <2>1. n * t \in Nat  BY <1>1, <1>2
  <2> DEFINE y == n * t
  <2> HIDE DEF y
  <2>2. y * u \in Nat  BY <1>2, <2>1 DEF y
  <2> QED  BY <1>3, <2>2 DEF y
<1>5. CASE st >= g
  <2> DEFINE j == st - g  z == Two(j)  k == n * z
  <2>1. j \in Nat /\ g + j = st  BY <1>1, <1>5
  <2> HIDE DEF j
  <2>2. t = h * z /\ z \in Nat
    <3>1. Two(g + j) = h * z  BY <2>1, TwoSum
    <3>2. z \in Nat  BY <2>1, TwoFacts
    <3> HIDE DEF z
    <3> QED  BY <2>1, <3>1, <3>2
  <2> HIDE DEF n, t, h, u, z
  <2>3. k \in Nat /\ x = k * (h * u)
    <3>1. k \in Nat  BY <1>1, <2>2
    <3>2. n * (h * z) * u = (n * z) * (h * u)  BY <1>1, <1>2, <2>2
    <3> QED  BY <1>3, <2>2, <3>1, <3>2
  <2> HIDE DEF k
  <2>4. x = k * s /\ s \in Nat
    <3>1. x = k * s  BY <1>3, <2>3
    <3>2. h * u \in Nat  BY <1>2
    <3> QED  BY <1>3, <3>1, <3>2
  <2>5. k <= m => k * s <= m * s  BY <2>3, <2>4
  <2>6. k >= m + 1 => k * s >= m * s + s
    <3>1. k >= m + 1 => k * s >= (m + 1) * s  BY <2>3, <2>4
    <3>2. (m + 1) * s = m * s + s  BY <2>4
    <3> QED  BY <3>1, <3>2
  <2>7. k <= m \/ k >= m + 1  BY <2>3
  <2> QED  BY <1>4, <2>4, <2>5, <2>6, <2>7
<1>6. CASE st < g
  <2>1. n * t < b * h  BY <1>6, LowerIsLess
  <2>2. m >= b  BY <1>1, <1>6
  <2> HIDE DEF n, t, b, h, u, st
  <2>3. b * h <= m * h  BY <1>2, <2>2
  <2> DEFINE y == n * t  v == m * h
  <2>4. y \in Nat /\ v \in Nat /\ y <= v
    <3>1. n * t \in Nat /\ b * h \in Nat /\ m * h \in Nat  BY <1>1, <1>2
    <3> QED  BY <2>1, <2>3, <3>1
  <2>5. m * s = v * u
    <3>1. m * (h * u) = (m * h) * u  BY <1>2
    <3> QED  BY <1>3, <3>1
  <2> HIDE DEF y, v
  <2>6. y * u <= v * u  BY <1>2, <2>4
  <2>7. x = y * u  BY <1>3 DEF y
  <2> QED  BY <1>4, <2>5, <2>6, <2>7
<1> QED  BY <1>1, <1>5, <1>6

(* Two doubles are not worth the same.                                      *)
LEMMA WorthDiffers ==
  ASSUME NEW c \in Long!Doubles, NEW d \in Long!Doubles, Steps(c.exp) < Steps(d.exp)
  PROVE  Counts(c.exp, c.frac) * Two(Steps(c.exp)) < Counts(d.exp, d.frac) * Two(Steps(d.exp))
<1> DEFINE n == Counts(d.exp, d.frac)  st == Steps(d.exp)  h == Two(st)  b == Two(DstFrac)
           y == Counts(c.exp, c.frac) * Two(Steps(c.exp))
<1>1. st \in Nat /\ n \in Nat /\ Steps(c.exp) \in Nat /\ (st > 0 => n >= b)
      /\ Counts(c.exp, c.frac) \in Nat
  BY DoubleTypes
<1>2. y < b * h  BY <1>1, LowerIsLess
<1>3. h \in Nat /\ b \in Nat /\ Two(Steps(c.exp)) \in Nat  BY <1>1, LongGiven, TwoFacts
<1>4. n >= b  BY <1>1
<1>5. y \in Nat  BY <1>1, <1>3
<1> HIDE DEF n, h, b, y
<1>6. b * h <= n * h /\ b * h \in Nat /\ n * h \in Nat  BY <1>1, <1>3, <1>4
<1>7. y < n * h  BY <1>2, <1>5, <1>6
<1> QED  BY <1>7 DEF y, n, h, st

LEMMA SameWorth ==
  ASSUME NEW c \in Long!Doubles, NEW d \in Long!Doubles,
         Long!DstValue(c.exp, c.frac) = Long!DstValue(d.exp, d.frac)
  PROVE  c = d
<1> DEFINE n == Counts(c.exp, c.frac)  k == Counts(d.exp, d.frac)
           st == Steps(c.exp)  su == Steps(d.exp)  t == Two(st)  h == Two(su)  u == Long!Ulp
<1>1. st \in Nat /\ su \in Nat /\ n \in Nat /\ k \in Nat  BY DoubleTypes
<1>2. t \in Nat /\ t >= 1 /\ h \in Nat /\ u \in Nat /\ u >= 1
  <2> HIDE DEF st, su
  <2> QED  BY <1>1, TwoFacts, UlpType
<1>3. n * t * u = k * h * u  BY WorthOfDouble
<1>4. n * t = k * h
  <2> HIDE DEF n, k, t, h, u
  <2> DEFINE x == n * t  y == k * h
  <2>1. x \in Nat /\ y \in Nat /\ x * u = y * u  BY <1>1, <1>2, <1>3
  <2> HIDE DEF x, y
  <2>2. x < y => x * u < y * u
    <3>1. x < y => (x + 1) * u <= y * u  BY <1>2, <2>1
    <3>2. (x + 1) * u = x * u + u /\ x * u \in Nat /\ y * u \in Nat  BY <1>2, <2>1
    <3> QED  BY <1>2, <3>1, <3>2
  <2>3. y < x => y * u < x * u
    <3>1. y < x => (y + 1) * u <= x * u  BY <1>2, <2>1
    <3>2. (y + 1) * u = y * u + u /\ x * u \in Nat /\ y * u \in Nat  BY <1>2, <2>1
    <3> QED  BY <1>2, <3>1, <3>2
  <2>4. x * u \in Nat /\ y * u \in Nat  BY <1>2, <2>1
  <2>5. x = y  BY <2>1, <2>2, <2>3, <2>4
  <2> QED  BY <2>5 DEF x, y
<1>5. n * t \in Nat /\ k * h \in Nat
  <2> HIDE DEF n, k, t, h
  <2> QED  BY <1>1, <1>2
<1>6. ~(st < su)
  <2>1. st < su => n * t < k * h  BY WorthDiffers
  <2> HIDE DEF n, k, t, h, st, su
  <2> QED  BY <1>4, <1>5, <2>1
<1>7. ~(su < st)
  <2>1. su < st => k * h < n * t  BY WorthDiffers
  <2> HIDE DEF n, k, t, h, st, su
  <2> QED  BY <1>4, <1>5, <2>1
<1>8. st = su  BY <1>1, <1>6, <1>7
<1>9. n = k
  <2>1. t = h  BY <1>8
  <2> HIDE DEF n, k, t, h, st, su
  <2>2. n < k => n * t < k * t
    <3>1. n < k => (n + 1) * t <= k * t  BY <1>1, <1>2
    <3>2. (n + 1) * t = n * t + t /\ n * t \in Nat /\ k * t \in Nat  BY <1>1, <1>2
    <3> QED  BY <1>2, <3>1, <3>2
  <2>3. k < n => k * t < n * t
    <3>1. k < n => (k + 1) * t <= n * t  BY <1>1, <1>2
    <3>2. (k + 1) * t = k * t + t /\ n * t \in Nat /\ k * t \in Nat  BY <1>1, <1>2
    <3> QED  BY <1>2, <3>1, <3>2
  <2>4. n * t = k * t /\ n * t \in Nat  BY <1>4, <1>5, <2>1
  <2> QED  BY <1>1, <2>2, <2>3, <2>4
<1>10. /\ c.exp \in Nat /\ d.exp \in Nat /\ c.frac \in Nat /\ d.frac \in Nat
       /\ c.frac < Two(DstFrac) /\ d.frac < Two(DstFrac) /\ Two(DstFrac) \in Nat
       /\ c = [exp |-> c.exp, frac |-> c.frac] /\ d = [exp |-> d.exp, frac |-> d.frac]
  <2>1. Two(DstFrac) \in Nat /\ Long!DstInf \in Nat  BY LongGiven, LongBiases, TwoFacts
  <2> QED  BY <2>1, DoubleTypes
<1>11. c.exp = d.exp /\ c.frac = d.frac
  <2> DEFINE e == c.exp  f == c.frac  e2 == d.exp  f2 == d.frac  b == Two(DstFrac)
  <2>1. /\ e \in Nat /\ e2 \in Nat /\ f \in Nat /\ f2 \in Nat /\ b \in Nat /\ f < b /\ f2 < b
    BY <1>10
  <2>2. Steps(e) = Steps(e2) /\ Counts(e, f) = Counts(e2, f2)  BY <1>8, <1>9
  <2> HIDE DEF e, f, e2, f2
  <2>3. e = e2 /\ f = f2  BY <2>1, <2>2 DEF Steps, Counts
  <2> QED  BY <2>3 DEF e, f, e2, f2
<1> QED  BY <1>10, <1>11

(* A double is the nearest to the argument.                                 *)
IsNearest(r) ==
  /\ r \in Long!Doubles
  /\ \A d \in Long!Doubles :
       \/ Long!Distances(r) < Long!Distances(d)
       \/ Long!Distances(r) = Long!Distances(d) /\ (d = r \/ r.frac % 2 = 0)

LEMMA NearestIf ==
  ASSUME NEW g \in Nat, NEW m \in Nat, m >= Two(DstFrac) \/ g = 0,
         NEW s, s = Two(g) * Long!Ulp, NEW r \in 0 .. s - 1,
         Long!SrcValue = m * s + r,
         NEW up \in BOOLEAN,
         up => 2 * r >= s /\ (2 * r = s => m % 2 = 1),
         ~up => 2 * r <= s /\ (2 * r = s => m % 2 = 0),
         NEW c, c = (IF up THEN m + 1 ELSE m),
         NEW d \in Long!Doubles, Long!DstValue(d.exp, d.frac) = c * s,
         c % 2 = 0 => d.frac % 2 = 0
  PROVE  IsNearest(d)
<1>1. s \in Nat /\ s > 0
  <2> DEFINE h == Two(g)  u == Long!Ulp
  <2>1. h \in Nat /\ h >= 1 /\ u \in Nat /\ u >= 1 /\ s = h * u  BY TwoFacts, UlpType
  <2> HIDE DEF h, u
  <2>2. h * u \in Nat /\ h * u > 0  BY <2>1
  <2> QED  BY <2>1, <2>2
<1> DEFINE v == Long!SrcValue
<1>2. \A o : Long!Distances(o) = Apart(v, Long!DstValue(o.exp, o.frac))
  BY DEF Long!Distances, Apart
<1>3. v = m * s + r  OBVIOUS
<1> HIDE DEF v
<1>4. ASSUME NEW o \in Long!Doubles
      PROVE  \/ Long!Distances(d) < Long!Distances(o)
             \/ Long!Distances(d) = Long!Distances(o) /\ (o = d \/ d.frac % 2 = 0)
  <2> DEFINE x == Long!DstValue(o.exp, o.frac)
  <2>1. x \in Nat /\ (x <= m * s \/ x >= m * s + s)  BY BetweenDoubles
  <2> HIDE DEF x
  <2>2. x \in Int  BY <2>1
  <2>3. \/ Apart(v, c * s) < Apart(v, x)
        \/ Apart(v, c * s) = Apart(v, x) /\ (x = c * s \/ c % 2 = 0)
    BY <1>1, <1>3, <2>1, <2>2, NearestMultiple
  <2>4. x = c * s => o = d  BY SameWorth DEF x
  <2>5. Long!Distances(d) = Apart(v, c * s) /\ Long!Distances(o) = Apart(v, x)
    BY <1>2 DEF x
  <2> QED  BY <2>3, <2>4, <2>5
<1> QED  BY <1>4 DEF IsNearest

(* Half of what a kept bit counts is half of s.                             *)
LEMMA HalfOf ==
  ASSUME NEW half \in Nat, NEW q \in Nat, q >= 1, NEW y \in Nat
  PROVE  /\ y > half => 2 * (y * q) > 2 * (half * q)
         /\ y < half => 2 * (y * q) < 2 * (half * q)
         /\ y = half => 2 * (y * q) = 2 * (half * q)
<1>1. half * q \in Nat /\ y * q \in Nat  OBVIOUS
<1>2. y > half => y * q >= (half + 1) * q  OBVIOUS
<1>3. y < half => (y + 1) * q <= half * q  OBVIOUS
<1>4. (half + 1) * q = half * q + q /\ (y + 1) * q = y * q + q  OBVIOUS
<1> DEFINE a == half * q  b == y * q
<1>5. /\ a \in Nat /\ b \in Nat
      /\ y > half => b >= a + q
      /\ y < half => b + q <= a
      /\ y = half => b = a
  BY <1>1, <1>2, <1>3, <1>4
<1> HIDE DEF a, b
<1>6. /\ y > half => 2 * b > 2 * a
      /\ y < half => 2 * b < 2 * a
      /\ y = half => 2 * b = 2 * a
  BY <1>5
<1> QED  BY <1>6 DEF a, b

LEMMA Halves ==
  LET half == Two(Long!Discard - 1)
  IN  half \in Nat /\ half >= 1 /\ half % 2 = 0 /\ Two(Long!Discard) = 2 * half
<1> DEFINE j == Long!Discard - 2
<1>1. j \in Nat /\ (j + 1) + 1 = Long!Discard /\ j + 1 = Long!Discard - 1 /\ j + 1 \in Nat
  BY LongGiven
<1>2. Two(j + 1) = 2 * Two(j) /\ Two((j + 1) + 1) = 2 * Two(j + 1) /\ Two(j) \in Nat
      /\ Two(j + 1) \in Nat /\ Two(j + 1) >= 1
  BY <1>1, TwoFacts
<1> DEFINE x == Two(j)
<1>3. (2 * x) % 2 = 0
  <2>1. x \in Nat  BY <1>2
  <2> HIDE DEF x
  <2> QED  BY <2>1
<1> QED  BY <1>1, <1>2, <1>3

(* The argument.                                                            *)
LongArgument == l1 \in 0 .. Long!SrcInf /\ l2 \in 0 .. Two(Long!SrcFrac) - 1

LEMMA ArgumentFacts ==
  ASSUME LongArgument
  PROVE  /\ l1 \in Nat /\ l1 <= Long!SrcInf /\ l2 \in Nat /\ l2 < Two(Long!SrcFrac)
         /\ Long!Low \in 0 .. Two(LongWord) - 1
         /\ Long!High \in 0 .. Two(HighFrac) - 1
         /\ l2 = Together(Long!Low, Long!High)
         /\ Two(Long!SrcFrac) = Two(HighFrac) * Two(LongWord)
         /\ Two(Long!SrcFrac) = Two(DstFrac) * Two(Long!Discard)
<1>1. Long!SrcInf \in Nat  BY LongBiases
<1>2. Two(Long!SrcFrac) \in Nat  BY LongGiven, TwoFacts
<1>3. l1 \in Nat /\ l1 <= Long!SrcInf /\ l2 \in Nat /\ l2 < Two(Long!SrcFrac)
  BY <1>1, <1>2 DEF LongArgument
<1> DEFINE w == Two(LongWord)  h == Two(HighFrac)  lo == Long!Low  hi == Long!High
<1>4. Two(Long!SrcFrac) = h * w /\ w \in Nat /\ h \in Nat /\ w >= 1
  <2>1. Two(HighFrac + LongWord) = h * w  BY LongGiven, TwoSum
  <2>2. Two(Long!SrcFrac) = Two(HighFrac + LongWord)  BY LongGiven
  <2> QED  BY <2>1, <2>2, LongGiven, TwoFacts
<1>5. lo = l2 % w /\ hi = l2 \div w  BY DEF Long!Low, Long!High, Two
<1>6. hi \in Nat /\ lo \in 0 .. w - 1 /\ l2 = hi * w + lo
  BY <1>3, <1>5, LongGiven, AtPlace
<1>7. Two(Long!SrcFrac) = Two(DstFrac) * Two(Long!Discard)
  BY LongGiven, TwoSum
<1> HIDE DEF w, h, lo, hi
<1>8. hi <= h - 1
  <2>1. hi >= h => hi * w >= h * w  BY <1>4, <1>6
  <2>2. hi * w \in Nat /\ h * w \in Nat  BY <1>4, <1>6
  <2>3. hi * w < h * w  BY <1>3, <1>4, <1>6, <2>2
  <2> QED  BY <1>4, <1>6, <2>1, <2>2, <2>3
<1>9. hi \in 0 .. h - 1  BY <1>4, <1>6, <1>8
<1> QED  BY <1>3, <1>4, <1>6, <1>7, <1>9 DEF Together, w, h, lo, hi

(* What the kept bits are below.                                            *)
LEMMA KeptBelow ==
  ASSUME NEW kept \in Nat, NEW lost \in Nat, NEW b \in Nat,
         kept * Two(Long!Discard) + lost < b * Two(Long!Discard)
  PROVE  kept < b
<1> DEFINE p == Two(Long!Discard)
<1>1. p \in Nat /\ p >= 1  BY LongGiven, TwoFacts
<1>2. kept * p + lost < b * p  OBVIOUS
<1> HIDE DEF p
<1>3. kept >= b => kept * p >= b * p  BY <1>1
<1>4. kept * p \in Nat /\ b * p \in Nat  BY <1>1
<1> QED  BY <1>2, <1>3, <1>4

LEMMA NormalIsNearest ==
  ASSUME LongArgument, place = "start", Long!Normal
  PROVE  /\ place' = "done" /\ params' = params /\ l1' = l1 /\ l2' = l2
         /\ IsNearest(answer')
<1> DEFINE p == Two(Long!Discard)  b == Two(DstFrac)  half == Two(Long!Discard - 1)
           bias == Long!SrcBias - Long!DstBias
           e == l1 - bias  g == e - 1
           kept == Long!Kept(Long!Low, Long!High)  lost == Long!Lost(Long!Low)
           f == Long!Round(kept, lost)
           up == lost > half \/ (lost = half /\ kept % 2 = 1)
           q == Two(g + bias)  s == Two(g) * Long!Ulp
           m == kept + b  r == lost * q
           c == IF up THEN m + 1 ELSE m
<1>1. /\ l1 \in Nat /\ l1 <= Long!SrcInf /\ l2 \in Nat /\ l2 < b * p
      /\ Long!Low \in 0 .. Two(LongWord) - 1 /\ Long!High \in 0 .. Two(HighFrac) - 1
      /\ l2 = Together(Long!Low, Long!High)
      /\ Two(Long!SrcFrac) = b * p
  BY ArgumentFacts
<1>2. /\ Long!SrcBias \in Nat /\ Long!DstBias \in Nat /\ Long!DstBias < Long!SrcBias
      /\ Long!DstInf = 2 * Long!DstBias + 1
  BY LongBiases
<1>3. bias \in Nat /\ e \in Nat /\ e >= 1 /\ e <= Long!DstInf - 1 /\ g \in Nat /\ g + 1 = e
      /\ l1 - 1 = g + bias /\ l1 # 0
  <2>1. l1 - (Long!SrcBias - Long!DstBias + 1) \in 0 .. Long!DstInf - 2
    BY DEF Long!Normal, Long!NormalRange
  <2> QED  BY <1>1, <1>2, <2>1
<1>4. /\ place' = "done" /\ params' = params /\ l1' = l1 /\ l2' = l2
      /\ answer' = IF f >= b THEN [exp |-> e + 1, frac |-> 0] ELSE [exp |-> e, frac |-> f]
  BY DEF Long!Normal, Long!Return, Two
<1> HIDE DEF bias, e, g
<1>5. Long!High \in 0 .. p - 1
  <2>1. Two(HighFrac) <= p  BY LongGiven, TwoGrows
  <2>2. Two(HighFrac) \in Nat /\ p \in Nat  BY LongGiven, TwoFacts
  <2> HIDE DEF p
  <2> QED  BY <1>1, <2>1, <2>2
<1>6. kept \in Nat /\ lost \in 0 .. p - 1 /\ l2 = kept * p + lost
  BY <1>1, <1>5, KeptAndLost
<1>7. b \in Nat /\ b >= 1 /\ p \in Nat /\ p >= 1 /\ half \in Nat /\ half >= 1 /\ p = 2 * half
  BY LongGiven, TwoFacts, Halves
<1>8. kept < b
  <2>1. lost \in Nat  BY <1>6, <1>7
  <2>2. kept * p + lost < b * p  BY <1>1, <1>6
  <2> HIDE DEF kept, lost, b
  <2> QED  BY <1>6, <1>7, <2>1, <2>2, KeptBelow
<1>9. f = IF up THEN kept + 1 ELSE kept
  <2>1. lost \in Nat  BY <1>6, <1>7
  <2> HIDE DEF kept, lost
  <2> QED  BY <1>6, <2>1, RoundFacts
<1> HIDE DEF kept, lost, f
(* The value and its parts.                                                 *)
<1>10. q \in Nat /\ q >= 1 /\ Two(g) \in Nat /\ Two(g) >= 1  BY <1>3, TwoFacts
<1>11. s = p * q
  <2> DEFINE x == Two(bias)
  <2>1. x \in Nat  BY <1>3, TwoFacts
  <2>2. Long!Ulp = Two(bias + Long!Discard)  BY DEF Long!Ulp, Two, bias
  <2>3. Two(bias + Long!Discard) = x * p  BY <1>3, LongGiven, TwoSum
  <2>4. q = Two(g) * x  BY <1>3, TwoSum
  <2> DEFINE h == Two(g)
  <2>5. h \in Nat  BY <1>10
  <2>6. h * (x * p) = p * (h * x)
    <3> HIDE DEF h, x, p
    <3> QED  BY <1>7, <2>1, <2>5
  <2> QED  BY <2>2, <2>3, <2>4, <2>6
<1>12. Long!SrcValue = (l2 + b * p) * q
  <2>1. Long!SrcValue = (l2 + Two(Long!SrcFrac)) * Two(l1 - 1)
    BY <1>3 DEF Long!SrcValue, Two
  <2> QED  BY <1>1, <1>3, <2>1
<1> HIDE DEF p, q, b, half
<1>13. Long!SrcValue = m * s + r
  <2>1. ((kept * p + lost) + b * p) * q = (kept + b) * (p * q) + lost * q
    BY <1>6, <1>7, <1>10
  <2> QED  BY <1>6, <1>11, <1>12, <2>1
<1>14. s = 2 * (half * q) /\ r \in 0 .. s - 1 /\ s \in Nat
  <2>1. (2 * half) * q = 2 * (half * q)  BY <1>7, <1>10
  <2>2. p * q \in Nat /\ lost * q \in Nat /\ lost \in Nat /\ lost <= p - 1  BY <1>6, <1>7, <1>10
  <2>3. lost * q <= (p - 1) * q /\ (p - 1) * q = p * q - q  BY <1>7, <1>10, <2>2
  <2> DEFINE x == p * q  y == lost * q
  <2>4. x \in Nat /\ y \in Nat /\ y <= x - q /\ s = x  BY <1>11, <2>2, <2>3
  <2> HIDE DEF x, y, s
  <2>5. y \in 0 .. s - 1 /\ s \in Nat  BY <1>10, <2>4
  <2>6. s = 2 * (half * q)  BY <1>7, <2>1, <2>4 DEF x
  <2> QED  BY <2>5, <2>6 DEF y
<1>15. /\ lost > half => 2 * r > s
       /\ lost < half => 2 * r < s
       /\ lost = half => 2 * r = s
  <2>1. lost \in Nat  BY <1>6, <1>7
  <2> QED  BY <1>7, <1>10, <1>14, <2>1, HalfOf
<1>16. m \in Nat /\ m >= b /\ (m % 2 = kept % 2)
  <2>1. b % 2 = 0
    <3> DEFINE j == DstFrac - 1
    <3>1. j \in Nat /\ j + 1 = DstFrac  BY LongGiven
    <3> HIDE DEF j
    <3>2. Two(j + 1) = 2 * Two(j) /\ Two(j) \in Nat  BY <3>1, TwoFacts
    <3>3. b = 2 * Two(j)  BY <3>1, <3>2 DEF b
    <3> DEFINE x == Two(j)
    <3> HIDE DEF x
    <3>4. (2 * x) % 2 = 0  BY <3>2 DEF x
    <3> QED  BY <3>3, <3>4 DEF x
  <2> QED  BY <1>6, <1>7, <2>1
<1>17. m % 2 = 0 \/ m % 2 = 1  BY <1>16
<1>18. /\ up => 2 * r >= s /\ (2 * r = s => m % 2 = 1)
       /\ ~up => 2 * r <= s /\ (2 * r = s => m % 2 = 0)
  <2>1. lost \in Nat /\ half \in Nat /\ r \in Nat /\ s \in Nat  BY <1>6, <1>7, <1>14
  <2> HIDE DEF m, r, s
  <2> QED  BY <1>15, <1>16, <1>17, <2>1
(* The result.                                                              *)
<1>19. f \in Nat /\ f <= b /\ c = f + b
  BY <1>6, <1>7, <1>8, <1>9
<1>20. /\ answer' \in Long!Doubles
       /\ Long!DstValue(answer'.exp, answer'.frac) = c * s
       /\ c % 2 = 0 => answer'.frac % 2 = 0
  <2>1. e <= Long!DstInf - 1 /\ e >= 1 /\ e \in Nat /\ Long!DstInf \in Nat  BY <1>2, <1>3
  <2>2. CASE f >= b
    <3>1. f = b /\ answer' = [exp |-> e + 1, frac |-> 0]  BY <1>4, <1>7, <1>19, <2>2
    <3>2. answer' \in Long!Doubles
      <4>1. e + 1 = Long!DstInf \/ e + 1 \in 0 .. Long!DstInf - 1  BY <2>1
      <4>2. 0 \in 0 .. b - 1  BY <1>7
      <4> QED  BY <3>1, <4>1, <4>2 DEF Long!Doubles, Two, b
    <3>3. Long!DstValue(e + 1, 0) = (0 + b) * Two(e) * Long!Ulp
      <4>1. Counts(e + 1, 0) = 0 + b /\ Steps(e + 1) = e  BY <2>1 DEF Counts, Steps, b
      <4> QED  BY <4>1, WorthOfDouble
    <3>4. Two(e) = 2 * Two(g)  BY <1>3, TwoFacts
    <3>5. (0 + b) * (2 * Two(g)) * Long!Ulp = (b + b) * (Two(g) * Long!Ulp)
      <4> DEFINE h == Two(g)  u == Long!Ulp
      <4>1. h \in Nat /\ u \in Nat  BY <1>10, UlpType
      <4> HIDE DEF h, u
      <4>2. (0 + b) * (2 * h) * u = (b + b) * (h * u)  BY <1>7, <4>1
      <4> QED  BY <4>2 DEF h, u
    <3>6. c = b + b  BY <1>19, <3>1
    <3> QED  BY <3>1, <3>2, <3>3, <3>4, <3>5, <3>6
  <2>3. CASE ~(f >= b)
    <3>1. f < b /\ answer' = [exp |-> e, frac |-> f]  BY <1>4, <1>7, <1>19, <2>3
    <3>2. answer' \in Long!Doubles
      <4>1. e \in 0 .. Long!DstInf - 1 /\ f \in 0 .. b - 1  BY <1>7, <1>19, <2>1, <3>1
      <4> QED  BY <3>1, <4>1 DEF Long!Doubles, Two, b
    <3>3. Long!DstValue(e, f) = (f + b) * Two(g) * Long!Ulp
      <4>1. Counts(e, f) = f + b /\ Steps(e) = g  BY <1>3, <2>1 DEF Counts, Steps, b
      <4> QED  BY <4>1, WorthOfDouble
    <3>4. (f + b) * Two(g) * Long!Ulp = (f + b) * (Two(g) * Long!Ulp)
      <4> DEFINE h == Two(g)  u == Long!Ulp
      <4>1. h \in Nat /\ u \in Nat  BY <1>10, UlpType
      <4> HIDE DEF h, u
      <4>2. (f + b) * h * u = (f + b) * (h * u)  BY <1>7, <1>19, <4>1
      <4> QED  BY <4>2 DEF h, u
    <3>5. c % 2 = 0 => f % 2 = 0
      <4>1. (kept + b) % 2 = kept % 2  BY <1>16
      <4>2. c = f + b /\ (f = kept \/ f = kept + 1)  BY <1>9, <1>19
      <4> HIDE DEF c, up
      <4> QED  BY <1>6, <1>7, <4>1, <4>2
    <3> QED  BY <1>19, <3>1, <3>2, <3>3, <3>4, <3>5
  <2> QED  BY <2>2, <2>3
<1> DEFINE d == answer'
<1>21. up \in BOOLEAN  OBVIOUS
<1>22. d \in Long!Doubles /\ Long!DstValue(d.exp, d.frac) = c * s /\ (c % 2 = 0 => d.frac % 2 = 0)
  BY <1>20
<1>23. s = Two(g) * Long!Ulp /\ c = (IF up THEN m + 1 ELSE m)  OBVIOUS
<1>24. m >= Two(DstFrac)  BY <1>16 DEF b
<1> HIDE DEF d, up, m, r, s, c
<1>25. IsNearest(d)
  BY <1>3, <1>13, <1>14, <1>16, <1>18, <1>21, <1>22, <1>23, <1>24, NearestIf
<1> QED  BY <1>4, <1>25 DEF d

(* Below the range of normal doubles: the significand of the argument, and  *)
(* how far it is shifted.                                                   *)
Significand == IF l1 = 0 THEN l2 ELSE l2 + Two(Long!SrcFrac)
BelowNormal == ~Long!NormalRange /\ l1 <= Long!SrcBias + Long!DstBias

LEMMA SmallFacts ==
  ASSUME LongArgument, BelowNormal,
         NEW bias, bias = Long!SrcBias - Long!DstBias,
         NEW k, k = Long!Distance
  PROVE  /\ bias \in Nat /\ k \in Nat /\ k >= 1 /\ k <= bias /\ l1 <= bias
         /\ Significand \in Nat /\ Significand < 2 * Two(Long!SrcFrac)
         /\ Long!SrcValue = Significand * Two(bias - k)
         /\ Long!Ulp = Two(k) * Two(bias - k) * Two(Long!Discard)
<1>1. l1 \in Nat /\ l2 \in Nat /\ l2 < Two(Long!SrcFrac)  BY ArgumentFacts
<1>2. /\ Long!SrcBias \in Nat /\ Long!DstBias \in Nat /\ Long!DstBias < Long!SrcBias
      /\ Long!DstInf = 2 * Long!DstBias + 1
  BY LongBiases
<1>3. bias \in Nat /\ bias >= 1  BY <1>2
<1>4. l1 <= bias
  <2>1. ~(l1 - (Long!SrcBias - Long!DstBias + 1) \in 0 .. Long!DstInf - 2)
        /\ l1 <= Long!SrcBias + Long!DstBias
    BY DEF BelowNormal, Long!NormalRange
  <2> QED  BY <1>1, <1>2, <2>1
<1>5. k = (IF l1 = 0 THEN bias ELSE bias + 1) - l1  BY DEF Long!Distance
<1>6. k \in Nat /\ k >= 1 /\ k <= bias /\ bias - k = (IF l1 = 0 THEN 1 ELSE l1) - 1
      /\ bias - k \in Nat
  BY <1>1, <1>3, <1>4, <1>5
<1>7. Two(Long!SrcFrac) \in Nat  BY LongGiven, TwoFacts
<1>8. Significand \in Nat /\ Significand < 2 * Two(Long!SrcFrac)
  BY <1>1, <1>7 DEF Significand
<1>9. Long!SrcValue = Significand * Two(bias - k)
  BY <1>6 DEF Long!SrcValue, Significand, Two
<1>10. Long!Ulp = Two(k) * Two(bias - k) * Two(Long!Discard)
  <2> DEFINE j == bias - k
  <2>1. j \in Nat /\ k + j = bias  BY <1>3, <1>6
  <2> HIDE DEF j
  <2>2. Two(k + j) = Two(k) * Two(j)  BY <1>6, <2>1, TwoSum
  <2>3. Two(bias + Long!Discard) = Two(bias) * Two(Long!Discard)  BY <1>3, LongGiven, TwoSum
  <2>4. Long!Ulp = Two(bias + Long!Discard)  BY DEF Long!Ulp, Two
  <2>5. Two(bias) = Two(k) * Two(j)  BY <2>1, <2>2
  <2> QED  BY <2>3, <2>4, <2>5 DEF j
<1> QED  BY <1>3, <1>4, <1>6, <1>8, <1>9, <1>10

(* What lies under half of the smallest double becomes zero.                *)
LEMMA FarIsNearest ==
  ASSUME LongArgument, BelowNormal, Long!Distance > Long!SrcFrac
  PROVE  IsNearest([exp |-> 0, frac |-> 0])
<1> DEFINE bias == Long!SrcBias - Long!DstBias  k == Long!Distance
           t == Two(bias - k)  x == Two(k)  p == Two(Long!Discard)  z == Two(Long!SrcFrac)
           s == Two(0) * Long!Ulp  r == Long!SrcValue  d == [exp |-> 0, frac |-> 0]
<1>1. /\ bias \in Nat /\ k \in Nat /\ k >= 1 /\ k <= bias
      /\ Significand \in Nat /\ Significand < 2 * z
      /\ Long!SrcValue = Significand * t /\ Long!Ulp = x * t * p
  BY SmallFacts
<1>2. /\ t \in Nat /\ t >= 1 /\ x \in Nat /\ p \in Nat /\ p >= 2 /\ z \in Nat
  <2> DEFINE j == bias - k
  <2>1. j \in Nat  BY <1>1
  <2> HIDE DEF j
  <2>2. Two(j) \in Nat /\ Two(j) >= 1  BY <2>1, TwoFacts
  <2>3. p >= 2  BY Halves
  <2> QED  BY <1>1, <2>2, <2>3, TwoFacts, LongGiven DEF j
<1>3. x >= 2 * z
  <2>1. Long!SrcFrac < k /\ Long!SrcFrac \in Nat  BY LongGiven
  <2> HIDE DEF k
  <2> QED  BY <1>1, <2>1, TwoGrows
<1>4. s = x * t * p  BY <1>1, UlpType, TwoFacts
<1>5. [exp |-> 0, frac |-> 0] \in Long!Doubles /\ Long!DstValue(0, 0) = 0
  <2>1. Two(DstFrac) \in Nat /\ Two(DstFrac) >= 1 /\ Long!DstInf \in Nat /\ Long!DstInf >= 1
    BY LongGiven, LongBiases, TwoFacts
  <2>2. [exp |-> 0, frac |-> 0] \in Long!Doubles  BY <2>1 DEF Long!Doubles, Two
  <2>3. Counts(0, 0) = 0 /\ Steps(0) = 0  BY DEF Counts, Steps
  <2>4. Long!DstValue(0, 0) = 0 * Two(0) * Long!Ulp  BY <2>3, WorthOfDouble
  <2> QED  BY <2>2, <2>4, TwoFacts, UlpType
<1> DEFINE n == Significand
<1>6. n \in Nat /\ n <= x /\ n < x /\ r = n * t  BY <1>1, <1>2, <1>3
<1> HIDE DEF bias, k, t, x, p, z, s, r, n
<1>7. r \in Nat /\ s \in Nat /\ 2 * r < s
  <2>1. n * t \in Nat /\ x * t \in Nat  BY <1>2, <1>6
  <2>2. (n + 1) * t <= x * t /\ (n + 1) * t = n * t + t  BY <1>2, <1>6
  <2> DEFINE y == x * t  v == n * t
  <2>3. y \in Nat /\ v \in Nat /\ v < y  BY <1>2, <2>1, <2>2
  <2> HIDE DEF y, v
  <2>4. y * p \in Nat /\ y * p >= y * 2  BY <1>2, <2>3
  <2>5. s = y * p /\ r = v  BY <1>4, <1>6 DEF y, v
  <2> QED  BY <2>3, <2>4, <2>5
<1>8. r \in 0 .. s - 1  BY <1>7
<1>9. /\ FALSE => 2 * r >= s /\ (2 * r = s => 0 % 2 = 1)
      /\ ~FALSE => 2 * r <= s /\ (2 * r = s => 0 % 2 = 0)
  BY <1>7
<1>10. Long!SrcValue = 0 * s + r  BY <1>7 DEF r
<1>11. Long!DstValue(d.exp, d.frac) = 0 * s  BY <1>5, <1>7
<1>12. 0 % 2 = 0 => d.frac % 2 = 0  OBVIOUS
<1>13. d \in Long!Doubles  BY <1>5
<1>14. s = Two(0) * Long!Ulp  BY DEF s
<1> HIDE DEF d
<1>15. IsNearest(d)
  <2> DEFINE up == FALSE  c == 0  m == 0  g == 0
  <2>1. up \in BOOLEAN /\ c = IF up THEN m + 1 ELSE m  OBVIOUS
  <2>2. /\ up => 2 * r >= s /\ (2 * r = s => m % 2 = 1)
        /\ ~up => 2 * r <= s /\ (2 * r = s => m % 2 = 0)
    BY <1>9
  <2>3. Long!DstValue(d.exp, d.frac) = c * s /\ (c % 2 = 0 => d.frac % 2 = 0)
    BY <1>11, <1>12
  <2>4. Long!SrcValue = m * s + r /\ s = Two(g) * Long!Ulp  BY <1>10, <1>14
  <2>5. g \in Nat /\ m \in Nat /\ (m >= Two(DstFrac) \/ g = 0)  OBVIOUS
  <2> HIDE DEF up, c, m, g
  <2> QED  BY <1>8, <1>13, <2>1, <2>2, <2>3, <2>4, <2>5, NearestIf
<1> QED  BY <1>15 DEF d

(* The words of the significand.                                            *)
LEMMA SignificandWords ==
  ASSUME LongArgument,
         NEW hi, hi = (IF l1 = 0 THEN Long!High ELSE Long!With(Long!High, HighFrac))
  PROVE  /\ Long!Low \in 0 .. Two(LongWord) - 1
         /\ hi \in 0 .. Two(LongWord) - 1 /\ hi \in 0 .. Two(Long!Discard) - 1
         /\ Together(Long!Low, hi) = Significand
<1> DEFINE h == Two(HighFrac)  w == Two(LongWord)  v == Long!High
<1>1. /\ Long!Low \in 0 .. w - 1 /\ v \in 0 .. h - 1
      /\ l2 = Together(Long!Low, v) /\ Two(Long!SrcFrac) = h * w
  BY ArgumentFacts
<1>2. h \in Nat /\ h >= 1 /\ w \in Nat /\ Two(HighFrac + 1) = 2 * h
  BY LongGiven, TwoFacts
<1>3. 2 * h <= w /\ 2 * h <= Two(Long!Discard)
  <2> DEFINE j == HighFrac + 1
  <2>1. j \in Nat /\ j <= LongWord /\ j <= Long!Discard /\ LongWord \in Nat /\ Long!Discard \in Nat
    BY LongGiven
  <2> HIDE DEF j
  <2>2. Two(j) <= w /\ Two(j) <= Two(Long!Discard)  BY <2>1, TwoGrows
  <2> QED  BY <1>2, <2>2 DEF j
<1>4. Two(Long!Discard) \in Nat  BY LongGiven, TwoFacts
<1>5. Long!With(v, HighFrac) = v + h
  <2>1. v = 0 * h + v /\ HighFrac \in Nat  BY <1>1, <1>2, LongGiven
  <2>2. (0 * h + v) \div h = 0
    <3> HIDE DEF v
    <3> QED  BY <1>1, LongGiven, PlaceUnique
  <2>3. v \div h = 0  BY <2>1, <2>2
  <2>4. ~Long!HasBit(v, HighFrac)  BY <2>3 DEF Long!HasBit, Two
  <2> QED  BY <2>4 DEF Long!With, Two
<1>6. hi = (IF l1 = 0 THEN v ELSE v + h)  BY <1>5
<1> HIDE DEF h, w, v
<1>7. hi \in 0 .. w - 1 /\ hi \in 0 .. Two(Long!Discard) - 1
  BY <1>1, <1>2, <1>3, <1>4, <1>6
<1>8. Together(Long!Low, hi) = Significand
  <2>1. l2 = v * w + Long!Low /\ Together(Long!Low, hi) = hi * w + Long!Low
    BY <1>1 DEF Together, w
  <2>2. (v + h) * w = v * w + h * w  BY <1>1, <1>2
  <2> DEFINE a == v * w  b == h * w
  <2>3. a \in Nat /\ b \in Nat /\ Long!Low \in Nat  BY <1>1, <1>2
  <2>4. l2 = a + Long!Low /\ Two(Long!SrcFrac) = b  BY <1>1, <2>1
  <2>5. hi * w = IF l1 = 0 THEN a ELSE a + b  BY <1>6, <2>2
  <2> DEFINE e == hi * w
  <2>6. e = (IF l1 = 0 THEN a ELSE a + b) /\ Together(Long!Low, hi) = e + Long!Low
    BY <2>1, <2>5
  <2> HIDE DEF a, b, e
  <2>7. e + Long!Low = IF l1 = 0 THEN a + Long!Low ELSE (a + Long!Low) + b
    BY <2>3, <2>6
  <2> QED  BY <2>4, <2>6, <2>7 DEF Significand
<1> QED  BY <1>1, <1>7, <1>8 DEF w

Marked(lost, rest) == IF rest # 0 THEN Long!With(lost, 0) ELSE lost
Remaining(lost, x, rest) == lost * x + rest

SameSide(c, half, y, a) ==
  /\ c \in Nat /\ y \in Nat /\ y < 2 * a
  /\ c > half => y > a
  /\ c < half => y < a
  /\ c = half => y = a

(* The lowest lost bit stands for all that was shifted out: a comparison    *)
(* with half does not see the difference.                                   *)
LEMMA Sticky ==
  ASSUME NEW half \in Nat, half >= 1, half % 2 = 0,
         NEW lost \in 0 .. (2 * half) - 1,
         NEW x \in Nat, x >= 1, NEW rest \in 0 .. x - 1
  PROVE  SameSide(Marked(lost, rest), half, Remaining(lost, x, rest), half * x)
<1> DEFINE c == Marked(lost, rest)  y == Remaining(lost, x, rest)
<1>1. lost \in Nat /\ lost <= 2 * half - 1 /\ rest \in Nat /\ rest <= x - 1  OBVIOUS
<1>2. Long!With(lost, 0) = IF lost % 2 = 1 THEN lost ELSE lost + 1
  <2>1. Long!Power[0] = 1  BY PowerSteps
  <2>2. lost \div 1 = lost  BY <1>1
  <2> QED  BY <2>1, <2>2 DEF Long!With, Long!HasBit
<1>3. c = IF rest # 0 /\ lost % 2 # 1 THEN lost + 1 ELSE lost  BY <1>2 DEF Marked
<1>4. c \in Nat  BY <1>1, <1>3
<1> DEFINE a == half * x  b == lost * x
<1>5. a \in Nat /\ b \in Nat  BY <1>1
<1>6. lost >= half => b >= a  BY <1>1
<1>7. lost >= half + 1 => b >= a + x
  <2>1. lost >= half + 1 => lost * x >= (half + 1) * x  BY <1>1
  <2>2. (half + 1) * x = half * x + x  BY <1>1
  <2> QED  BY <2>1, <2>2
<1>8. lost + 1 <= half => b + x <= a
  <2>1. lost + 1 <= half => (lost + 1) * x <= half * x  BY <1>1
  <2>2. (lost + 1) * x = lost * x + x  BY <1>1
  <2> QED  BY <2>1, <2>2
<1>9. b + x <= 2 * a
  <2>1. lost + 1 <= 2 * half  BY <1>1
  <2>2. (lost + 1) * x <= (2 * half) * x  BY <1>1, <2>1
  <2>3. (lost + 1) * x = lost * x + x /\ (2 * half) * x = 2 * (half * x)  BY <1>1
  <2> QED  BY <2>2, <2>3
<1>10. lost = half => b = a  OBVIOUS
<1>11. y = b + rest  BY DEF Remaining
<1> HIDE DEF c, y
<1> HIDE DEF a, b
<1>12. y \in Nat /\ y < 2 * a  BY <1>1, <1>5, <1>9, <1>11
<1>13. c > half => y > a
  <2>1. ASSUME c > half PROVE lost >= half + 1 \/ (lost = half /\ rest # 0)
    BY <1>1, <1>3, <2>1
  <2> QED  BY <1>1, <1>5, <1>7, <1>10, <1>11, <2>1
<1>14. c < half => y < a
  <2>1. c < half => lost + 1 <= half  BY <1>1, <1>3
  <2> QED  BY <1>1, <1>5, <1>8, <1>11, <2>1
<1>15. c = half => y = a
  <2>1. c = half => rest = 0 /\ lost = half  BY <1>1, <1>3
  <2> QED  BY <1>1, <1>5, <1>10, <1>11, <2>1
<1> QED  BY <1>4, <1>12, <1>13, <1>14, <1>15 DEF a, c, y, SameSide

(* What is kept and what is lost of a significand shifted by k, and its     *)
(* worth.                                                                   *)
LEMMA ShiftedValue ==
  ASSUME NEW kept \in Nat, NEW lost \in Nat, NEW rest \in Nat,
         NEW x \in Nat, NEW p \in Nat, NEW t \in Nat,
         NEW n, n = (kept * p + lost) * x + rest,
         NEW y, y = lost * x + rest
  PROVE  n * t = kept * (x * t * p) + y * t
<1>1. (kept * p + lost) * x = kept * p * x + lost * x  OBVIOUS
<1> DEFINE a == lost * x  b == kept * p * x
<1>2. a \in Nat /\ b \in Nat /\ n = b + (a + rest) /\ y = a + rest  BY <1>1
<1> HIDE DEF a, b
<1>3. n * t = b * t + y * t  BY <1>2
<1>4. (kept * p * x) * t = kept * (x * t * p)  OBVIOUS
<1> QED  BY <1>3, <1>4 DEF b

LEMMA NearIsNearest ==
  ASSUME LongArgument, BelowNormal, ~(Long!Distance > Long!SrcFrac),
         NEW hi, hi = (IF l1 = 0 THEN Long!High ELSE Long!With(Long!High, HighFrac)),
         NEW dropped, dropped = Long!ShiftLeft(Long!Low, hi, 2 * LongWord - Long!Distance),
         NEW right, right = Long!ShiftRight(Long!Low, hi, Long!Distance),
         NEW sticky, sticky = (Long!Distance # 0 /\ (dropped.lo # 0 \/ dropped.hi # 0)),
         NEW lost, lost = (IF sticky THEN Long!With(Long!Lost(right.lo), 0) ELSE Long!Lost(right.lo)),
         NEW f, f = Long!Round(Long!Kept(right.lo, right.hi), lost),
         NEW d, d = (IF f >= Two(DstFrac) THEN [exp |-> 1, frac |-> Long!Flipped(f, DstFrac)]
                     ELSE [exp |-> 0, frac |-> f])
  PROVE  IsNearest(d)
<1> DEFINE bias == Long!SrcBias - Long!DstBias  k == Long!Distance
           t == Two(bias - k)  x == Two(k)  p == Two(Long!Discard)  b == Two(DstFrac)
           half == Two(Long!Discard - 1)
           kept == Long!Kept(right.lo, right.hi)  low == Long!Lost(right.lo)
           n == Significand  s == Two(0) * Long!Ulp
           up == lost > half \/ (lost = half /\ kept % 2 = 1)
           c == IF up THEN kept + 1 ELSE kept
<1>1. /\ bias \in Nat /\ k \in Nat /\ k >= 1 /\ k <= bias
      /\ n \in Nat /\ n < 2 * Two(Long!SrcFrac)
      /\ Long!SrcValue = n * t /\ Long!Ulp = x * t * p
  BY SmallFacts
<1>2. k <= Long!SrcFrac /\ k < 2 * LongWord
  <2>1. Long!SrcFrac \in Nat /\ Long!SrcFrac < 2 * LongWord /\ LongWord \in Nat
    BY LongGiven
  <2> HIDE DEF k
  <2>2. ~(k > Long!SrcFrac)  BY DEF k
  <2> QED  BY <1>1, <2>1, <2>2
<1>3. /\ Long!Low \in 0 .. Two(LongWord) - 1
      /\ hi \in 0 .. Two(LongWord) - 1 /\ hi \in 0 .. p - 1
      /\ Together(Long!Low, hi) = n
  BY SignificandWords
<1>4. /\ t \in Nat /\ t >= 1 /\ x \in Nat /\ x >= 2 /\ p \in Nat /\ p >= 1 /\ b \in Nat /\ b >= 1
      /\ Two(Long!SrcFrac) = b * p
      /\ half \in Nat /\ half >= 1 /\ half % 2 = 0 /\ p = 2 * half
  <2> DEFINE j == bias - k  i == k - 1
  <2>1. j \in Nat /\ i \in Nat /\ i + 1 = k  BY <1>1
  <2> HIDE DEF j, i
  <2>2. Two(j) \in Nat /\ Two(j) >= 1  BY <2>1, TwoFacts
  <2>3. Two(i + 1) = 2 * Two(i) /\ Two(i) >= 1 /\ Two(i) \in Nat  BY <2>1, TwoFacts
  <2>4. x \in Nat /\ x >= 2  BY <2>1, <2>3
  <2> QED  BY <2>2, <2>4, ArgumentFacts, TwoFacts, LongGiven, Halves DEF j
<1> HIDE DEF k, t
<1>5. PICK rest \in 0 .. x - 1 :
        /\ n = Together(right.lo, right.hi) * x + rest
        /\ rest # 0 <=> dropped.lo # 0 \/ dropped.hi # 0
  <2>1. right = Long!ShiftRight(Long!Low, hi, k) /\ dropped = Long!ShiftLeft(Long!Low, hi, 2 * LongWord - k)
    BY DEF k
  <2>2. k > 0  BY <1>1
  <2>3. \E rest \in 0 .. Two(k) - 1 :
          /\ Together(Long!Low, hi) = Together(right.lo, right.hi) * Two(k) + rest
          /\ rest # 0 <=> dropped.lo # 0 \/ dropped.hi # 0
    BY <1>1, <1>2, <1>3, <2>1, <2>2, Shifted
  <2> QED  BY <1>3, <2>3
<1>6. right.lo \in 0 .. Two(LongWord) - 1 /\ right.hi \in 0 .. p - 1
  <2>1. right = Long!ShiftRight(Long!Low, hi, k) /\ dropped = Long!ShiftLeft(Long!Low, hi, 2 * LongWord - k)
    BY DEF k
  <2>2. k > 0  BY <1>1
  <2>3. right.lo \in 0 .. Two(LongWord) - 1 /\ right.hi \in Nat /\ right.hi <= hi
    BY <1>1, <1>2, <1>3, <2>1, <2>2, Shifted
  <2> HIDE DEF p
  <2> QED  BY <1>3, <1>4, <2>3
<1>7. kept \in Nat /\ low \in 0 .. p - 1 /\ Together(right.lo, right.hi) = kept * p + low
  BY <1>6, KeptAndLost
<1>8. lost = Marked(low, rest)
  <2>1. Long!Distance # 0  BY <1>1 DEF k
  <2>2. sticky <=> rest # 0  BY <1>5, <2>1
  <2>3. lost = IF sticky THEN Long!With(low, 0) ELSE low  OBVIOUS
  <2> HIDE DEF low
  <2> QED  BY <2>2, <2>3 DEF Marked
<1> HIDE DEF kept, low, n, x, p, half, b
<1>9. low \in Nat /\ rest \in Nat  BY <1>4, <1>5, <1>7
<1> DEFINE y == low * x + rest
<1>10. /\ lost \in Nat /\ y \in Nat /\ y < 2 * (half * x)
       /\ lost > half => y > half * x
       /\ lost < half => y < half * x
       /\ lost = half => y = half * x
  <2>1. low \in 0 .. (2 * half) - 1 /\ x >= 1  BY <1>4, <1>7
  <2>2. y = Remaining(low, x, rest)  BY DEF Remaining
  <2>3. half \in Nat /\ half >= 1 /\ half % 2 = 0 /\ x \in Nat /\ rest \in 0 .. x - 1
    BY <1>4, <1>5
  <2>4. SameSide(Marked(low, rest), half, Remaining(low, x, rest), half * x)
    BY <2>1, <2>3, Sticky
  <2>5. SameSide(lost, half, y, half * x)  BY <1>8, <2>2, <2>4
  <2> HIDE DEF y
  <2> QED  BY <2>5 DEF SameSide
<1>11. f = c
  <2>1. Long!Round(kept, lost) = IF up THEN kept + 1 ELSE kept
    BY <1>7, <1>10, RoundFacts DEF half
  <2>2. f = Long!Round(kept, lost)  BY DEF kept
  <2> QED  BY <2>1, <2>2
(* The value and its parts.                                                 *)
<1>12. s = x * t * p
  <2>1. Long!Ulp = x * t * p  BY <1>1
  <2> QED  BY <2>1, UlpType, TwoFacts
<1>13. Long!SrcValue = kept * s + y * t
  <2>1. n = (kept * p + low) * x + rest  BY <1>5, <1>7
  <2>2. n * t = kept * (x * t * p) + y * t
    BY <1>4, <1>7, <1>9, <2>1, ShiftedValue
  <2> QED  BY <1>1, <1>12, <2>2
<1>14. kept < b
  <2> DEFINE z == kept * p + low  e == b * p
  <2>1. z \in Nat /\ e \in Nat /\ n = z * x + rest  BY <1>4, <1>5, <1>7, <1>9
  <2>2. n < 2 * e  BY <1>1, <1>4
  <2>3. z < e
    <3> HIDE DEF z, e
    <3>1. z * 2 <= z * x /\ z * x \in Nat  BY <1>4, <2>1
    <3> QED  BY <1>1, <1>9, <2>1, <2>2, <3>1
  <2>4. kept * p + low < b * p  BY <2>3
  <2> QED  BY <1>4, <1>7, <1>9, <2>4, KeptBelow DEF p
<1> DEFINE r == y * t
<1> HIDE DEF y
<1>15. /\ lost > half => 2 * r > s
       /\ lost < half => 2 * r < s
       /\ lost = half => 2 * r = s
       /\ r \in Nat /\ s \in Nat /\ r < s
  <2> DEFINE a == half * x
  <2>1. a \in Nat  BY <1>4
  <2>2. s = 2 * (a * t)
    <3>1. x * t * (2 * half) = 2 * ((half * x) * t)  BY <1>4
    <3> QED  BY <1>4, <1>12, <3>1
  <2>3. /\ lost > half => y > a
        /\ lost < half => y < a
        /\ lost = half => y = a
        /\ y < 2 * a
    BY <1>10
  <2> HIDE DEF a, s
  <2>4. /\ y > a => 2 * (y * t) > 2 * (a * t)
        /\ y < a => 2 * (y * t) < 2 * (a * t)
        /\ y = a => 2 * (y * t) = 2 * (a * t)
    BY <1>4, <1>10, <2>1, HalfOf
  <2>5. y * t \in Nat /\ a * t \in Nat  BY <1>4, <1>10, <2>1
  <2>6. y * t < 2 * (a * t)
    <3>1. (y + 1) * t <= (2 * a) * t  BY <1>4, <1>10, <2>1, <2>3
    <3>2. (y + 1) * t = y * t + t /\ (2 * a) * t = 2 * (a * t)  BY <1>4, <1>10, <2>1
    <3> QED  BY <1>4, <2>5, <3>1, <3>2
  <2> DEFINE v == a * t
  <2>7. /\ s = 2 * v /\ v \in Nat /\ r \in Nat /\ r < 2 * v
        /\ y > a => 2 * r > 2 * v
        /\ y < a => 2 * r < 2 * v
        /\ y = a => 2 * r = 2 * v
    BY <2>2, <2>4, <2>5, <2>6
  <2> HIDE DEF v, r
  <2> QED  BY <2>3, <2>7
<1>16. r \in 0 .. s - 1  BY <1>15
<1>17. kept % 2 = 0 \/ kept % 2 = 1  BY <1>7
<1> HIDE DEF r, s
<1>18. /\ up => 2 * r >= s /\ (2 * r = s => kept % 2 = 1)
       /\ ~up => 2 * r <= s /\ (2 * r = s => kept % 2 = 0)
  BY <1>4, <1>10, <1>15, <1>17
(* The result.                                                              *)
<1>19. f \in Nat /\ f <= b  BY <1>4, <1>7, <1>11, <1>14
<1>20. s = Two(0) * Long!Ulp  BY DEF s
<1>21. Long!Flipped(b, DstFrac) = 0
  <2>1. b = 1 * b + 0 /\ 0 \in 0 .. b - 1  BY <1>4
  <2>2. (1 * b + 0) \div b = 1  BY <2>1, LongGiven, PlaceUnique DEF b
  <2>3. b \div b = 1  BY <2>1, <2>2
  <2>4. Long!HasBit(b, DstFrac)  BY <2>3 DEF Long!HasBit, Two, b
  <2>5. Long!Flipped(b, DstFrac) = b - b  BY <2>4 DEF Long!Flipped, Two, b
  <2> QED  BY <1>4, <2>5
<1>22. /\ d \in Long!Doubles /\ Long!DstValue(d.exp, d.frac) = f * s
       /\ f % 2 = 0 => d.frac % 2 = 0
  <2>1. Long!DstInf \in Nat /\ Long!DstInf >= 1  BY LongBiases
  <2>2. Two(0) = 1 /\ Long!Ulp \in Nat  BY TwoFacts, UlpType
  <2>3. CASE f >= b
    <3>1. f = b /\ d = [exp |-> 1, frac |-> 0]  BY <1>4, <1>19, <1>21, <2>3 DEF b
    <3>2. d \in Long!Doubles
      <4>1. 1 = Long!DstInf \/ 1 \in 0 .. Long!DstInf - 1  BY <2>1
      <4>2. 0 \in 0 .. b - 1  BY <1>4
      <4> QED  BY <3>1, <4>1, <4>2 DEF Long!Doubles, Two, b
    <3>3. Long!DstValue(1, 0) = (0 + b) * Two(0) * Long!Ulp
      <4>1. Counts(1, 0) = 0 + b /\ Steps(1) = 0  BY DEF Counts, Steps, b
      <4> QED  BY <4>1, WorthOfDouble
    <3>4. (0 + b) * Two(0) = b  BY <1>4, <2>2
    <3>5. s = Long!Ulp  BY <1>20, <2>2
    <3>6. d.exp = 1 /\ d.frac = 0  BY <3>1
    <3> QED  BY <3>1, <3>2, <3>3, <3>4, <3>5, <3>6
  <2>4. CASE ~(f >= b)
    <3>1. d = [exp |-> 0, frac |-> f] /\ f < b  BY <1>4, <1>19, <2>4 DEF b
    <3>2. d \in Long!Doubles
      <4>1. 0 \in 0 .. Long!DstInf - 1 \/ (0 = Long!DstInf /\ FALSE)  BY <2>1
      <4>2. f \in 0 .. b - 1  BY <1>4, <1>19, <3>1
      <4> QED  BY <3>1, <4>1, <4>2 DEF Long!Doubles, Two, b
    <3>3. Long!DstValue(0, f) = f * Two(0) * Long!Ulp
      <4>1. Counts(0, f) = f /\ Steps(0) = 0  BY DEF Counts, Steps
      <4> QED  BY <4>1, WorthOfDouble
    <3>4. f * Two(0) = f  BY <1>19, <2>2
    <3>5. s = Long!Ulp  BY <1>20, <2>2
    <3>6. d.exp = 0 /\ d.frac = f  BY <3>1
    <3> QED  BY <3>2, <3>3, <3>4, <3>5, <3>6
  <2> QED  BY <2>3, <2>4
<1> DEFINE g == 0
<1>23. /\ g \in Nat /\ (kept >= Two(DstFrac) \/ g = 0) /\ s = Two(g) * Long!Ulp
       /\ up \in BOOLEAN /\ f = (IF up THEN kept + 1 ELSE kept)
       /\ Long!SrcValue = kept * s + r
  BY <1>11, <1>13, <1>20 DEF r
<1>24. d \in Long!Doubles /\ Long!DstValue(d.exp, d.frac) = f * s /\ (f % 2 = 0 => d.frac % 2 = 0)
  BY <1>22
<1> HIDE DEF g, up, c
<1>25. up => 2 * r >= s /\ (2 * r = s => kept % 2 = 1)  BY <1>18
<1>26. ~up => 2 * r <= s /\ (2 * r = s => kept % 2 = 0)  BY <1>18
<1>27. kept \in Nat  BY <1>7
<1> QED  BY <1>16, <1>23, <1>24, <1>25, <1>26, <1>27, NearestIf

LEMMA SmallIsNearest ==
  ASSUME LongArgument, Long!Small
  PROVE  /\ place' = "done" /\ params' = params /\ l1' = l1 /\ l2' = l2
         /\ IsNearest(answer')
<1>1. BelowNormal  BY DEF Long!Small, BelowNormal
<1>2. CASE Long!Distance > Long!SrcFrac
  <2>1. Long!Return(0, 0)  BY <1>2 DEF Long!Small
  <2>2. /\ place' = "done" /\ answer' = [exp |-> 0, frac |-> 0]
        /\ params' = params /\ l1' = l1 /\ l2' = l2
    BY <2>1 DEF Long!Return
  <2> QED  BY <1>1, <1>2, <2>2, FarIsNearest
<1>3. CASE ~(Long!Distance > Long!SrcFrac)
  <2> DEFINE hi == IF l1 = 0 THEN Long!High ELSE Long!With(Long!High, HighFrac)
             dropped == Long!ShiftLeft(Long!Low, hi, 2 * LongWord - Long!Distance)
             right == Long!ShiftRight(Long!Low, hi, Long!Distance)
             sticky == Long!Distance # 0 /\ (dropped.lo # 0 \/ dropped.hi # 0)
             lost == IF sticky THEN Long!With(Long!Lost(right.lo), 0) ELSE Long!Lost(right.lo)
             f == Long!Round(Long!Kept(right.lo, right.hi), lost)
             d == IF f >= Two(DstFrac) THEN [exp |-> 1, frac |-> Long!Flipped(f, DstFrac)]
                  ELSE [exp |-> 0, frac |-> f]
  <2>1. IF f >= Two(DstFrac) THEN Long!Return(1, Long!Flipped(f, DstFrac)) ELSE Long!Return(0, f)
    BY <1>3 DEF Long!Small, Two
  <2>2. IsNearest(d)
    <3> HIDE DEF hi, dropped, right, sticky, lost, f, d
    <3>1. hi = IF l1 = 0 THEN Long!High ELSE Long!With(Long!High, HighFrac)  BY DEF hi
    <3>2. dropped = Long!ShiftLeft(Long!Low, hi, 2 * LongWord - Long!Distance)  BY DEF dropped
    <3>3. right = Long!ShiftRight(Long!Low, hi, Long!Distance)  BY DEF right
    <3>4. sticky = (Long!Distance # 0 /\ (dropped.lo # 0 \/ dropped.hi # 0))  BY DEF sticky
    <3>5. lost = IF sticky THEN Long!With(Long!Lost(right.lo), 0) ELSE Long!Lost(right.lo)  BY DEF lost
    <3>6. f = Long!Round(Long!Kept(right.lo, right.hi), lost)  BY DEF f
    <3>7. d = IF f >= Two(DstFrac) THEN [exp |-> 1, frac |-> Long!Flipped(f, DstFrac)]
              ELSE [exp |-> 0, frac |-> f]
      BY DEF d
    <3> QED  BY <1>1, <1>3, <3>1, <3>2, <3>3, <3>4, <3>5, <3>6, <3>7, NearIsNearest
  <2>3. /\ place' = "done" /\ answer' = d
        /\ params' = params /\ l1' = l1 /\ l2' = l2
    <3> HIDE DEF f
    <3> QED  BY <2>1 DEF Long!Return
  <2> QED  BY <2>2, <2>3
<1> QED  BY <1>2, <1>3

(* Where no double is near enough: the highest bits of what is no number,   *)
(* with the first of them set.                                              *)
LEMMA SpecialIsKept ==
  ASSUME LongArgument, place = "start", Long!NotANumber \/ Long!TooLarge
  PROVE  /\ place' = "done" /\ params' = params /\ l1' = l1 /\ l2' = l2
         /\ l1 > Long!SrcBias + Long!DstBias
         /\ answer' \in [exp : {Long!DstInf}, frac : 0 .. Two(DstFrac) - 1]
         /\ answer'.frac # 0 <=> l1 = Long!SrcInf /\ l2 # 0
<1> DEFINE b == Two(DstFrac)  p == Two(Long!Discard)  j == DstFrac - 1  h == Two(j)
           kept == Long!Kept(Long!Low, Long!High)  lost == Long!Lost(Long!Low)
<1>1. b \in Nat /\ b = 2 * h /\ h \in Nat /\ h >= 1 /\ j \in Nat /\ p \in Nat
  <2>1. j \in Nat /\ j + 1 = DstFrac  BY LongGiven
  <2> HIDE DEF j
  <2>2. Two(j + 1) = 2 * Two(j) /\ Two(j) \in Nat /\ Two(j) >= 1  BY <2>1, TwoFacts
  <2> QED  BY <2>1, <2>2, LongGiven, TwoFacts
<1>2. CASE Long!TooLarge
  <2>1. /\ place' = "done" /\ params' = params /\ l1' = l1 /\ l2' = l2
        /\ answer' = [exp |-> Long!DstInf, frac |-> 0]
        /\ l1 > Long!SrcBias + Long!DstBias /\ ~(l1 = Long!SrcInf /\ l2 # 0)
    BY <1>2 DEF Long!TooLarge, Long!Return
  <2>2. 0 \in 0 .. b - 1  BY <1>1
  <2> QED  BY <2>1, <2>2
<1>3. CASE Long!NotANumber
  <2>1. /\ place' = "done" /\ params' = params /\ l1' = l1 /\ l2' = l2
        /\ answer' = [exp |-> Long!DstInf, frac |-> Long!With(kept, j)]
        /\ l1 = Long!SrcInf /\ l2 # 0
    BY <1>3 DEF Long!NotANumber, Long!Return
  <2>2. l1 > Long!SrcBias + Long!DstBias  BY <2>1, LongBiases
  <2>3. /\ Long!Low \in 0 .. Two(LongWord) - 1 /\ Long!High \in 0 .. p - 1
        /\ Together(Long!Low, Long!High) < b * p
    <3>1. /\ Long!Low \in 0 .. Two(LongWord) - 1 /\ Long!High \in 0 .. Two(HighFrac) - 1
          /\ Together(Long!Low, Long!High) < b * p
      BY ArgumentFacts
    <3>2. Two(HighFrac) <= p  BY LongGiven, TwoGrows
    <3>3. Two(HighFrac) \in Nat  BY LongGiven, TwoFacts
    <3> HIDE DEF p, b
    <3> QED  BY <1>1, <3>1, <3>2, <3>3
  <2>4. kept \in Nat /\ lost \in Nat /\ kept * p + lost < b * p
    <3>1. /\ kept \in Nat /\ lost \in 0 .. p - 1
          /\ Together(Long!Low, Long!High) = kept * p + lost
      BY <2>3, KeptAndLost
    <3> HIDE DEF kept, lost, p, b
    <3> QED  BY <1>1, <2>3, <3>1
  <2>5. kept < b
    <3> HIDE DEF kept, lost, b
    <3> QED  BY <1>1, <2>4, KeptBelow
  <2>6. Long!With(kept, j) = IF (kept \div h) % 2 = 1 THEN kept ELSE kept + h
    BY DEF Long!With, Long!HasBit, Two
  <2>7. Long!With(kept, j) \in 0 .. b - 1 /\ Long!With(kept, j) # 0
    <3> DEFINE q == kept \div h  r == kept % h
    <3>1. q \in Nat /\ r \in 0 .. h - 1 /\ kept = q * h + r
      <4> HIDE DEF kept, j
      <4> QED  BY <1>1, <2>4, AtPlace DEF h
    <3>2. Long!With(kept, j) = IF q % 2 = 1 THEN kept ELSE kept + h  BY <2>6
    <3> HIDE DEF q, r, h, kept, j, b
    <3>3. q >= 2 => kept >= 2 * h
      <4>1. q >= 2 => q * h >= 2 * h  BY <1>1, <3>1
      <4>2. q * h \in Nat  BY <1>1, <3>1
      <4> QED  BY <1>1, <3>1, <4>1, <4>2
    <3>4. q = 0 \/ q = 1  BY <1>1, <2>4, <2>5, <3>1, <3>3
    <3>5. CASE q = 0
      <4>1. kept = r /\ Long!With(kept, j) = kept + h  BY <1>1, <3>1, <3>2, <3>5
      <4> QED  BY <1>1, <3>1, <4>1
    <3>6. CASE q = 1
      <4>1. kept = h + r /\ Long!With(kept, j) = kept  BY <1>1, <3>1, <3>2, <3>6
      <4> QED  BY <1>1, <2>5, <3>1, <4>1
    <3> QED  BY <3>4, <3>5, <3>6
  <2> QED  BY <2>1, <2>2, <2>7
<1> QED  BY <1>2, <1>3

(* A call returns the double nearest to a number, an infinity where none    *)
(* is near enough, and no number for what is none.                          *)
LongInv ==
  /\ LongArgument
  /\ place \in {"start", "done"}
  /\ answer \in [exp : 0 .. Long!DstInf, frac : 0 .. Two(DstFrac) - 1]
  /\ place = "done" /\ l1 <= Long!SrcBias + Long!DstBias => IsNearest(answer)
  /\ place = "done" /\ l1 > Long!SrcBias + Long!DstBias =>
       answer.exp = Long!DstInf /\ (answer.frac # 0 <=> l1 = Long!SrcInf /\ l2 # 0)

LEMMA LongStarts == Long!Init => LongInv
<1> SUFFICES ASSUME Long!Init PROVE LongInv  OBVIOUS
<1>1. /\ l1 \in 0 .. Long!SrcInf /\ l2 \in 0 .. Two(Long!SrcFrac) - 1 /\ place = "start"
      /\ answer = [exp |-> 0, frac |-> 0]
  BY DEF Long!Init, Two
<1>2. 0 \in 0 .. Long!DstInf /\ 0 \in 0 .. Two(DstFrac) - 1
  <2>1. Long!DstInf \in Nat /\ Two(DstFrac) \in Nat /\ Two(DstFrac) >= 1
    BY LongBiases, LongGiven, TwoFacts
  <2> QED  BY <2>1
<1> QED  BY <1>1, <1>2 DEF LongInv, LongArgument

(* Which double is the nearest to it depends on nothing but the argument.   *)
LEMMA NearestToTheSame ==
  ASSUME l1' = l1, l2' = l2, IsNearest(answer')
  PROVE  IsNearest(answer)'
<1>1. Long!SrcValue' = Long!SrcValue  BY DEF Long!SrcValue
<1>2. \A d : Long!Distances(d)' = Long!Distances(d)  BY <1>1 DEF Long!Distances
<1> QED  BY <1>2 DEF IsNearest

LEMMA LongStep == LongInv /\ [Long!Next]_(Long!vars) => LongInv'
<1> SUFFICES ASSUME LongInv, Long!Next \/ UNCHANGED Long!vars PROVE LongInv'  OBVIOUS
<1>1. LongArgument  BY DEF LongInv
<1> DEFINE max == Long!SrcBias + Long!DstBias
<1>2. l1 \in Nat /\ max \in Nat  BY <1>1, ArgumentFacts, LongBiases
<1>3. CASE UNCHANGED Long!vars
  <2>1. place' = place /\ l1' = l1 /\ l2' = l2 /\ answer' = answer  BY <1>3 DEF Long!vars
  <2>2. IsNearest(answer) => IsNearest(answer)'
    <3>1. IsNearest(answer) => IsNearest(answer')  BY <2>1
    <3> QED  BY <2>1, <3>1, NearestToTheSame
  <2> QED  BY <2>1, <2>2 DEF LongInv, LongArgument
<1>4. ASSUME Long!Normal \/ Long!Small
      PROVE  LongInv'
  <2>1. place = "start" /\ l1 <= max
    <3>1. CASE Long!Small  BY <3>1 DEF Long!Small
    <3>2. CASE Long!Normal
      <4>1. l1 - (Long!SrcBias - Long!DstBias + 1) \in 0 .. Long!DstInf - 2 /\ place = "start"
        BY <3>2 DEF Long!Normal, Long!NormalRange
      <4> QED  BY <1>2, <4>1, LongBiases
    <3> QED  BY <1>4, <3>1, <3>2
  <2>2. /\ place' = "done" /\ l1' = l1 /\ l2' = l2 /\ IsNearest(answer')
    BY <1>1, <1>4, <2>1, NormalIsNearest, SmallIsNearest
  <2>3. answer' \in [exp : 0 .. Long!DstInf, frac : 0 .. Two(DstFrac) - 1]
    <3>1. answer' \in Long!Doubles  BY <2>2 DEF IsNearest
    <3> DEFINE d == answer'
    <3>2. d \in Long!Doubles  BY <3>1
    <3> HIDE DEF d
    <3>3. /\ d.exp \in 0 .. Long!DstInf /\ d.frac \in 0 .. Two(DstFrac) - 1
          /\ d = [exp |-> d.exp, frac |-> d.frac]
      BY <3>2, DoubleTypes
    <3>4. d \in [exp : 0 .. Long!DstInf, frac : 0 .. Two(DstFrac) - 1]  BY <3>3
    <3> QED  BY <3>4 DEF d
  <2>4. IsNearest(answer)'  BY <2>2, NearestToTheSame
  <2>5. LongArgument'  BY <1>1, <2>2 DEF LongArgument
  <2>6. ~(l1' > max)  BY <1>2, <2>1, <2>2
  <2> QED  BY <2>2, <2>3, <2>4, <2>5, <2>6 DEF LongInv
<1>5. ASSUME Long!NotANumber \/ Long!TooLarge
      PROVE  LongInv'
  <2>1. place = "start"  BY <1>5 DEF Long!NotANumber, Long!TooLarge
  <2>2. /\ place' = "done" /\ l1' = l1 /\ l2' = l2 /\ l1 > max
        /\ answer' \in [exp : {Long!DstInf}, frac : 0 .. Two(DstFrac) - 1]
        /\ answer'.frac # 0 <=> l1 = Long!SrcInf /\ l2 # 0
    BY <1>1, <1>5, <2>1, SpecialIsKept
  <2>3. answer' \in [exp : 0 .. Long!DstInf, frac : 0 .. Two(DstFrac) - 1] /\ answer'.exp = Long!DstInf
    <3>1. Long!DstInf \in 0 .. Long!DstInf  BY LongBiases
    <3> QED  BY <2>2, <3>1
  <2>4. LongArgument'  BY <1>1, <2>2 DEF LongArgument
  <2>5. ~(l1' <= max)  BY <1>2, <2>2
  <2> QED  BY <2>2, <2>3, <2>4, <2>5 DEF LongInv
<1> QED  BY <1>3, <1>4, <1>5 DEF Long!Next

LEMMA LongTells == LongInv => Long!TypeOK /\ Long!Nearest /\ Long!Specials
<1> SUFFICES ASSUME LongInv PROVE Long!TypeOK /\ Long!Nearest /\ Long!Specials  OBVIOUS
<1>1. Long!TypeOK  BY DEF LongInv, Long!TypeOK, Two
<1>2. Long!Nearest  BY DEF LongInv, Long!Nearest, IsNearest
<1>3. Long!Specials  BY DEF LongInv, Long!Specials
<1> QED  BY <1>1, <1>2, <1>3

(***************************************************************************)
(* The library.                                                            *)
(***************************************************************************)
(* The function that is run is where its invariant says.                   *)
LibraryInv ==
  /\ function = "memcpy" => CpyInv
  /\ function = "memset" => SetInv
  /\ function = "memchr" => ChrInv
  /\ function = "fmt_u" => NumInv
  /\ function = "wctomb" => WideInv
  /\ function = "trunctfdf2" => LongInv
  /\ function = "printf" => StdInv

LEMMA LibraryStarts == LibraryInit => LibraryInv
<1> SUFFICES ASSUME LibraryInit PROVE LibraryInv  OBVIOUS
<1>1. CASE function = "memcpy" /\ Cpy!Init  BY <1>1, CpyStarts DEF LibraryInv
<1>2. CASE function = "memset" /\ Set!Init  BY <1>2, SetStarts DEF LibraryInv
<1>7. CASE function = "memchr" /\ Chr!Init  BY <1>7, ChrStarts DEF LibraryInv
<1>3. CASE function = "fmt_u" /\ Num!Init  BY <1>3, NumStarts DEF LibraryInv
<1>4. CASE function = "wctomb" /\ Wide!Init  BY <1>4, WideStarts DEF LibraryInv
<1>8. CASE function = "trunctfdf2" /\ Long!Init  BY <1>8, LongStarts DEF LibraryInv
<1>5. CASE function = "printf" /\ Std!Init  BY <1>5, StdStarts DEF LibraryInv
<1>6. CASE function \notin Functions  BY <1>6 DEF LibraryInv, Functions
<1> QED  BY <1>1, <1>2, <1>3, <1>4, <1>5, <1>6, <1>7, <1>8 DEF LibraryInit

(* A step of the library is one of the function that is run.               *)
LEMMA LibrarySteps ==
  ASSUME LibraryNext \/ UNCHANGED <<function, slots>>
  PROVE  /\ function' = function
         /\ function = "memcpy" => [Cpy!Next]_(Cpy!vars)
         /\ function = "memset" => [Set!Next]_(Set!vars)
         /\ function = "memchr" => [Chr!Next]_(Chr!vars)
         /\ function = "fmt_u" => [Num!Next]_(Num!vars)
         /\ function = "wctomb" => [Wide!Next]_(Wide!vars)
         /\ function = "trunctfdf2" => [Long!Next]_(Long!vars)
         /\ function = "printf" => [Std!Next]_(Std!vars)
<1>1. CASE LoopNext
  <2>1. function' = function  BY <1>1 DEF LoopNext
  <2>2. \/ function = "memcpy" /\ Cpy!Next
        \/ function = "memset" /\ Set!Next
        \/ function = "memchr" /\ Chr!Next
        \/ function = "fmt_u" /\ Num!Next
        \/ function = "printf" /\ Std!Next
    BY <1>1 DEF LoopNext
  <2> QED  BY <2>1, <2>2
<1>2. CASE function = "wctomb" /\ Wide!Next /\ UNCHANGED function
  BY <1>2
<1>4. CASE function = "trunctfdf2" /\ Long!Next /\ UNCHANGED function
  BY <1>4
<1>3. CASE UNCHANGED <<function, slots>>
  <2>1. /\ function' = function /\ params' = params /\ place' = place /\ answer' = answer
        /\ l1' = l1 /\ l2' = l2 /\ l3' = l3 /\ l4' = l4
        /\ l5' = l5 /\ l6' = l6 /\ l7' = l7 /\ l8' = l8
    BY <1>3 DEF slots
  <2>2. UNCHANGED Cpy!vars  BY <2>1 DEF Cpy!vars
  <2>3. UNCHANGED Set!vars  BY <2>1 DEF Set!vars
  <2>4. UNCHANGED Num!vars  BY <2>1 DEF Num!vars
  <2>5. UNCHANGED Wide!vars  BY <2>1 DEF Wide!vars
  <2>6. UNCHANGED Std!vars  BY <2>1 DEF Std!vars, Std!stream, Std!buffer
  <2>7. UNCHANGED Chr!vars  BY <2>1 DEF Chr!vars
  <2>8. UNCHANGED Long!vars  BY <2>1 DEF Long!vars
  <2> QED  BY <2>1, <2>2, <2>3, <2>4, <2>5, <2>6, <2>7, <2>8
<1> QED  BY <1>1, <1>2, <1>3, <1>4 DEF LibraryNext

LEMMA LibraryStep == LibraryInv /\ [LibraryNext]_<<function, slots>> => LibraryInv'
<1> SUFFICES ASSUME LibraryInv, LibraryNext \/ UNCHANGED <<function, slots>>
             PROVE  LibraryInv'
  OBVIOUS
<1>1. /\ function' = function
      /\ function = "memcpy" => [Cpy!Next]_(Cpy!vars)
      /\ function = "memset" => [Set!Next]_(Set!vars)
      /\ function = "memchr" => [Chr!Next]_(Chr!vars)
      /\ function = "fmt_u" => [Num!Next]_(Num!vars)
      /\ function = "wctomb" => [Wide!Next]_(Wide!vars)
      /\ function = "trunctfdf2" => [Long!Next]_(Long!vars)
      /\ function = "printf" => [Std!Next]_(Std!vars)
  BY LibrarySteps
<1>2. function = "memcpy" => CpyInv'  BY <1>1, CpyStep DEF LibraryInv
<1>3. function = "memset" => SetInv'  BY <1>1, SetStep DEF LibraryInv
<1>4. function = "fmt_u" => NumInv'  BY <1>1, NumStep DEF LibraryInv
<1>5. function = "wctomb" => WideInv'  BY <1>1, WideStep DEF LibraryInv
<1>6. function = "printf" => StdInv'  BY <1>1, StdStep DEF LibraryInv
<1>7. function = "memchr" => ChrInv'  BY <1>1, ChrStep DEF LibraryInv
<1>8. function = "trunctfdf2" => LongInv'  BY <1>1, LongStep DEF LibraryInv
<1> QED  BY <1>1, <1>2, <1>3, <1>4, <1>5, <1>6, <1>7, <1>8 DEF LibraryInv

(* Every function keeps its invariant, whatever it is called with.         *)
THEOREM LibraryInvariant == LibrarySpec => []LibraryInv
<1>1. LibraryInit => LibraryInv  BY LibraryStarts
<1>2. LibraryInv /\ [LibraryNext]_<<function, slots>> => LibraryInv'  BY LibraryStep
<1> QED  BY <1>1, <1>2, PTL DEF LibrarySpec

(* Whatever the lengths and the alignment of the areas, memcpy and memset  *)
(* (f21, f9) write all of their area and nothing else: no block, word or   *)
(* overlapping store reaches past the end, and none of words is at an      *)
(* address that is no multiple of its size.  memchr (f17) reads no byte    *)
(* and no word outside of its area, and for every memory it finds the      *)
(* first byte sought: no word that holds it is passed over.                *)
THEOREM AreaIsWritten == LibrarySpec => []ExactlyTheArea
<1>1. LibraryInv => ExactlyTheArea
  <2>1. CpyInv => Cpy!TypeOK /\ Cpy!OnlyFrontCopied /\ Cpy!CopiedAtEnd  BY DEF CpyInv
  <2> QED  BY <2>1, CpyWordsAligned, SetTells, ChrTells DEF LibraryInv, ExactlyTheArea
<1> QED  BY <1>1, LibraryInvariant, PTL

(* Every number fmt_u prints is the one its digits spell, however many     *)
(* there are and whichever of its two loops makes them, getint reads every *)
(* number that fits an int and refuses any other, and wctomb's bytes are   *)
(* decoded to the character they were made from.  For all widths of long   *)
(* doubles and doubles, and every argument, __trunctfdf2 (f45) returns the *)
(* double nearest to it, of two as near the even one, and infinity or no   *)
(* number where there is none.                                             *)
THEOREM NumbersAreConverted == LibrarySpec => []Converted
<1>1. LibraryInv => Converted
  BY NumTells, WideTells, LongTells DEF LibraryInv, Converted
<1> QED  BY <1>1, LibraryInvariant, PTL

(* For a buffer of any size and any texts, printf's result tells what the  *)
(* buffer holds.                                                           *)
THEOREM OutputIsHeld == LibrarySpec => []OutputHeld
<1>1. LibraryInv => OutputHeld
  BY StdTells DEF LibraryInv, OutputHeld
<1> QED  BY <1>1, LibraryInvariant, PTL

(* No call of printf or fflush makes a stream that has failed work again:  *)
(* the error flag printf clears for a call is set again at its end.        *)
THEOREM FailedStaysFailed == LibrarySpec => ErrorStays
<1> DEFINE Stays == place' = "idle" /\ (IF place = "idle" THEN l1 ELSE l7) => l1'
<1>1. ASSUME LibraryInv, LibraryInv', LibraryNext \/ UNCHANGED <<function, slots>>
      PROVE  Stays \/ UNCHANGED Std!vars
  <2>1. /\ function' = function
        /\ function = "printf" => [Std!Next]_(Std!vars)
    BY <1>1, LibrarySteps
  <2>2. CASE function = "printf"
    <3>1. StdInv /\ (Std!Next \/ UNCHANGED Std!vars)  BY <1>1, <2>1, <2>2 DEF LibraryInv
    <3> QED  BY <3>1, FailureStays
  <2>3. CASE function \in Functions /\ function # "printf"
    <3>1. place' # "idle"
      <4>1. function = "memcpy" => place' # "idle"
        <5>1. CpyInv' => place' # "idle"  BY DEF CpyInv, Cpy!TypeOK
        <5> QED  BY <1>1, <2>1, <5>1 DEF LibraryInv
      <4>2. function = "memset" => place' # "idle"
        <5>1. SetInv' => place' # "idle"  BY DEF SetInv, Set!TypeOK
        <5> QED  BY <1>1, <2>1, <5>1 DEF LibraryInv
      <4>3. function = "fmt_u" => place' # "idle"
        <5>1. NumInv' => place' # "idle"  BY DEF NumInv
        <5> QED  BY <1>1, <2>1, <5>1 DEF LibraryInv
      <4>4. function = "wctomb" => place' # "idle"
        <5>1. WideInv' => place' # "idle"  BY DEF WideInv
        <5> QED  BY <1>1, <2>1, <5>1 DEF LibraryInv
      <4>5. function = "memchr" => place' # "idle"
        <5>1. ChrInv' => place' # "idle"  BY DEF ChrInv, Chr!TypeOK
        <5> QED  BY <1>1, <2>1, <5>1 DEF LibraryInv
      <4>6. function = "trunctfdf2" => place' # "idle"
        <5>1. LongInv' => place' # "idle"  BY DEF LongInv
        <5> QED  BY <1>1, <2>1, <5>1 DEF LibraryInv
      <4> QED  BY <2>3, <4>1, <4>2, <4>3, <4>4, <4>5, <4>6 DEF Functions
    <3> QED  BY <3>1
  <2>4. CASE function \notin Functions
    <3>1. ~LibraryNext  BY <2>4 DEF LibraryNext, LoopNext, Functions
    <3>2. UNCHANGED slots  BY <1>1, <3>1
    <3> QED  BY <3>2 DEF slots, Std!vars, Std!stream, Std!buffer
  <2> QED  BY <2>2, <2>3, <2>4
<1>2. LibraryInv /\ LibraryInv' /\ [LibraryNext]_<<function, slots>> => [Stays]_(Std!vars)
  BY <1>1
<1>3. LibrarySpec => [][Stays]_(Std!vars)
  BY <1>2, LibraryInvariant, PTL DEF LibrarySpec
<1> QED  BY <1>3 DEF ErrorStays, Std!ErrorStays
=============================================================================
