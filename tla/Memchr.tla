-------------------------------- MODULE Memchr --------------------------------
(***************************************************************************)
(* memchr and strnlen of the sample module (src/samples/obf_1/obf_w2c.c,   *)
(* f17 and f18): bytes up to an aligned address, whole words that do not   *)
(* hold the byte, then bytes.                                              *)
(***************************************************************************)
EXTENDS Integers

CONSTANTS
  Byte,       \* how many values a byte has (256)
  Xor,        \* the exclusive or of two bytes
  Calls,      \* records [p, k, n]: the address, the byte sought, the length
  Memories    \* what the memory may hold

Word == 4

(* Of the exclusive or all that matters is when it is zero.                *)
MemchrAssumption ==
  /\ Byte \in Nat \ {0, 1} /\ Byte % 2 = 0
  /\ \A x, y \in 0 .. Byte - 1 :
       Xor[x][y] \in 0 .. Byte - 1 /\ (Xor[x][y] = 0 <=> x = y)
  /\ \A c \in Calls :
       /\ c.p \in Nat \ {0} /\ c.k \in 0 .. Byte - 1 /\ c.n \in Nat
       /\ \A m \in Memories : \A a \in c.p .. c.p + c.n - 1 : m[a] \in 0 .. Byte - 1

VARIABLES
  call,    \* p0, p1 and p2 as they were given
  mem,
  pc,
  p, n,    \* what is left to look at
  read,    \* the addresses that were read
  result

vars == <<call, mem, pc, p, n, read, result>>

Init ==
  /\ call \in Calls /\ mem \in Memories
  /\ pc = "enter"
  /\ p = call.p /\ n = call.n
  /\ read = {} /\ result = 0

Return(r) == pc' = "done" /\ result' = r
Reads(k) == read' = read \cup p .. p + k - 1
Skip(k) == p' = p + k /\ n' = n - k

Enter ==
  /\ pc = "enter"
  /\ pc' = IF p % Word # 0 /\ n # 0 THEN "head" ELSE "aligned"
  /\ UNCHANGED <<call, mem, p, n, read, result>>

(* Bytes, until the address is aligned or nothing is left.                  *)
Head ==
  /\ pc = "head"
  /\ Reads(1)
  /\ IF mem[p] = call.k
     THEN pc' = "bytes" /\ UNCHANGED <<p, n>>
     ELSE Skip(1) /\ pc' = IF p' % Word = 0 \/ n' = 0 THEN "aligned" ELSE "head"
  /\ UNCHANGED <<call, mem, result>>

(* Mutant: the rest is looked at in words, however short it is. *)
AlignedLong ==
  /\ pc = "aligned"
  /\ IF n = 0 THEN Return(0) /\ UNCHANGED read
     ELSE /\ Reads(1)
          /\ pc' = IF mem[p] = call.k THEN "bytes" ELSE "words"
          /\ UNCHANGED result
  /\ UNCHANGED <<call, mem, p, n>>

Aligned ==
  /\ pc = "aligned"
  /\ IF n = 0 THEN Return(0) /\ UNCHANGED read
     ELSE /\ Reads(1)
          /\ pc' = IF mem[p] = call.k \/ n < Word THEN "bytes" ELSE "words"
          /\ UNCHANGED result
  /\ UNCHANGED <<call, mem, p, n>>

(* A word has a zero byte unless in each of its bytes the highest bit is    *)
(* set, or else is set once the word is taken from the constant; the        *)
(* constants are 0x01010100 and 0x80808080, and the word may be larger.     *)
Place == <<1, Byte, Byte * Byte, Byte * Byte * Byte>>
IsHigh(word, k) == (word \div Place[k]) % Byte >= Byte \div 2
Taken(word) == (Place[2] + Place[3] + Place[4] - word) % (Byte * Place[4])
(* Mutant: only a word of zeroes is taken to have one. *)
HasZeroAll(word) == \A k \in 1 .. Word : ~ IsHigh(word, k) /\ ~ IsHigh(Taken(word), k)
HasZero(word) == \E k \in 1 .. Word : ~ IsHigh(word, k) /\ ~ IsHigh(Taken(word), k)

(* The word at an address with the byte sought turned into zero.            *)
Difference(a) ==
  LET x(i) == Xor[mem[a + i]][call.k]
  IN  x(0) + x(1) * Place[2] + x(2) * Place[3] + x(3) * Place[4]

Words ==
  /\ pc = "words"
  /\ Reads(Word)
  /\ IF HasZero(Difference(p))
     THEN pc' = "bytes" /\ UNCHANGED <<p, n, result>>
     ELSE /\ Skip(Word)
          /\ IF n' >= Word THEN pc' = "words" /\ UNCHANGED result
             ELSE IF n' = 0 THEN Return(0)
             ELSE pc' = "bytes" /\ UNCHANGED result
  /\ UNCHANGED <<call, mem>>


Bytes ==
  /\ pc = "bytes"
  /\ Reads(1)
  /\ IF mem[p] = call.k THEN Return(p) /\ UNCHANGED <<p, n>>
     ELSE /\ Skip(1)
          /\ IF n' = 0 THEN Return(0) ELSE UNCHANGED <<pc, result>>
  /\ UNCHANGED <<call, mem>>

Next == Enter \/ Head \/ Aligned \/ Words \/ Bytes

Spec == Init /\ [][Next]_vars

(* strnlen: where the null byte is, or the length.                          *)
Strnlen == IF result = 0 THEN call.n ELSE result - call.p
-----------------------------------------------------------------------------
TypeOK ==
  /\ call \in Calls /\ mem \in Memories
  /\ pc \in {"enter", "head", "aligned", "words", "bytes", "done"}
  /\ n \in 0 .. call.n /\ p = call.p + (call.n - n)
  /\ result \in {0} \cup call.p .. p

(* Nothing outside the area is read, words included.                        *)
ReadsInside == read \subseteq call.p .. call.p + call.n - 1

(* No word that was passed over holds the byte and none is taken to: the    *)
(* first one is found, and it is not missed.                                *)
Found ==
  pc = "done" =>
    LET places == {a \in call.p .. call.p + call.n - 1 : mem[a] = call.k}
    IN  IF places = {} THEN result = 0
        ELSE result \in places /\ \A a \in places : result <= a

(* strnlen never counts a null byte nor more than it may.                   *)
LengthBounded ==
  pc = "done" /\ call.k = 0 =>
    /\ Strnlen \in 0 .. call.n
    /\ \A i \in 0 .. Strnlen - 1 : mem[call.p + i] # 0
=============================================================================
