-------------------------------- MODULE Memcpy --------------------------------
(***************************************************************************)
(* memcpy of the sample module (src/samples/obf_1/obf_w2c.c, f21): bytes   *)
(* up to an aligned address, blocks, words and the bytes that are left, or *)
(* bytes in fours when the two addresses are not aligned alike.  Addresses *)
(* are unsigned numbers of the width of Modulus; a byte is named by the    *)
(* address it came from.                                                   *)
(***************************************************************************)
EXTENDS Integers

CONSTANTS
  Modulus,    \* 2^32: addresses wrap
  Block,      \* bytes copied in one turn of the block loop (64)
  Import,     \* from this length on the copy is left to an import (512)
  Areas,      \* calls: records [dst, src, n] of areas that do not meet
  Bytes       \* the memory has bytes 0 .. Bytes - 1

Word == 4

MemcpyAssumption ==
  /\ Bytes \in Nat /\ Modulus \in Nat /\ Bytes <= Modulus
  /\ Block \in Nat \ {0} /\ Block % Word = 0 /\ Import \in Nat
  /\ \A area \in Areas :
       /\ area.dst \in Nat /\ area.src \in Nat /\ area.n \in Nat
       /\ area.dst + area.n <= Bytes /\ area.src + area.n <= Bytes
       /\ area.dst + area.n <= area.src \/ area.src + area.n <= area.dst
       /\ area.dst + area.n + Block < Modulus /\ area.src + area.n + Block < Modulus

VARIABLES
  c,      \* the call: p0, p1 and p2 as they were given
  pc,
  d, s,   \* where the next byte goes and where it comes from (l_p2, l_p1)
  mem

vars == <<c, pc, d, s, mem>>

AlignDown(a) == a - (a % Word)
Minus(a, b) == (a - b + Modulus) % Modulus
End == c.dst + c.n

Init ==
  /\ c \in Areas
  /\ pc = "enter"
  /\ d = c.dst /\ s = c.src
  /\ mem = [a \in 0 .. Bytes - 1 |-> a]

(* Mutant: the addresses stay where they are. *)
CopyInPlace(k) ==
  /\ mem' = [a \in DOMAIN mem |-> IF a \in d .. d + k - 1 THEN mem[s + (a - d)] ELSE mem[a]]
  /\ UNCHANGED <<c, d, s>>

(* The next k bytes.                                                        *)
Copy(k) ==
  /\ mem' = [a \in DOMAIN mem |-> IF a \in d .. d + k - 1 THEN mem[s + (a - d)] ELSE mem[a]]
  /\ d' = d + k /\ s' = s + k
  /\ UNCHANGED c

Goto(label) == pc' = label /\ UNCHANGED <<c, d, s, mem>>

(* Mutant: only the target is aligned. *)
EnterUnlike ==
  /\ pc = "enter"
  /\ Goto(CASE c.n >= Import -> "done"
            [] OTHER -> IF c.dst % Word # 0 /\ c.n # 0 THEN "head" ELSE "aligned")

(* A long copy was to be done by an import, whose call is commented out.    *)
Enter ==
  /\ pc = "enter"
  /\ Goto(CASE c.n >= Import -> "done"
            [] c.n < Import /\ c.src % Word # c.dst % Word ->
                 IF End < Word \/ End - Word < c.dst THEN "rest" ELSE "fours"
            [] OTHER -> IF c.dst % Word # 0 /\ c.n # 0 THEN "head" ELSE "aligned")


(* Bytes, until the address is aligned or nothing is left.                  *)
Head ==
  /\ pc = "head"
  /\ Copy(1)
  /\ pc' = IF d' % Word # 0 /\ d' < End THEN "head" ELSE "aligned"

(* Mutant: the end is not compared with the size of a block. *)
BlocksFitWrapped == d <= Minus(AlignDown(End), Block)

(* There is room for a block before the last aligned address.               *)
BlocksFit == End >= Block /\ d <= Minus(AlignDown(End), Block)

Aligned ==
  /\ pc = "aligned"
  /\ Goto(CASE BlocksFit -> "blocks"
            [] ~BlocksFit /\ d < AlignDown(End) -> "words"
            [] OTHER -> "rest")

Blocks ==
  /\ pc = "blocks"
  /\ Copy(Block)
  /\ pc' = CASE d' <= AlignDown(End) - Block -> "blocks"
             [] d' > AlignDown(End) - Block /\ d' < AlignDown(End) -> "words"
             [] OTHER -> "rest"

Words ==
  /\ pc = "words"
  /\ Copy(Word)
  /\ pc' = IF d' < AlignDown(End) THEN "words" ELSE "rest"


Fours ==
  /\ pc = "fours"
  /\ Copy(Word)
  /\ pc' = IF d' <= End - Word THEN "fours" ELSE "rest"

(* Mutant: the last byte is left. *)
RestButOne ==
  /\ pc = "rest"
  /\ IF d >= End - 1 THEN Goto("done") ELSE Copy(1) /\ UNCHANGED pc

(* The bytes that are left; the loop ends at End exactly.                   *)
Rest ==
  /\ pc = "rest"
  /\ IF d >= End THEN Goto("done") ELSE Copy(1) /\ UNCHANGED pc

Next == Enter \/ Head \/ Aligned \/ Blocks \/ Words \/ Fours \/ Rest

Spec == Init /\ [][Next]_vars
-----------------------------------------------------------------------------
TypeOK ==
  /\ c \in Areas
  /\ pc \in {"enter", "head", "aligned", "blocks", "words", "fours", "rest", "done"}
  /\ d \in c.dst .. End /\ s = c.src + (d - c.dst)
  /\ mem \in [0 .. Bytes - 1 -> 0 .. Bytes - 1]

(* What was copied so far is the front of the source, and every other byte  *)
(* of the memory is as it was: no block, word or four reaches past the end. *)
OnlyFrontCopied ==
  \A a \in DOMAIN mem :
    mem[a] = IF a \in c.dst .. End - 1 /\ a < d THEN c.src + (a - c.dst) ELSE a

(* Word accesses are aligned: loads and stores of blocks and words never    *)
(* start at an address that is no multiple of four.                         *)
WordsAligned == pc \in {"blocks", "words"} => d % Word = 0 /\ s % Word = 0

(* A call shorter than what the import was to copy copies all of it.        *)
CopiedAtEnd == pc = "done" /\ c.n < Import => d = End
=============================================================================
