-------------------------------- MODULE Memset --------------------------------
(***************************************************************************)
(* memset of the sample module (src/samples/obf_1/obf_w2c.c, f9): bytes at *)
(* both ends, then words at both ends, then four 64-bit words in a turn;   *)
(* the stores overlap so that few lengths need a loop.                     *)
(***************************************************************************)
EXTENDS Integers

CONSTANTS
  Byte,       \* how many values a byte has (256)
  Untouched,  \* a byte nobody stored
  Calls,      \* records [p, v, n]: the address, the int and the length
  Bytes       \* the memory has bytes 0 .. Bytes - 1

Word == 4
Long == 8

MemsetAssumption ==
  /\ Byte \in Nat \ {0, 1} /\ Bytes \in Nat
  /\ Untouched \notin 0 .. Byte - 1
  /\ \A c \in Calls : c.p \in Nat /\ c.v \in Nat /\ c.n \in Nat /\ c.p + c.n <= Bytes

VARIABLES
  call,    \* p0, p1 and p2 as they were given
  pc,
  start,   \* the first aligned address, then the next of the loop (l3, p1)
  left,    \* bytes from there on: whole words (l4), then those of the loop (p2)
  aligned, \* every store was at a multiple of its size
  mem

vars == <<call, pc, start, left, aligned, mem>>

Init ==
  /\ call \in Calls
  /\ pc = "bytes"
  /\ start = call.p /\ left = call.n
  /\ aligned = TRUE
  /\ mem = [a \in 0 .. Bytes - 1 |-> Untouched]

(* What the k-th byte of a number is worth, the lowest being the 0th.       *)
Power[k \in 0 .. Long] == IF k = 0 THEN 1 ELSE Byte * Power[k - 1]
ByteOf(number, k) == (number \div Power[k]) % Byte

(* Stores of a number of size bytes, the lowest first, at some addresses.   *)
Store(at, size, number) ==
  /\ mem' = [a \in DOMAIN mem |->
       LET hit == {b \in at : a \in b .. b + size - 1} IN
       IF hit = {} THEN mem[a]
       ELSE ByteOf(number, a - (CHOOSE b \in hit : TRUE))]
  /\ aligned' = (aligned /\ \A b \in at : b % size = 0)

(* The byte, and the byte in each byte of a word: 16843009 is 0x01010101,   *)
(* and 4294967297 puts a word on top of itself.                             *)
LowByte == call.v % Byte
(* Mutant: the int is not cut to a byte. *)
InEveryByteOf(v) == v * (1 + Byte + Power[2] + Power[3])
InEveryByte(v) == (v % Byte) * (1 + Byte + Power[2] + Power[3])
InBothWords(word) == word * (1 + Power[4])

End == call.p + call.n

(* First and last byte, then two more, then one more, from both ends.       *)
EdgeBytes ==
  /\ pc = "bytes"
  /\ LET n == call.n IN
     /\ Store((IF n >= 1 THEN {call.p, End - 1} ELSE {}) \cup
              (IF n >= 3 THEN {call.p + 1, call.p + 2, End - 3, End - 2} ELSE {}) \cup
              (IF n >= 7 THEN {call.p + 3, End - 4} ELSE {}),
              1, LowByte)
     /\ pc' = IF n < 9 THEN "done" ELSE "align"
  /\ UNCHANGED <<call, start, left>>


(* The first aligned address and the whole words from it on.                *)
Align ==
  /\ pc = "align"
  /\ LET skip == (-call.p) % Word IN
     /\ start' = call.p + skip
     /\ left' = (call.n - skip) - ((call.n - skip) % Word)
  /\ pc' = "words"
  /\ UNCHANGED <<call, aligned, mem>>

(* One word, then two more, then four more, from both ends.                 *)
EdgeWords ==
  /\ pc = "words"
  /\ LET from(k) == start + k  upto(k) == start + left - k IN
     Store({from(0), upto(4)} \cup
           (IF left >= 9 THEN {from(4), from(8), upto(8), upto(12)} ELSE {}) \cup
           (IF left >= 25 THEN {from(k) : k \in {12, 16, 20, 24}} \cup
                               {upto(k) : k \in {16, 20, 24, 28}} ELSE {}),
           Word, InEveryByte(call.v))
  /\ pc' = IF left < 25 THEN "done" ELSE "skip"
  /\ UNCHANGED <<call, start, left>>

(* Mutant: the loop starts after the words at the front, aligned or not. *)
SkipWords ==
  /\ pc = "skip"
  /\ start' = start + 24 /\ left' = left - 24
  /\ pc' = IF left' < 32 THEN "done" ELSE "longs"
  /\ UNCHANGED <<call, aligned, mem>>

(* The loop starts after the words at the front, at a multiple of eight.    *)
Skip ==
  /\ pc = "skip"
  /\ LET k == (IF start % Long >= Word THEN Word ELSE 0) + 24 IN
     start' = start + k /\ left' = left - k
  /\ pc' = IF left' < 32 THEN "done" ELSE "longs"
  /\ UNCHANGED <<call, aligned, mem>>

(* Mutant: the last turn is left out if it has exactly its 32 bytes. *)
LongsShort ==
  /\ pc = "longs"
  /\ Store({start + k : k \in {0, 8, 16, 24}}, Long, InBothWords(InEveryByte(call.v)))
  /\ start' = start + 32 /\ left' = left - 32
  /\ pc' = IF left' > 32 THEN "longs" ELSE "done"
  /\ UNCHANGED call

(* Four 64-bit words; fewer bytes than that were stored from the end.       *)
Longs ==
  /\ pc = "longs"
  /\ Store({start + k : k \in {0, 8, 16, 24}}, Long, InBothWords(InEveryByte(call.v)))
  /\ start' = start + 32 /\ left' = left - 32
  /\ pc' = IF left' > 31 THEN "longs" ELSE "done"
  /\ UNCHANGED call

Next == EdgeBytes \/ Align \/ EdgeWords \/ Skip \/ Longs

Spec == Init /\ [][Next]_vars
-----------------------------------------------------------------------------
TypeOK ==
  /\ call \in Calls
  /\ pc \in {"bytes", "align", "words", "skip", "longs", "done"}
  /\ start \in call.p .. End /\ left \in 0 .. call.n
  /\ aligned \in BOOLEAN
  /\ mem \in [0 .. Bytes - 1 -> 0 .. Byte - 1 \cup {Untouched}]

(* Whatever was stored is the byte asked for and inside the area.           *)
OnlyTheArea ==
  \A a \in DOMAIN mem :
    mem[a] # Untouched => mem[a] = LowByte /\ a \in call.p .. End - 1

(* At the end no byte of the area was left out, for any length and any      *)
(* alignment.                                                               *)
AllOfTheArea == pc = "done" => \A a \in call.p .. End - 1 : mem[a] # Untouched

(* Stores of words and 64-bit words are at multiples of their size.         *)
Aligned == aligned
=============================================================================
