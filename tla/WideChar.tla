------------------------------- MODULE WideChar -------------------------------
(***************************************************************************)
(* wctomb of the sample module (src/samples/obf_1/obf_w2c.c, f41 and f42): *)
(* a wide character as bytes, in UTF-8 or, in a locale of single bytes, as *)
(* itself.                                                                 *)
(***************************************************************************)
EXTENDS Integers, Sequences

CONSTANT Characters   \* unsigned numbers to be converted

WideCharAssumption == Characters \subseteq Nat

EILSEQ == 25

VARIABLES
  wc,
  buffer,   \* a buffer was given
  utf8,     \* the locale has one
  pc,
  bytes,    \* what was stored
  errno,
  result

vars == <<wc, buffer, utf8, pc, bytes, errno, result>>

Init ==
  /\ wc \in Characters /\ buffer \in BOOLEAN /\ utf8 \in BOOLEAN
  /\ pc = "called"
  /\ bytes = <<>> /\ errno = 0 /\ result = 0

Return(n) == pc' = "done" /\ result' = n /\ UNCHANGED <<wc, buffer, utf8>>
Stores(s) == bytes' = s /\ Return(Len(s)) /\ UNCHANGED errno

(* Without a buffer the answer is that there is no state.                   *)
NoBuffer ==
  /\ pc = "called" /\ ~buffer
  /\ Return(0) /\ UNCHANGED <<bytes, errno>>

(* Six, twelve and eighteen bits.                                           *)
Bits6 == 64
Bits12 == Bits6 * Bits6
Bits18 == Bits6 * Bits12

(* Six bits of the character, and the first byte of its sequence.           *)
Tail6(shift) == 128 + ((wc \div shift) % Bits6)
Lead(shift, mark) == mark + wc \div shift

(* The 0x10000 characters of a plane, of which there are 17.                *)
Plane == 32 * 2048

(* ASCII, and 0xdf80 to 0xdfff in a locale of single bytes.                 *)
AsItself == wc <= 127 \/ (~utf8 /\ wc \div 128 = 447)

One ==
  /\ pc = "called" /\ buffer /\ AsItself
  /\ Stores(<<wc % 256>>)

Two ==
  /\ pc = "called" /\ buffer /\ ~AsItself /\ utf8
  /\ wc <= 2047
  /\ Stores(<<Lead(Bits6, 192), Tail6(1)>>)

(* Mutant: the upper half of the surrogates is not left out. *)
BasicPlaneUpper == wc \in 2048 .. Plane - 1 /\ wc \div 1024 # 54

(* Below 0xd800, or from 0xe000 on.                                         *)
BasicPlane == wc \in 2048 .. 27 * 2048 - 1 \/ wc \div 8192 = 7

Three ==
  /\ pc = "called" /\ buffer /\ ~AsItself /\ utf8
  /\ BasicPlane
  /\ Stores(<<Lead(Bits12, 224), Tail6(Bits6), Tail6(1)>>)


HigherPlanes == wc - Plane \in 0 .. 16 * Plane - 1

Four ==
  /\ pc = "called" /\ buffer /\ ~AsItself /\ utf8
  /\ HigherPlanes
  /\ Stores(<<Lead(Bits18, 240), Tail6(Bits12), Tail6(Bits6), Tail6(1)>>)

Refused ==
  /\ pc = "called" /\ buffer /\ ~AsItself
  /\ ~utf8 \/ (wc > 2047 /\ ~BasicPlane /\ ~HigherPlanes)
  /\ errno' = EILSEQ /\ Return(-1) /\ UNCHANGED bytes

Next == NoBuffer \/ One \/ Two \/ Three \/ Four \/ Refused

Spec == Init /\ [][Next]_vars
-----------------------------------------------------------------------------
TypeOK ==
  /\ pc \in {"called", "done"}
  /\ \A i \in DOMAIN bytes : bytes[i] \in 0 .. 255
  /\ errno \in {0, EILSEQ} /\ result \in -1 .. 4

(* The halves of UTF-16, 0xd800 to 0xdfff.                                  *)
Surrogates == 27 * 2048 .. 28 * 2048 - 1

(* What a decoder of UTF-8 makes of a sequence: the length its first byte   *)
(* announces, continuation bytes, the shortest form and no surrogate.       *)
Announced(b) == CASE b < 128 -> 1 [] b \in 192 .. 223 -> 2 [] b \in 224 .. 239 -> 3
                  [] b \in 240 .. 247 -> 4 [] OTHER -> 0
Payload(i) == IF i = 1 THEN bytes[1] - <<0, 192, 224, 240>>[Len(bytes)] ELSE bytes[i] - 128
Decoded == LET d[i \in 0 .. Len(bytes)] == IF i = 0 THEN 0 ELSE d[i - 1] * 64 + Payload(i)
           IN  d[Len(bytes)]
Shortest == <<0, 128, 2048, Plane>>

DecodedAgain ==
  pc = "done" /\ buffer /\ utf8 /\ result > 0 =>
    /\ Len(bytes) = Announced(bytes[1])
    /\ \A i \in 2 .. Len(bytes) : bytes[i] \in 128 .. 191
    /\ Decoded = wc
    /\ wc >= Shortest[Len(bytes)]
    /\ wc \notin Surrogates /\ wc < 17 * Plane

(* A character is refused, with errno, only if it has no bytes; in a locale *)
(* of single bytes only an ASCII character becomes an ASCII byte.           *)
RefusedOnlyIfNone ==
  pc = "done" /\ buffer =>
    /\ result = -1 <=> errno = EILSEQ
    /\ result = -1 => bytes = <<>> /\ (utf8 => wc \in Surrogates \/ wc >= 17 * Plane)
    /\ ~utf8 /\ result = 1 => wc <= 127 <=> bytes[1] <= 127
=============================================================================
