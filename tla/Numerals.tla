------------------------------- MODULE Numerals -------------------------------
(***************************************************************************)
(* Numbers to digits and back in the sample module (src/samples/obf_1/     *)
(* obf_w2c.c): fmt_x, fmt_o and fmt_u (f28, f29, f30), which write from    *)
(* the end of a buffer to its front, and getint (f26), which reads widths, *)
(* precisions and positions.                                               *)
(***************************************************************************)
EXTENDS Integers, Sequences

CONSTANT Half   \* 2^32: a word has numbers below it, a double word below its square

NumeralsAssumption == Half \in Nat /\ Half > 20 /\ Half % 2 = 0

IntMax == Half \div 2 - 1

VARIABLES
  kind,    \* x, o or u
  value,
  pc,
  rest,    \* what is still to be written
  text,    \* the digits
  number   \* what getint has read

vars == <<kind, value, pc, rest, text, number>>

Init ==
  /\ kind \in {"x", "o", "u"} /\ value \in 0 .. Half * Half - 1
  /\ pc = CASE value = 0 -> "printed"
            [] value # 0 /\ kind = "u" /\ value >= Half -> "long"
            [] OTHER -> "short"
  /\ rest = value /\ text = <<>> /\ number = 0

Base == CASE kind = "x" -> 16 [] kind = "o" -> 8 [] OTHER -> 10

Digit ==
  /\ text' = <<rest % Base>> \o text
  /\ rest' = rest \div Base
  /\ UNCHANGED <<kind, value, number>>


(* Decimal digits as long as the quotient needs a double word.              *)
Long ==
  /\ pc = "long"
  /\ Digit
  /\ pc' = IF rest > 10 * Half - 1 THEN "long" ELSE "cut"

(* The quotient goes on as a word.                                          *)
Cut ==
  /\ pc = "cut"
  /\ rest' = rest % Half
  /\ pc' = IF rest = 0 THEN "printed" ELSE "short"
  /\ UNCHANGED <<kind, value, text, number>>

Short ==
  /\ pc = "short"
  /\ Digit
  /\ pc' = IF rest > Base - 1 THEN "short" ELSE "printed"

(* A decimal text is read again, digit after digit, from its front.         *)
Turn ==
  /\ pc = "printed" /\ kind = "u"
  /\ pc' = "read"
  /\ UNCHANGED <<kind, value, rest, text, number>>

(* Mutant: -1 is compared as a signed number. *)
GetintForgets ==
  /\ pc = "read" /\ text # <<>>
  /\ number' = IF number > IntMax \div 10 THEN -1
               ELSE IF Head(text) > IntMax - 10 * number THEN -1 ELSE 10 * number + Head(text)
  /\ text' = Tail(text)
  /\ UNCHANGED <<kind, value, pc, rest>>

(* A number too large for an int is -1 and stays it, as -1 is compared as   *)
(* an unsigned number.                                                      *)
Getint ==
  /\ pc = "read" /\ text # <<>>
  /\ number' = IF number = -1 \/ number > IntMax \div 10 THEN -1
               ELSE IF Head(text) > IntMax - 10 * number THEN -1 ELSE 10 * number + Head(text)
  /\ text' = Tail(text)
  /\ UNCHANGED <<kind, value, pc, rest>>

Next == Long \/ Cut \/ Short \/ Turn \/ Getint

Spec == Init /\ [][Next]_vars
-----------------------------------------------------------------------------
TypeOK ==
  /\ pc \in {"long", "cut", "short", "printed", "read"}
  /\ rest \in 0 .. value
  /\ \A i \in DOMAIN text : text[i] \in 0 .. Base - 1
  /\ number \in -1 .. IntMax

(* What the digits of a text are worth.                                     *)
Worth == LET worth[i \in 0 .. Len(text)] == IF i = 0 THEN 0 ELSE worth[i - 1] * Base + text[i]
         IN  worth[Len(text)]

(* The digits are those of the number, without a leading zero, though the   *)
(* second loop only sees a word.                                            *)
Printed ==
  pc = "printed" => /\ Worth = value
                    /\ text # <<>> => Head(text) # 0

(* Reading a text gives the number that was written, or -1 for every number *)
(* an int does not hold.                                                    *)
ReadAgain ==
  pc = "read" /\ text = <<>> => number = IF value <= IntMax THEN value ELSE -1
=============================================================================
