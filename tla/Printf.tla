------------------------------- MODULE Printf -------------------------------
(***************************************************************************)
(* vfprintf of the sample module (src/samples/obf_1/obf_w2c.c, f23) and    *)
(* the formatter it runs twice (f24): a first time without a stream, to    *)
(* find the types of positional arguments, and a second time to write.     *)
(* Characters are counted, not modelled; a format is a sequence of texts   *)
(* and directives.                                                         *)
(***************************************************************************)
EXTENDS Integers, Sequences, FiniteSets

CONSTANTS
  Formats,     \* sequences of items, see Item
  Values,      \* what arguments are worth
  IntMax,      \* the largest int (2^31 - 1)
  NL_ARGMAX,   \* the number of positional arguments (9)
  FloatLens,   \* lengths fmt_fp gives
  Unset        \* a value nobody wrote

Flag == {"left", "zero", "alt", "plus", "space"}
Prefix == {"bare", "l", "ll", "h", "hh", "L", "z", "j"}
Conversion == {"d", "u", "o", "x", "c", "C", "s", "S", "p", "n", "f", "bad"}

(* Widths and precisions: a number as getint reads it, -1 if it is too     *)
(* large; the argument at position n, which C counts from 1; the next      *)
(* argument; or, without a point, no precision.                            *)
Count == [how : {"number"}, n : -1 .. IntMax] \cup
         [how : {"position"}, n : 1 .. NL_ARGMAX] \cup
         [how : {"next"}, n : {0}]
NoCount == [how |-> "none", n |-> 0]
Item == [text : Nat] \cup
        [pos : 0 .. NL_ARGMAX, flags : SUBSET Flag, width : Count,
         prec : Count \cup {NoCount}, prefix : Prefix, conv : Conversion]

ArgType == {"ptr", "int", "uint", "llong", "ullong", "double", "ldouble"}
IntMin == -IntMax - 1

ASSUME PrintfAssumption ==
  /\ IntMax \in Nat \ {0} /\ NL_ARGMAX \in Nat \ {0}
  /\ Values \subseteq IntMin .. IntMax /\ 0 \in Values
  /\ FloatLens \subseteq Nat
  /\ Formats \subseteq Seq(Item)
  /\ Unset \notin Int \cup ArgType

VARIABLES
  format,
  stream,      \* its error flag before the call, buffering and permission
  pass,        \* 1 without a stream, 2 with it
  pc,
  at,          \* the item being formatted
  cnt,         \* what has been counted
  pending,     \* what the last item adds to it
  positional,  \* positional arguments are used (l10)
  cur,         \* the directive: fl, w, p, xp, arg, pl and len
  nl_type,     \* the types of positional arguments
  nl_arg,      \* their values
  taken,       \* what was taken from the va_list: records [at, type]
  ap,          \* the position in it
  out,         \* the characters written
  err,         \* the error flag of the stream
  unset,       \* a positional argument was used that was never fetched
  result

vars == <<format, stream, pass, pc, at, cnt, pending, positional, cur, nl_type,
          nl_arg, taken, ap, out, err, unset, result>>
args == <<nl_type, nl_arg, taken, ap>>
call == <<format, stream, pass>>

Larger(a, b) == IF a > b THEN a ELSE b
IsText(item) == "text" \in DOMAIN item
(* What is known of the directive that is formatted.                       *)
Current == [fl : SUBSET Flag, w : {IntMin} \cup 0 .. IntMax, p : Int, xp : BOOLEAN,
            arg : Values, pl : 0 .. 2, len : Nat]
Blank == [fl |-> {}, w |-> 0, p |-> -1, xp |-> FALSE, arg |-> 0, pl |-> 0, len |-> 0]

(* The table `states` in the data of the module: the type of the argument. *)
Type(prefix, conv) ==
  CASE conv = "n" -> "ptr"
    [] conv = "d" -> CASE prefix \in {"bare", "h", "hh", "l", "z"} -> "int"
                       [] prefix \in {"ll", "j"} -> "llong"
                       [] OTHER -> Unset
    [] conv \in {"u", "o", "x"} ->
         CASE prefix \in {"bare", "h", "hh", "l", "z"} -> "uint"
           [] prefix \in {"ll", "j"} -> "ullong"
           [] OTHER -> Unset
    [] conv = "f" -> CASE prefix \in {"bare", "l"} -> "double"
                       [] prefix = "L" -> "ldouble"
                       [] OTHER -> Unset
    [] conv = "c" -> IF prefix \in {"bare", "l"} THEN "int" ELSE Unset
    [] conv = "s" -> IF prefix \in {"bare", "l"} THEN "ptr" ELSE Unset
    [] conv = "C" -> IF prefix = "bare" THEN "int" ELSE Unset
    [] conv \in {"S", "p"} -> IF prefix = "bare" THEN "ptr" ELSE Unset
    [] OTHER -> Unset

(* pop_arg: 8-byte values are aligned; positions are words of 4 bytes.     *)
Words(type) ==
  CASE type \in {"llong", "ullong", "double"} -> 2
    [] type = "ldouble" -> 4
    [] OTHER -> 1
Aligned(type, a) == IF Words(type) > 1 /\ a % 2 = 1 THEN a + 1 ELSE a

Init ==
  /\ format \in Formats
  /\ stream \in [err : BOOLEAN, buffered : BOOLEAN, writable : BOOLEAN]
  /\ pass = 1 /\ pc = "next" /\ at = 1
  /\ cnt = 0 /\ pending = 0
  /\ positional = FALSE
  /\ cur = Blank
  /\ nl_type = [k \in 1 .. NL_ARGMAX |-> Unset]
  /\ nl_arg = [k \in 1 .. NL_ARGMAX |-> Unset]
  /\ taken = <<>> /\ ap = 0
  /\ out = 0 /\ err = stream.err
  /\ unset = FALSE
  /\ result = Unset

(* printf_core returns n: a failure of either pass ends vfprintf, a success *)
(* of the first starts the second.                                          *)
Return(n) == pc' = "returned" /\ result' = n

(* out, with the pieces in order: the stream takes a piece as a whole or    *)
(* sets its error flag, after which nothing is written (f25).               *)
Total(pieces) == LET sum[i \in 0 .. Len(pieces)] == IF i = 0 THEN 0 ELSE sum[i - 1] + pieces[i]
                 IN  sum[Len(pieces)]
Write(pieces) ==
  IF err THEN UNCHANGED <<out, err>>
  ELSE \/ out' = out + Total(pieces) /\ UNCHANGED err
       \/ \E i \in DOMAIN pieces :
            /\ pieces[i] > 0
            /\ out' = out + Total(SubSeq(pieces, 1, i - 1))
            /\ err' = TRUE

(* Mutant: the count is not compared with the largest int. *)
RoomAlways == TRUE

(* The top of the loop: what the last item added is counted.                *)
Room == pending <= IntMax - cnt
Counted == cnt + pending

TooLong ==
  /\ pc = "next" /\ ~Room
  /\ Return(-1)
  /\ UNCHANGED <<format, stream, pass, at, cnt, pending, positional, cur, args, out, err, unset>>

(* Mutant: texts are written without looking for a stream. *)
LiteralTwice ==
  /\ pc = "next" /\ Room /\ at <= Len(format) /\ IsText(format[at])
  /\ cnt' = Counted
  /\ pending' = format[at].text
  /\ Write(<<format[at].text>>)
  /\ at' = at + 1
  /\ UNCHANGED <<call, pc, positional, cur, args, unset, result>>

(* A text; %% counts as text.                                               *)
Literal ==
  /\ pc = "next" /\ Room /\ at <= Len(format) /\ IsText(format[at])
  /\ cnt' = Counted
  /\ IF format[at].text > IntMax - cnt'
     THEN Return(-1) /\ UNCHANGED <<at, pending, out, err>>
     ELSE /\ pending' = format[at].text
          /\ IF pass = 2 THEN Write(<<format[at].text>>) ELSE UNCHANGED <<out, err>>
          /\ at' = at + 1
          /\ UNCHANGED <<pc, result>>
  /\ UNCHANGED <<call, positional, cur, args, unset>>

(* %n$ and the flags.                                                       *)
Directive ==
  /\ pc = "next" /\ Room /\ at <= Len(format) /\ ~IsText(format[at])
  /\ cnt' = Counted /\ pending' = 0
  /\ positional' = (positional \/ format[at].pos # 0)
  /\ cur' = [Blank EXCEPT !.fl = format[at].flags]
  /\ pc' = "width"
  /\ UNCHANGED <<call, at, args, out, err, unset, result>>

(* Mutant: every argument is taken as an int. *)
TakeInt(type) ==
  /\ taken' = Append(taken, [at |-> ap, type |-> "int"])
  /\ ap' = ap + 1

(* va_arg and pop_arg: the next value of the type.                          *)
Take(type) ==
  /\ taken' = Append(taken, [at |-> Aligned(type, ap), type |-> type])
  /\ ap' = Aligned(type, ap) + Words(type)

(* The value of the positional argument k, anything if it was not fetched.  *)
Fetched(k) == IF nl_arg[k] = Unset THEN Values ELSE {nl_arg[k]}

(* A width or precision that an argument gives; 0 in the first pass.        *)
StarValues(count) ==
  IF pass = 1 THEN {0} ELSE IF count.how = "next" THEN Values ELSE Fetched(count.n)
Star(count) ==
  IF pass = 1
  THEN /\ nl_type' = IF count.how = "next" THEN nl_type
                     ELSE [nl_type EXCEPT ![count.n] = "int"]
       /\ UNCHANGED <<nl_arg, taken, ap, unset>>
  ELSE IF count.how = "next"
  THEN Take("int") /\ UNCHANGED <<nl_type, nl_arg, unset>>
  ELSE unset' = (unset \/ nl_arg[count.n] = Unset) /\ UNCHANGED args

(* A negative width is a width to the left; the least int is its own        *)
(* negative, and less than any length.                                      *)
SetWidth(v) ==
  cur' = IF v < 0 THEN [cur EXCEPT !.w = IF v = IntMin THEN v ELSE -v,
                                   !.fl = @ \cup {"left"}]
         ELSE [cur EXCEPT !.w = v]

Width ==
  /\ pc = "width"
  /\ LET width == format[at].width IN
     CASE width.how = "number" ->
            /\ IF width.n < 0 THEN Return(-1) /\ UNCHANGED cur
               ELSE SetWidth(width.n) /\ pc' = "prec" /\ UNCHANGED result
            /\ UNCHANGED <<args, unset>>
       [] width.how = "next" /\ positional -> Return(-1) /\ UNCHANGED <<cur, args, unset>>
       [] OTHER ->
            /\ \E v \in StarValues(width) : SetWidth(v)
            /\ Star(width) /\ pc' = "prec" /\ UNCHANGED result
  /\ positional' = (positional \/ format[at].width.how = "position")
  /\ UNCHANGED <<call, at, cnt, pending, out, err>>

SetPrecision(v) == cur' = [cur EXCEPT !.p = v, !.xp = v >= 0]

Precision ==
  /\ pc = "prec"
  /\ LET prec == format[at].prec IN
     CASE prec.how = "none" ->
            pc' = "arg" /\ UNCHANGED <<cur, args, unset, result>>
       [] prec.how = "number" ->
            /\ cur' = [cur EXCEPT !.p = prec.n, !.xp = TRUE]
            /\ pc' = "arg"
            /\ UNCHANGED <<args, unset, result>>
       [] prec.how = "next" /\ positional -> Return(-1) /\ UNCHANGED <<cur, args, unset>>
       [] OTHER ->
            /\ \E v \in StarValues(prec) : SetPrecision(v)
            /\ Star(prec) /\ pc' = "arg" /\ UNCHANGED result
  /\ UNCHANGED <<call, at, cnt, pending, positional, out, err>>

(* The length modifiers and the argument.  Without a stream a positional    *)
(* one only leaves its type, and any other ends the pass.                   *)
Argument ==
  /\ pc = "arg"
  /\ LET item == format[at]
         type == Type(item.prefix, item.conv)
         Go(v) == IF err THEN Return(-1) /\ UNCHANGED cur
                  ELSE /\ cur' = [cur EXCEPT !.arg = v, !.fl = IF "left" \in @ THEN @ \ {"zero"} ELSE @]
                       /\ pc' = "convert" /\ UNCHANGED result
     IN  IF type = Unset THEN Return(-1) /\ UNCHANGED <<at, cur, args, unset>>
         ELSE IF pass = 1 /\ item.pos = 0
         THEN Return(0) /\ UNCHANGED <<at, cur, args, unset>>
         ELSE IF pass = 1
         THEN /\ nl_type' = [nl_type EXCEPT ![item.pos] = type]
              /\ at' = at + 1 /\ pc' = "next" /\ cur' = Blank
              /\ UNCHANGED <<nl_arg, taken, ap, unset, result>>
         ELSE IF item.pos # 0
         THEN /\ unset' = (unset \/ nl_arg[item.pos] = Unset)
              /\ \E v \in Fetched(item.pos) : Go(v)
              /\ UNCHANGED <<args, at>>
         ELSE /\ Take(type)
              /\ \E v \in Values : Go(v)
              /\ UNCHANGED <<nl_type, nl_arg, unset, at>>
  /\ UNCHANGED <<call, cnt, pending, positional, out, err>>

(* The argument of an unsigned conversion, and the number of its digits:   *)
(* fmt_u, fmt_o and fmt_x write none for 0.                                *)
Unsigned(v) == IF v < 0 THEN v + 2 * IntMax + 2 ELSE v
Digits(v, base) ==
  LET digits[n \in 0 .. v] == IF n = 0 THEN 0 ELSE digits[n \div base] + 1
  IN  digits[v]

(* The cases d, u, o, x and p up to their common end.  p compares its       *)
(* precision with 8 as unsigned numbers, so that a negative one stays.      *)
Integer(item) ==
  LET v == cur.arg  fl == cur.fl
      len == CASE item.conv = "d" -> Digits(IF v < 0 THEN -v ELSE v, 10)
               [] item.conv = "u" -> Digits(Unsigned(v), 10)
               [] item.conv = "o" -> Digits(Unsigned(v), 8)
               [] OTHER -> Digits(Unsigned(v), 16)
  IN  CASE item.conv = "d" ->
             [cur EXCEPT !.len = len,
                         !.pl = IF v < 0 \/ fl \cap {"plus", "space"} # {} THEN 1 ELSE 0]
        [] item.conv = "u" -> [cur EXCEPT !.len = len]
        [] item.conv = "o" ->
             [cur EXCEPT !.len = len, !.p = IF "alt" \in fl THEN Larger(@, len + 1) ELSE @]
        [] item.conv = "x" ->
             [cur EXCEPT !.len = len, !.pl = IF "alt" \in fl /\ v # 0 THEN 2 ELSE 0]
        [] OTHER ->
             [cur EXCEPT !.len = len, !.p = IF @ < 0 THEN @ ELSE Larger(@, 8),
                         !.fl = @ \cup {"alt"},
                         !.pl = IF v # 0 THEN 2 ELSE 0]

(* The precision of an integer: it takes the place of the zero flag, and a  *)
(* zero is written as nothing only if it is explicitly 0.                   *)
ConvertInteger ==
  /\ pc = "convert" /\ format[at].conv \in {"d", "u", "o", "x", "p"}
  /\ LET c == Integer(format[at])
         zero == cur.arg = 0
     IN  IF c.xp /\ c.p < 0
         THEN Return(-1) /\ UNCHANGED cur
         ELSE /\ cur' = [c EXCEPT
                   !.fl = IF c.xp THEN @ \ {"zero"} ELSE @,
                   !.p = IF zero /\ c.p = 0 THEN 0
                         ELSE Larger(c.p, c.len + (IF zero THEN 1 ELSE 0))]
              /\ pc' = "put" /\ UNCHANGED result
  /\ UNCHANGED <<call, at, cnt, pending, positional, args, out, err, unset>>

(* c, and C of the null character.                                          *)
Character == format[at].conv = "c" /\ format[at].prefix = "bare"
WideCharacter == format[at].conv = "C" \/ (format[at].conv = "c" /\ format[at].prefix = "l")
WideString == format[at].conv = "S" \/ (format[at].conv = "s" /\ format[at].prefix = "l")

ConvertCharacter ==
  /\ pc = "convert"
  /\ Character \/ (WideCharacter /\ cur.arg = 0)
  /\ cur' = [cur EXCEPT !.p = 1, !.len = 1, !.fl = @ \ {"zero"}]
  /\ pc' = "put"
  /\ UNCHANGED <<call, at, cnt, pending, positional, args, out, err, unset, result>>

(* s: a null pointer is "(null)"; any other argument is the length of its   *)
(* string.  Without a precision the whole string has to fit an int.         *)
StringLength(v) == IF v = 0 THEN 6 ELSE Unsigned(v)

ConvertString ==
  /\ pc = "convert" /\ format[at].conv = "s" /\ format[at].prefix = "bare"
  /\ LET n == StringLength(cur.arg)
         most == IF cur.p < 0 THEN IntMax ELSE cur.p
         len == IF n < most THEN n ELSE most
     IN  IF cur.p < 0 /\ len < n
         THEN Return(-1) /\ UNCHANGED cur
         ELSE /\ cur' = [cur EXCEPT !.p = len, !.len = len, !.fl = @ \ {"zero"}]
              /\ pc' = "put" /\ UNCHANGED result
  /\ UNCHANGED <<call, at, cnt, pending, positional, args, out, err, unset>>

(* pad: up to width, unless a flag says the padding goes elsewhere.         *)
Pad(width, len, fl) ==
  IF fl \cap {"left", "zero"} # {} \/ len >= width THEN 0 ELSE width - len
Flip(fl, flag) == IF flag \in fl THEN fl \ {flag} ELSE fl \cup {flag}

(* C and S: characters of two bytes each, the last that fits the precision  *)
(* is the last that is written; a negative argument is no character.        *)
WideLength ==
  LET v == cur.arg
      n == IF WideCharacter THEN 2 ELSE 2 * v
  IN  IF WideString /\ cur.p >= 0 /\ cur.p < n THEN 2 * (cur.p \div 2) ELSE n

ConvertWide ==
  /\ pc = "convert"
  /\ WideString \/ (WideCharacter /\ cur.arg # 0)
  /\ IF (cur.arg < 0 /\ ~(WideString /\ cur.p = 0)) \/ WideLength > IntMax
     THEN Return(-1) /\ UNCHANGED <<at, pending, cur, out, err>>
     ELSE LET len == IF cur.arg < 0 THEN 0 ELSE WideLength IN
          /\ Write(<<Pad(cur.w, len, cur.fl), len, Pad(cur.w, len, Flip(cur.fl, "left"))>>)
          /\ pending' = Larger(cur.w, len)
          /\ at' = at + 1 /\ pc' = "next" /\ cur' = Blank
          /\ UNCHANGED result
  /\ UNCHANGED <<call, cnt, positional, args, unset>>

(* The floating conversions, by fmt_fp: it fails or writes what it returns, *)
(* at least the width.                                                      *)
ConvertFloat ==
  /\ pc = "convert" /\ format[at].conv = "f"
  /\ \/ /\ Return(-1) /\ UNCHANGED <<at, pending, cur, out, err>>
     \/ /\ ~(cur.xp /\ cur.p < 0)
        /\ \E n \in FloatLens :
             /\ Write(<<Larger(cur.w, n)>>)
             /\ pending' = Larger(cur.w, n)
        /\ at' = at + 1 /\ pc' = "next" /\ cur' = Blank
        /\ UNCHANGED result
  /\ UNCHANGED <<call, cnt, positional, args, unset>>

(* n: the count so far goes to the argument, nothing is written.            *)
ConvertCount ==
  /\ pc = "convert" /\ format[at].conv = "n"
  /\ at' = at + 1 /\ pc' = "next" /\ cur' = Blank
  /\ UNCHANGED <<call, cnt, pending, positional, args, out, err, unset, result>>

(* Mutant: the zeroes of the width are written on the left as well. *)
PutZeroes ==
  /\ pc = "put"
  /\ LET p == Larger(cur.p, cur.len)
         w == Larger(cur.w, cur.pl + p)
         fl == cur.fl
     IN  IF p > IntMax - cur.pl \/ w > IntMax - cnt
         THEN Return(-1) /\ UNCHANGED <<at, pending, cur, out, err>>
         ELSE /\ Write(<<Pad(w, cur.pl + p, fl), cur.pl, Pad(w, cur.pl + p, fl \ {"zero"}),
                         Pad(p, cur.len, {}), cur.len,
                         Pad(w, cur.pl + p, Flip(fl, "left"))>>)
              /\ pending' = w
              /\ at' = at + 1 /\ pc' = "next" /\ cur' = Blank
              /\ UNCHANGED result
  /\ UNCHANGED <<call, cnt, positional, args, unset>>

(* The common end: spaces, prefix, zeroes of the width, zeroes of the       *)
(* precision, the digits or the string, spaces.                             *)
Put ==
  /\ pc = "put"
  /\ LET p == Larger(cur.p, cur.len)
         w == Larger(cur.w, cur.pl + p)
         fl == cur.fl
     IN  IF p > IntMax - cur.pl \/ w > IntMax - cnt
         THEN Return(-1) /\ UNCHANGED <<at, pending, cur, out, err>>
         ELSE /\ Write(<<Pad(w, cur.pl + p, fl), cur.pl, Pad(w, cur.pl + p, Flip(fl, "zero")),
                         Pad(p, cur.len, {}), cur.len,
                         Pad(w, cur.pl + p, Flip(fl, "left"))>>)
              /\ pending' = w
              /\ at' = at + 1 /\ pc' = "next" /\ cur' = Blank
              /\ UNCHANGED result
  /\ UNCHANGED <<call, cnt, positional, args, unset>>

(* The end of the format.  A first pass without positional arguments gives  *)
(* 0 as it does at the first argument.                                      *)
End ==
  /\ pc = "next" /\ Room /\ at > Len(format)
  /\ cnt' = Counted /\ pending' = 0
  /\ IF pass = 2 THEN Return(cnt')
     ELSE IF ~positional THEN Return(0)
     ELSE pc' = "fetch" /\ at' = 1 /\ UNCHANGED result
  /\ pass = 2 \/ ~positional => UNCHANGED at
  /\ UNCHANGED <<call, positional, cur, args, out, err, unset>>

(* Mutant: what follows a gap is not looked at. *)
FetchToGap ==
  /\ pc = "fetch"
  /\ IF at <= NL_ARGMAX /\ nl_type[at] # Unset
     THEN /\ Take(nl_type[at])
          /\ \E v \in Values : nl_arg' = [nl_arg EXCEPT ![at] = v]
          /\ at' = at + 1
          /\ UNCHANGED <<nl_type, pc, result>>
     ELSE Return(1) /\ UNCHANGED <<at, args>>
  /\ UNCHANGED <<call, cnt, pending, positional, cur, out, err, unset>>

(* The positional arguments are taken in their order; none may be missing   *)
(* before one that is used.                                                 *)
Fetch ==
  /\ pc = "fetch"
  /\ IF at <= NL_ARGMAX /\ nl_type[at] # Unset
     THEN /\ Take(nl_type[at])
          /\ \E v \in Values : nl_arg' = [nl_arg EXCEPT ![at] = v]
          /\ at' = at + 1
          /\ UNCHANGED <<nl_type, pc, result>>
     ELSE /\ Return(IF \E k \in at .. NL_ARGMAX : nl_type[k] # Unset THEN -1 ELSE 1)
          /\ UNCHANGED <<at, args>>
  /\ UNCHANGED <<call, cnt, pending, positional, cur, out, err, unset>>

(* Mutant: the second run is without a stream as well. *)
SecondAgain ==
  /\ pc = "returned" /\ pass = 1 /\ result >= 0
  /\ at' = 1 /\ cnt' = 0 /\ pending' = 0 /\ positional' = FALSE /\ cur' = Blank
  /\ pc' = "next" /\ result' = Unset
  /\ UNCHANGED <<format, stream, pass, args, out, err, unset>>

(* vfprintf: the error flag is cleared for the call; a stream that cannot   *)
(* be written, or whose buffer was not set up yet, is prepared first.       *)
Second ==
  /\ pc = "returned" /\ pass = 1 /\ result >= 0
  /\ pass' = 2
  /\ at' = 1 /\ cnt' = 0 /\ pending' = 0 /\ positional' = FALSE /\ cur' = Blank
  /\ IF stream.writable
     THEN pc' = "next" /\ err' = FALSE /\ result' = Unset
     ELSE pc' = "returned" /\ err' = TRUE /\ result' = -1
  /\ UNCHANGED <<format, stream, args, out, unset>>

(* Mutant: an error of this call is not looked at. *)
FinishOnly ==
  /\ pc = "returned" /\ (pass = 2 \/ result < 0)
  /\ pc' = "done"
  /\ err' = (err \/ stream.err)
  /\ UNCHANGED <<call, at, cnt, pending, positional, cur, args, out, unset, result>>

(* The buffer of an unbuffered stream is written, the error flag is as it   *)
(* was or set, and an error makes the result -1.                            *)
Finish ==
  /\ pc = "returned" /\ (pass = 2 \/ result < 0)
  /\ pc' = "done"
  /\ IF pass = 1 THEN UNCHANGED <<err, result>>
     ELSE \E failed \in IF stream.buffered THEN {FALSE} ELSE BOOLEAN :
            /\ err' = (err \/ failed \/ stream.err)
            /\ result' = IF err \/ failed THEN -1 ELSE result
  /\ UNCHANGED <<call, at, cnt, pending, positional, cur, args, out, unset>>

Next ==
  \/ TooLong \/ Literal \/ Directive \/ Width \/ Precision \/ Argument
  \/ ConvertInteger \/ ConvertCharacter \/ ConvertString \/ ConvertWide
  \/ ConvertFloat \/ ConvertCount \/ Put
  \/ End \/ Fetch \/ Second \/ Finish

Spec == Init /\ [][Next]_vars /\ WF_vars(Next)
-----------------------------------------------------------------------------
TypeOK ==
  /\ format \in Formats
  /\ pass \in {1, 2}
  /\ pc \in {"next", "width", "prec", "arg", "convert", "put", "fetch", "returned", "done"}
  /\ at \in 1 .. Larger(Len(format), NL_ARGMAX) + 1
  /\ cnt \in 0 .. IntMax /\ pending \in Nat
  /\ positional \in BOOLEAN /\ err \in BOOLEAN /\ unset \in BOOLEAN
  /\ cur \in Current
  /\ nl_type \in [1 .. NL_ARGMAX -> ArgType \cup {Unset}]
  /\ nl_arg \in [1 .. NL_ARGMAX -> Values \cup {Unset}]
  /\ taken \in Seq([at : Nat, type : ArgType])
  /\ out \in Nat /\ ap \in Nat
  /\ result \in -1 .. IntMax \cup {Unset}

(* A wide conversion with the zero flag (undefined in C) counts its width   *)
(* and pads on neither side.                                                *)
Regular ==
  \A i \in DOMAIN format :
    ~IsText(format[i]) => "left" \in format[i].flags \/ "zero" \notin format[i].flags
                          \/ format[i].conv \notin {"c", "C", "s", "S"}
                          \/ (format[i].conv \in {"c", "s"} /\ format[i].prefix = "bare")

(* What was written is what was counted, however the padding was divided    *)
(* between spaces, zeroes and precision, until the stream fails.            *)
WrittenIsCounted ==
  Regular /\ pass = 2 /\ ~err /\ pc = "next" => out = cnt + pending

(* A call that succeeds wrote the characters it says, all of them, and its  *)
(* stream did not fail.                                                     *)
ResultIsWritten ==
  Regular /\ pc = "done" /\ result >= 0 => out = result /\ (err => stream.err)

(* Nothing is written before the format has been found good to its end, as  *)
(* far as its arguments are positional, nor by a first pass.                *)
FirstPassIsSilent == pass = 1 => out = 0

(* What printf returns, what it has counted and what its stream took are    *)
(* the same thing at every point of the two passes.                         *)
CountsRight == TypeOK /\ WrittenIsCounted /\ ResultIsWritten /\ FirstPassIsSilent

(* The types of the arguments the first i items of a format take, one after *)
(* the other.                                                               *)
Stars(count) == IF count.how = "next" THEN <<"int">> ELSE <<>>
TypesOf(f) ==
  LET types[i \in 0 .. Len(f)] ==
        IF i = 0 THEN <<>>
        ELSE IF IsText(f[i]) THEN types[i - 1]
        ELSE types[i - 1] \o Stars(f[i].width) \o Stars(f[i].prec)
                          \o <<Type(f[i].prefix, f[i].conv)>>
  IN  types
TakenTypes == [i \in DOMAIN taken |-> taken[i].type]

Uses(item) ==
  IF IsText(item) THEN {}
  ELSE {item.pos} \cup {IF count.how = "position" THEN count.n ELSE 0 :
                        count \in {c \in {item.width, item.prec} : c.how \in {"next", "position"}}}
AllUses == UNION {Uses(format[i]) : i \in DOMAIN format}

(* In a format without positions every argument is taken once, in the order *)
(* and with the type its directives ask for, whatever the first pass did.   *)
TakenInOrder ==
  0 \in AllUses /\ AllUses = {0} /\ pc = "next" /\ pass = 2 =>
    TakenTypes = TypesOf(format)[at - 1]

(* In a format with positions only, an argument is used with the value that *)
(* was fetched for it, and fetched once.                                    *)
FetchedBeforeUse ==
  0 \notin AllUses =>
    /\ ~unset
    /\ pass = 2 => Len(taken) = Cardinality({k \in 1 .. NL_ARGMAX : nl_arg[k] # Unset})

(* However its arguments are named, a directive gets its own.               *)
ArgumentsRight == TakenInOrder /\ FetchedBeforeUse

(* A call comes to an end.                                                  *)
Ends == <>(pc = "done")
=============================================================================
