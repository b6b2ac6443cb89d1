------------------------------ MODULE MCPrintf ------------------------------
(* An instance of Printf for TLC: an int of at most 12, three positional    *)
(* arguments, the formats below.                                            *)
EXTENDS Printf

CONSTANT IntMaxBound   \* the same as IntMax

Num(n) == [how |-> "number", n |-> n]
Argument0 == [how |-> "next", n |-> 0]
At(k) == [how |-> "position", n |-> k]
Text(n) == [text |-> n]
D(pos, flags, width, prec, prefix, conv) ==
  [pos |-> pos, flags |-> flags, width |-> width, prec |-> prec, prefix |-> prefix, conv |-> conv]
Plain(conv) == D(0, {}, Num(0), NoCount, "bare", conv)
Nth(k, prefix, conv) == D(k, {}, Num(0), NoCount, prefix, conv)

(* One directive of every shape, between texts.                             *)
Singles ==
  {<<Text(1), D(0, flags, width, prec, "bare", conv), Text(1)>> :
     flags \in {{}, {"zero"}, {"left", "zero"}, {"alt"}, {"plus"}},
     width \in {Num(4), Argument0},
     prec \in {NoCount, Num(3), Argument0},
     conv \in {"d", "x", "o", "p", "s", "c", "S"}}

(* Every prefix with every conversion.                                      *)
Typed == {<<Nth(0, prefix, conv)>> : prefix \in Prefix, conv \in Conversion}

(* Two or three directives, positional ones with and without a gap.         *)
Items == {Text(2), Plain("d"), Plain("n"), Nth(0, "ll", "u"), Nth(0, "bare", "f"),
          Nth(1, "bare", "d"), Nth(2, "ll", "x"), Nth(3, "bare", "s"),
          D(2, {}, At(1), NoCount, "bare", "d"), D(0, {}, Argument0, At(3), "bare", "C")}
Sequences2 == {<<a, b>> : a, b \in Items}
Sequences3 == {<<a, Plain("d"), b>> : a, b \in Items}
Positional == {<<Nth(3, "bare", "d"), Nth(2, "L", "f"), Nth(1, "bare", "c")>>,
               <<Nth(3, "bare", "s"), D(1, {}, At(2), At(1), "bare", "d"), Text(1)>>}

TheFormats == Singles \cup Typed \cup Sequences2 \cup Sequences3 \cup Positional \cup
              {<<Text(n), Text(m)>> : n, m \in {6, 7}} \cup
              {<<D(0, {}, Num(-1), NoCount, "bare", "d")>>, <<D(0, {}, Num(0), Num(-1), "bare", "x")>>,
               <<Text(1), D(0, {}, Num(0), Num(-1), "bare", "p")>>}
TheValues == {-IntMaxBound - 1, -1, 0, 2, IntMaxBound}
=============================================================================
