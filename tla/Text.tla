-------------------------------- MODULE Text --------------------------------
(***************************************************************************)
(* xstrconv, xstrings and the itoa of xlog: texts are sequences of bytes.  *)
(* The functions are translated for integers of Width bits (64 in the      *)
(* code), since the boundaries they take care of are those of the width.   *)
(***************************************************************************)
EXTENDS Integers, Sequences

CONSTANTS Width,   \* of int, 64 in the code
          FastLen  \* texts shorter than this are for Atoi, 19 in the code

ASSUME TextAssumption ==
  /\ Width \in Nat \ {0} /\ 2 ^ Width \in Nat \ {0} /\ FastLen \in Nat \ {0}
  /\ 10 ^ (FastLen - 1) <= 2 ^ (Width - 1)

Ints == -(2 ^ (Width - 1)) .. 2 ^ (Width - 1) - 1

Minus == 45    Plus == 43    Comma == 44    Newline == 10    Zero == 48

(***************************************************************************)
(* xstrconv/itoa.go.                                                       *)
(***************************************************************************)
nSmalls == 100

\* smallsString[i*2 : i*2+2]
Pair(i) == <<Zero + (i \div 10), Zero + (i % 10)>>

small(i) == IF i < 10 THEN <<Zero + i>> ELSE Pair(i)

\* Base 10: two digits at a time, the last pair without its zero.
Digits(u) ==
  LET two[us \in Nat] == IF us < nSmalls THEN small(us)
                         ELSE two[us \div 100] \o Pair(us % 100)
  IN  two[u]

\* u has Width bits: -u of the least int is itself, and right.
formatBits(u, neg) ==
  IF neg THEN <<Minus>> \o Digits((2 ^ Width - u) % (2 ^ Width)) ELSE Digits(u)

FormatInt(i) ==
  IF i \in 0 .. nSmalls - 1 THEN small(i) ELSE formatBits(i % (2 ^ Width), i < 0)

Itoa(i) == FormatInt(i)

(***************************************************************************)
(* xstrconv/atoi.go: the fast path; a long text is answered with "todo".   *)
(***************************************************************************)
Byte(ch) == (ch - Zero) % 256

Atoi(s) ==
  LET signed == s # <<>> /\ s[1] \in {Minus, Plus}
      t == IF signed THEN Tail(s) ELSE s
      value[k \in 0 .. Len(t)] == IF k = 0 THEN 0 ELSE value[k - 1] * 10 + Byte(t[k])
      n == value[Len(t)]
  IN  IF Len(s) \notin 1 .. FastLen - 1 THEN [n |-> 0, err |-> "todo"]
      ELSE IF t = <<>> \/ \E k \in DOMAIN t : Byte(t[k]) > 9 THEN [n |-> 0, err |-> "syntax"]
      ELSE [n |-> IF s[1] = Minus THEN -n ELSE n, err |-> "nil"]

(***************************************************************************)
(* xstrings: Join, and the capacity that Grow gives its Builder.           *)
(***************************************************************************)
JoinSize(elems, sep) ==
  LET sum[k \in 0 .. Len(elems)] == IF k = 0 THEN Len(sep) * (Len(elems) - 1)
                                    ELSE sum[k - 1] + Len(elems[k])
  IN  sum[Len(elems)]

Join(elems, sep) ==
  LET upTo[k \in 0 .. Len(elems)] ==
        IF k = 0 THEN <<>>
        ELSE IF k = 1 THEN elems[1]
        ELSE upTo[k - 1] \o sep \o elems[k]
  IN  upTo[Len(elems)]

\* The capacity of a Builder with len of cap bytes in use, after Grow(n).
Grow(len, cap, n) == IF cap - len < n THEN 2 * cap + n ELSE cap

(***************************************************************************)
(* xlog's itoa: at least wid digits, filled up with zeros.                 *)
(***************************************************************************)
itoa(i, wid) ==
  LET digits[p \in Nat \X Int] ==  \* of p = <<what is left of i, of wid>>
        IF p[1] >= 10 \/ p[2] > 1
        THEN Append(digits[<<p[1] \div 10, p[2] - 1>>], Zero + (p[1] % 10))
        ELSE <<Zero + p[1]>>
  IN  digits[<<i, wid>>]

-----------------------------------------------------------------------------
(***************************************************************************)
(* What the functions promise, over bounded inputs.                        *)
(***************************************************************************)
\* What decimal notation means, digit by digit from the left.
Value(s) == LET v[k \in 0 .. Len(s)] == IF k = 0 THEN 0 ELSE v[k - 1] * 10 + s[k] - Zero
            IN  v[Len(s)]
Numeral(s) == s # <<>> /\ (\A k \in DOMAIN s : s[k] \in Zero .. Zero + 9)
              /\ (Len(s) > 1 => s[1] # Zero)

\* Itoa writes every int as its decimal numeral, the least one included, and
\* Atoi reads it back if it is short enough.
ItoaRight ==
  \A i \in Ints :
    LET s == Itoa(i)
        t == IF i < 0 THEN Tail(s) ELSE s
    IN  /\ i < 0 => s[1] = Minus
        /\ Numeral(t) /\ Value(t) = (IF i < 0 THEN -i ELSE i)
        /\ Atoi(s) = IF Len(s) < FastLen THEN [n |-> i, err |-> "nil"]
                                         ELSE [n |-> 0, err |-> "todo"]

\* Atoi takes a sign and digits and nothing else: around the digits and the
\* signs a byte more or less is a syntax error, and no value leaves the ints.
AtoiRight ==
  \A s \in UNION {[1 .. n -> {Minus - 1, Minus, Plus, Zero - 1, Zero, Zero + 9, Zero + 10}]
                    : n \in 0 .. 4} :
    LET r == Atoi(s)
        t == IF s # <<>> /\ s[1] \in {Minus, Plus} THEN Tail(s) ELSE s
    IN  /\ r.n \in Ints
        /\ r.err = "nil" <=> /\ Len(s) \in 1 .. FastLen - 1
                             /\ t # <<>> /\ \A k \in DOMAIN t : t[k] \in Zero .. Zero + 9

\* Join asks for exactly the bytes it writes, so that one allocation is enough
\* (join.go:18), and Grow always makes room for what it was asked for.
JoinRight ==
  /\ \A elems \in UNION {[1 .. n -> {<<>>, <<1>>, <<1, 2>>}] : n \in 0 .. 4},
        sep \in {<<>>, <<3>>, <<3, 4>>} :
       LET size == JoinSize(elems, sep) IN
       Len(elems) > 1 => /\ size = Len(Join(elems, sep))
                         /\ Grow(0, 0, size) >= size
  /\ \A cap \in 0 .. 8 : \A len \in 0 .. cap, n \in 0 .. 8 : Grow(len, cap, n) - len >= n

\* xlog's itoa has the width asked for, or more when the number has.
itoaRight ==
  \A i \in 0 .. 2 ^ (Width - 1) - 1, wid \in {2, 4} :
    LET s == itoa(i, wid) IN
    Value(s) = i /\ Len(s) = (IF Len(Itoa(i)) > wid THEN Len(Itoa(i)) ELSE wid)
=============================================================================
