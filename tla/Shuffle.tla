------------------------------ MODULE Shuffle -------------------------------
(***************************************************************************)
(* xrand/shuffle.go on a sequence: `Draws' are the numbers that rand.Intn  *)
(* may return, one for each i from n - 1 down to 1, and `Shuffled' what    *)
(* the swaps make of the sequence then.                                    *)
(***************************************************************************)
EXTENDS Integers, Sequences

Draws(n) == {d \in [1 .. n - 1 -> 0 .. n - 1] : \A i \in 1 .. n - 1 : d[i] \in 0 .. i}

Swap(s, i, j) == [s EXCEPT ![i + 1] = s[j + 1], ![j + 1] = s[i + 1]]

Shuffled(s, d) ==
  LET from[i \in 0 .. Len(s)] ==
        IF i = Len(s) THEN s ELSE Swap(from[i + 1], i, d[i])
  IN  IF s = <<>> THEN s ELSE from[1]

\* Every order comes from exactly one way to draw, so that Intn's being uniform
\* makes Shuffle uniform (which shuffle.go does by drawing up to i inclusive).
ShuffleUniform(n) ==
  LET s == [i \in 1 .. n |-> i]
      orders == {p \in [1 .. n -> 1 .. n] : \A i, j \in 1 .. n : i # j => p[i] # p[j]}
  IN  \A p \in orders : \E d \in Draws(n) :
        /\ Shuffled(s, d) = p
        /\ \A e \in Draws(n) : Shuffled(s, e) = p => e = d
=============================================================================
