------------------------------ MODULE MCStream ------------------------------
(* Stream with two tasks; the functions of Text over all ints of Width bits, *)
(* and Shuffle of up to five elements.                                       *)
EXTENDS Stream, Shuffle, TLC

CONSTANTS t1, t2

MCNumbers == t1 :> <<7>> @@ t2 :> <<-10, 105>>
MCNow == [t \in {t1, t2} |-> [year |-> 2023, month |-> 1, day |-> 9, hour |-> 23, min |-> 5, sec |-> 0]]

ASSUME ItoaRight
ASSUME AtoiRight
ASSUME JoinRight
ASSUME itoaRight
ASSUME \A n \in 0 .. 5 : ShuffleUniform(n)
=============================================================================
