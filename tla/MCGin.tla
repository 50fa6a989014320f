------------------------------- MODULE MCGin --------------------------------
(* Gin with requests and Contexts that are the same to it. *)
EXTENDS Gin, TLC

\* Once the requests are served nothing reads the group's handlers, and nothing
\* reads a Context that neither serves a request nor is in the pool.
Reachable == pool \cup {c[q] : q \in Request}
View == <<IF phase = "setup" THEN Handlers ELSE <<>>, phase, route, pool,
          [x \in Contexts |-> IF x \in Reachable THEN context[x] ELSE NewContext],
          running, answer>>

Symmetry == Permutations(Request) \cup Permutations(Contexts)
=============================================================================
