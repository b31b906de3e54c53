--------------------------- MODULE MCResolverQuery ---------------------------
(* Instances of ResolverQuery for TLC.                                       *)
EXTENDS ResolverQuery, TLC

CONSTANTS q1, q2

Ask(q, cd, link, mode) == [question |-> q, cd |-> cd, link |-> link, mode |-> mode]

TwoClients == {Ask(q1, FALSE, 0, "Proxy"), Ask(q1, TRUE, 1, "Proxy")}

OnlyQ1   == (q1 :> 2)

Interchangeable == Permutations(Threads) \cup Permutations(Entries) \cup Permutations(Writers)
=============================================================================
