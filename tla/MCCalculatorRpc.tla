--------------------------- MODULE MCCalculatorRpc ---------------------------
(* Model values for TLC.  Servers are interchangeable, and so are clients. *)
EXTENDS CalculatorRpc, TLC

CONSTANTS c1, c2, s1, s2

Symmetric == Permutations(Clients) \cup Permutations(Servers)
=============================================================================
