-------------------------- MODULE MCNettyCalculator --------------------------
(* NettyCalculator on small instances.  The cut of the byte streams is the  *)
(* widths of the code: 8 bytes a request, 4 a response.                     *)
EXTENDS NettyCalculator, TLC

CallerSymmetry == Permutations(Callers)
=============================================================================
