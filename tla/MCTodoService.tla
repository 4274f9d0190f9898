--------------------------- MODULE MCTodoService ---------------------------
(* Model values for TLC, and the permutations that leave the service alike. *)
EXTENDS TodoService, TLC

CONSTANTS c1, c2, c3, i1, i2, i3, i4, x, y

Symmetric == Permutations(Clients) \cup Permutations(TodoIds)
                                   \cup Permutations(Texts)
=============================================================================
