---------------------------- MODULE MCHandlerTable ----------------------------
(* An instance of HandlerTable for TLC. *)
EXTENDS HandlerTable, TLC

CONSTANTS h1, h2, h3, c1, a1, a2

ThreeHandlers == {h1, h2, h3}
OneCloud      == {c1}
TwoActions    == {a1, a2}

Symmetry == Permutations(Handler) \cup Permutations(ActionType)
=============================================================================
