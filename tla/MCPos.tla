-------------------------------- MODULE MCPos --------------------------------
(***************************************************************************)
(* Two threads, two sessions and one till for the model checker: session 1 *)
(* has a card, session 2 has none.                                         *)
(***************************************************************************)
EXTENDS PosTransfer

CONSTANT c1

TwoSessions == {1, 2}
OneCard == {c1}
OneHasACard == [s \in TwoSessions |-> IF s = 1 THEN c1 ELSE NoCard]
=============================================================================
