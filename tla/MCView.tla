-------------------------------- MODULE MCView --------------------------------
(***************************************************************************)
(* The stores of MCStore with the view of their customers.                 *)
(***************************************************************************)
EXTENDS MCStore, SessionView
=============================================================================
