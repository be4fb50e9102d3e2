----------------------------- MODULE SessionView -----------------------------
(***************************************************************************)
(* The refinement of SelfScan by BaseSystem.  What a customer would find,  *)
(* now or after the next start, is a function of the state, kept in a      *)
(* variable of its own so that it is computed once a step.                 *)
(***************************************************************************)
EXTENDS SessionAccounts

VARIABLE view

\* What a session is to its customer.
Customer(c, known) ==
    [status |-> CASE ~known -> "new"
                  [] known /\ c.state = CART_STATE_VOIDED -> "voided"
                  [] OTHER -> "open",
     pieces |-> c.cart_items_map,
     cards  |-> CardsOf(c)]

\* Process or no process: the cart that serves, or the one a start will load.
\* (Pieces and cards do not depend on the prices it is loaded at.)
View(running, n, carts, rows, known) ==
    Customer(IF running THEN carts[n] ELSE ReplayedFrom(rows[n]), n \in known)

ViewInit ==
    /\ Init
    /\ view = [n \in CartNumbers |-> View(FALSE, n, carts_map, journal, files)]

ViewNext ==
    /\ Next
    /\ view' = [n \in CartNumbers |-> View(mode' = "running", n, carts_map', journal', files')]

ViewSpec == ViewInit /\ [][ViewNext]_<<vars, view>>

\* A restart does not show: everything the server, its crashes inside a request,
\* the loader and the variations do is a step of SelfScan, whose store closes
\* and opens as it was, or no step at all.
Store == INSTANCE SelfScan WITH
    Sessions <- CartNumbers,
    serving <- mode = "running",
    status <- [n \in CartNumbers |-> view[n].status],
    pieces <- [n \in CartNumbers |-> view[n].pieces],
    cards <- [n \in CartNumbers |-> view[n].cards],
    baskets <- [t \in Tills |->
                  IF scan_in[t] = NoBasket THEN NoBasket
                  ELSE [session |-> scan_in[t].session, pieces |-> scan_in[t].items_number]]
KeepsSessions == Store!Spec
=============================================================================
