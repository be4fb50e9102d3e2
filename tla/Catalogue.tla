------------------------------ MODULE Catalogue ------------------------------
(***************************************************************************)
(* What the catalogue of a store promises the sales logic, files and       *)
(* threads left out: variations change one item after the other in memory, *)
(* a save makes all of them last at once, and a process that ends goes     *)
(* back to what was saved.                                                 *)
(***************************************************************************)
CONSTANTS
    Codes,      \* item codes
    Prices,
    NoItem      \* the price of an item that is not in the catalogue

VARIABLES
    working,    \* the store is open
    catalogue,  \* the prices the sales logic uses
    saved,      \* the prices the store will open with
    torn        \* what was saved is damaged: nothing is promised before the next save

vars == <<working, catalogue, saved, torn>>

Archives == [Codes -> Prices \cup {NoItem}]

Init ==
    /\ working = FALSE
    /\ catalogue \in Archives
    /\ saved = catalogue
    /\ torn = FALSE

Vary(c, price) ==
    /\ working
    /\ catalogue' = [catalogue EXCEPT ![c] = price]
    /\ UNCHANGED <<working, saved, torn>>

\* A save makes good what a torn one left.
Save ==
    /\ working
    /\ saved' = catalogue
    /\ torn' = FALSE
    /\ UNCHANGED <<working, catalogue>>

Open ==
    /\ working' = TRUE
    /\ catalogue = saved
    /\ UNCHANGED <<catalogue, saved, torn>>

Close ==
    /\ working' = FALSE
    /\ catalogue' = saved
    /\ UNCHANGED <<saved, torn>>

Tear ==
    /\ working' \in BOOLEAN
    /\ catalogue' \in Archives
    /\ saved' \in Archives
    /\ torn' = TRUE

Next ==
    \/ /\ ~torn
       /\ \/ \E c \in Codes, price \in Prices : Vary(c, price)
          \/ Open \/ Close
    \/ Save
    \/ Tear

Spec == Init /\ [][Next]_vars
=============================================================================
