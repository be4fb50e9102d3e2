------------------------------ MODULE SelfScan ------------------------------
(***************************************************************************)
(* What self-scanning promises the customers of a store: sessions are      *)
(* opened one after the other, hold the pieces and the loyalty cards put   *)
(* in and not taken out, can be voided for good, and send to a till how    *)
(* many pieces they hold.  The store closes and opens again, and they are  *)
(* what they were: there are no files, and nothing is loaded.              *)
(***************************************************************************)
EXTENDS Integers, Functions

CONSTANTS Sessions, ItemCodes, Cards, Tills, NoBasket

VARIABLES
    serving,   \* the store is open
    status,    \* of each session: "new", "open" or "voided"
    pieces,    \* how many pieces of each item it holds
    cards,     \* its loyalty cards
    baskets    \* what each till has to read: the session and its pieces

vars == <<serving, status, pieces, cards, baskets>>

Init ==
    /\ serving = FALSE
    /\ status = [n \in Sessions |-> "new"]
    /\ pieces = [n \in Sessions |-> [i \in ItemCodes |-> 0]]
    /\ cards = [n \in Sessions |-> {}]
    /\ baskets = [t \in Tills |-> NoBasket]

Begin(n) ==
    /\ status[n] = "new"
    /\ \A m \in Sessions : status[m] # "new" => m < n
    /\ status' = [status EXCEPT ![n] = "open"]
    /\ UNCHANGED <<pieces, cards, baskets>>

\* One piece of an item more or less.
Move(held, i, by) == [held EXCEPT ![i] = @ + by]

\* A piece is put in or taken out, and its deposit may go with it.
MovePieces(n, by) ==
    /\ status[n] = "open"
    /\ \E i \in ItemCodes :
          /\ pieces[n][i] + by >= 0
          /\ \/ pieces' = [pieces EXCEPT ![n] = Move(@, i, by)]
             \/ \E deposit \in ItemCodes :
                   /\ Move(pieces[n], i, by)[deposit] + by >= 0
                   /\ pieces' = [pieces EXCEPT ![n] = Move(Move(@, i, by), deposit, by)]
    /\ UNCHANGED <<status, cards, baskets>>

\* A card is shown or taken back; a card shown may push another one out.
MoveCard(n, card) ==
    /\ status[n] = "open"
    /\ \/ \E others \in {cards[n]} \cup {cards[n] \ {other} : other \in cards[n]} :
              cards' = [cards EXCEPT ![n] = others \cup {card}]
       \/ cards' = [cards EXCEPT ![n] = @ \ {card}]
    /\ UNCHANGED <<status, pieces, baskets>>

Void(n) ==
    /\ status[n] = "open"
    /\ status' = [status EXCEPT ![n] = "voided"]
    /\ UNCHANGED <<pieces, cards, baskets>>

Send(n, t) ==
    /\ status[n] = "open"
    /\ baskets' = [baskets EXCEPT ![t] = [session |-> n, pieces |-> SumFunction(pieces[n])]]
    /\ UNCHANGED <<status, pieces, cards>>

\* A till takes its basket.
Take(t) ==
    /\ baskets' = [baskets EXCEPT ![t] = NoBasket]
    /\ UNCHANGED <<status, pieces, cards>>

Serve ==
    \E n \in Sessions :
        \/ Begin(n) \/ Void(n)
        \/ \E by \in {-1, 1} : MovePieces(n, by)
        \/ \E card \in Cards : MoveCard(n, card)
        \/ \E t \in Tills : Send(n, t)

\* The store may close in the middle of what it serves; it changes nothing
\* while it is closed.
Next ==
    \/ serving /\ serving' \in BOOLEAN /\ Serve
    \/ serving' = ~serving /\ UNCHANGED <<status, pieces, cards, baskets>>
    \/ UNCHANGED serving /\ \E t \in Tills : Take(t)

Spec == Init /\ [][Next]_vars
=============================================================================
