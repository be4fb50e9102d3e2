-------------------------------- MODULE Cart --------------------------------
(***************************************************************************)
(* class Cart: one self-scan session.  A cart is a record of the members   *)
(* of the class; each operation maps a cart to a Result, the cart it       *)
(* leaves, the rows it appends to the cart's transaction_in_progress file  *)
(* and its return code.                                                    *)
(*                                                                         *)
(* A std::map from a code to a quantity is a function into Nat with 0 for  *)
(* an absent key: every operation erases a key whose quantity falls below  *)
(* 1, so the two say the same.                                             *)
(***************************************************************************)
EXTENDS Archives, Sequences, FiniteSets

CONSTANTS
    Cards,       \* loyalty card numbers
    NoCard,      \* an index of loy_cards_map without an entry
    MaxCards     \* [Loy] MaxCardsPerTransaction

ASSUME CardsAssumption ==
    /\ MaxCards \in Nat
    /\ NoCard \notin Cards

-----------------------------------------------------------------------------
(* The journal: rows of the transaction_in_progress file, without their    *)
(* time stamps.  Every quantity written is 1 and is left out.              *)

ItemRow(action, b) == [object |-> "I", action |-> action, code |-> b]
CardRow(action, card) == [object |-> "L", action |-> action, code |-> card]
VoidRow == [object |-> "C", action |-> "V"]
DeptRow(dept) == [object |-> "K", action |-> "D", code |-> dept]
LocalRow(item, price) == [object |-> "K", action |-> "I", code |-> item, price |-> price]

Rows ==
    [object : {"I"}, action : {"A", "V"}, code : Barcodes]
        \cup [object : {"L"}, action : {"A", "V"}, code : Cards]
        \cup [object : {"C"}, action : {"V"}]
        \cup [object : {"K"}, action : {"D"}, code : DepartmentCodes]
        \cup [object : {"K"}, action : {"I"}, code : ItemCodes, price : Int]

-----------------------------------------------------------------------------
CartStates == {CART_STATE_READY_FOR_ITEM, CART_STATE_TMPFILE_LOADING,
               CART_STATE_VOIDED, CART_STATE_CLOSED}

Totals == [items_number : Int, total_amount : Int, total_discount : Int]
CardIndexes == 0 .. MaxCards - 1

Carts == [
    state                : CartStates,
    items_number         : Int,
    cart_items_map       : [ItemCodes -> Nat],
    barcodes_map         : [Barcodes -> Nat],
    totals_map           : [DepartmentCodes -> Totals],
    items_local_copy_map : [ItemCodes -> Int \cup {NoPrice}],
    loy_cards_map        : [CardIndexes -> Cards \cup {NoCard}],
    loy_cards_number     : Int]

\* The constructor: empty, in the state of GEN_CART_NEW or GEN_CART_LOAD.
NewCart(state) == [
    state                |-> state,
    items_number         |-> 0,
    cart_items_map       |-> [i \in ItemCodes |-> 0],
    barcodes_map         |-> [b \in Barcodes |-> 0],
    totals_map           |-> [d \in DepartmentCodes |->
                                [items_number |-> 0, total_amount |-> 0, total_discount |-> 0]],
    items_local_copy_map |-> [i \in ItemCodes |-> NoPrice],
    loy_cards_map        |-> [k \in CardIndexes |-> NoCard],
    loy_cards_number     |-> 0]

Result(cart, rows, rc) == [cart |-> cart, rows |-> rows, rc |-> rc]

\* The guard of every operation on items and cards.
AcceptsChanges(c) ==
    c.state \in {CART_STATE_TMPFILE_LOADING, CART_STATE_READY_FOR_ITEM}

\* writeTransactionRow under "if READY_FOR_ITEM": a cart that is being loaded
\* from its own file appends nothing to it.
Journalled(c, rows) == IF c.state = CART_STATE_READY_FOR_ITEM THEN rows ELSE << >>

-----------------------------------------------------------------------------
(* Items *)

\* (mutant) the copy of an item follows the archive at every scan
updateLocalItemMapAlways(c, item, row) ==
    Result([c EXCEPT !.items_local_copy_map[item] = row.price],
           Journalled(c, <<DeptRow(row.department), LocalRow(item, row.price)>>),
           RC_OK)

\* (mutant) only the department is journalled
updateLocalItemMapUnpriced(c, item, row) ==
    IF c.items_local_copy_map[item] # NoPrice
    THEN Result(c, << >>, RC_OK)
    ELSE Result([c EXCEPT !.items_local_copy_map[item] = row.price],
                Journalled(c, <<DeptRow(row.department)>>), RC_OK)

\* updateLocalItemMap: the first time an item is met, its row of the archive
\* is copied to the cart and, with its department, to the journal.  The state
\* of the cart only decides whether the journal is written.
updateLocalItemMap(c, item, row) ==
    IF c.items_local_copy_map[item] # NoPrice
    THEN Result(c, << >>, RC_OK)
    ELSE Result([c EXCEPT !.items_local_copy_map[item] = row.price],
                Journalled(c, <<DeptRow(row.department), LocalRow(item, row.price)>>),
                RC_OK)

\* Cart::getItemPrice: the price carried by the barcode, else the local copy
\* unless prices may change while shopping, else the archive.
getItemPrice(c, item, row, b) ==
    CASE barcode_type[b] = "EAN13_PRICE_REQ" -> barcode_price[b]
      [] /\ barcode_type[b] # "EAN13_PRICE_REQ"
         /\ ~PriceChangesWhileShopping
         /\ c.items_local_copy_map[item] # NoPrice -> c.items_local_copy_map[item]
      [] OTHER -> row.price

\* Adds n pieces, an amount and a discount to one row of totals_map.
AddToTotal(totals, key, n, amount, discount) ==
    [totals EXCEPT ![key] =
        [items_number   |-> @.items_number + n,
         total_amount   |-> @.total_amount + amount,
         total_discount |-> @.total_discount + discount]]

\* The row of the whole cart, whose key is 0, and the row of the department;
\* an item without a department is counted twice in row 0.
Charge(totals, department, n, amount, discount) ==
    AddToTotal(AddToTotal(totals, 0, n, amount, discount), department, n, amount, discount)

\* addItemByBarcode, quantity 1.
addItemByBarcode(c, item, row, b, price, discount) ==
    IF AcceptsChanges(c)
    THEN Result([c EXCEPT
                    !.totals_map = Charge(@, row.department, 1, price - discount, discount),
                    !.items_number = @ + 1,
                    !.cart_items_map[item] = @ + 1,
                    !.barcodes_map[b] = @ + 1],
                Journalled(c, <<ItemRow("A", b)>>),
                RC_OK)
    ELSE Result(c, << >>, c.state)

\* One piece less; a key whose count falls below 1 is erased.
OneLess(n) == IF n > 1 THEN n - 1 ELSE 0

\* What every variant of removeItemByBarcode does to a cart it changes.
takeOut(c, item, row, price, discount) ==
    [c EXCEPT
        !.totals_map = Charge(@, row.department, -1, discount - price, -discount),
        !.items_number = @ - 1,
        !.cart_items_map[item] = OneLess(@)]

\* (mutants) the item is not looked up and its key never erased; the barcode
\* is erased with its first piece
removeItemUnchecked(c, item, row, b, price, discount) ==
    IF AcceptsChanges(c)
    THEN Result([takeOut(c, item, row, price, discount) EXCEPT
                    !.cart_items_map[item] = c.cart_items_map[item] - 1,
                    !.barcodes_map[b] = OneLess(@)],
                Journalled(c, <<ItemRow("V", b)>>), RC_OK)
    ELSE Result(c, << >>, c.state)
removeItemAndBarcode(c, item, row, b, price, discount) ==
    IF AcceptsChanges(c) /\ c.cart_items_map[item] # 0
    THEN Result([takeOut(c, item, row, price, discount) EXCEPT !.barcodes_map[b] = 0],
                Journalled(c, <<ItemRow("V", b)>>), RC_OK)
    ELSE Result(c, << >>, RC_OK)

\* removeItemByBarcode: the item must be in the cart, the barcode need not
\* be.  RC_ERR for an item that is not in the cart is overwritten by RC_OK.
removeItemByBarcode(c, item, row, b, price, discount) ==
    CASE ~AcceptsChanges(c) -> Result(c, << >>, c.state)
      [] AcceptsChanges(c) /\ c.cart_items_map[item] = 0 -> Result(c, << >>, RC_OK)
      [] AcceptsChanges(c) /\ c.cart_items_map[item] # 0 ->
            Result([takeOut(c, item, row, price, discount) EXCEPT !.barcodes_map[b] = OneLess(@)],
                   Journalled(c, <<ItemRow("V", b)>>),
                   RC_OK)

-----------------------------------------------------------------------------
(* Loyalty cards *)

CardsOf(c) == {c.loy_cards_map[k] : k \in CardIndexes} \ {NoCard}

\* (mutant) a card that the cart has already is not looked for
addLoyCardAgain(c, card) ==
    IF AcceptsChanges(c) /\ c.loy_cards_number < MaxCards
    THEN Result([c EXCEPT !.loy_cards_map[c.loy_cards_number] = card,
                          !.loy_cards_number = @ + 1],
                Journalled(c, <<CardRow("A", card)>>), RC_OK)
    ELSE Result(c, << >>, RC_OK)

\* addLoyCard: the new card is stored at index loy_cards_number, whatever is
\* there; RC_LOY_MAX_CARD_NUMBER is overwritten by RC_OK.
addLoyCard(c, card) ==
    CASE ~AcceptsChanges(c) -> Result(c, << >>, c.state)
      [] AcceptsChanges(c) /\ c.loy_cards_number >= MaxCards -> Result(c, << >>, RC_OK)
      [] /\ AcceptsChanges(c) /\ c.loy_cards_number < MaxCards
         /\ card \in CardsOf(c) -> Result(c, << >>, RC_LOY_CARD_ALREADY_PRESENT)
      [] /\ AcceptsChanges(c) /\ c.loy_cards_number < MaxCards
         /\ card \notin CardsOf(c) ->
            Result([c EXCEPT !.loy_cards_map[c.loy_cards_number] = card,
                             !.loy_cards_number = @ + 1],
                   Journalled(c, <<CardRow("A", card)>>),
                   RC_OK)

\* (mutant) the removal of a card is not journalled
removeLoyCardSilently(c, card) ==
    IF AcceptsChanges(c) /\ card \in CardsOf(c)
    THEN Result([c EXCEPT !.loy_cards_map =
                            [k \in CardIndexes |-> IF @[k] = card THEN NoCard ELSE @[k]],
                          !.loy_cards_number = @ - 1],
                << >>, RC_LOY_CARD_NOT_PRESENT)
    ELSE Result(c, << >>, RC_LOY_CARD_NOT_PRESENT)

\* removeLoyCard: erases the card, then overwrites RC_OK by
\* RC_LOY_CARD_NOT_PRESENT.  The iterator is incremented after its element
\* was erased: undefined behaviour, whose outcomes are that the loop ends as
\* modelled here or that the process dies once the row is written (the
\* crashes of BaseSystem).
removeLoyCard(c, card) ==
    CASE ~AcceptsChanges(c) -> Result(c, << >>, c.state)
      [] AcceptsChanges(c) /\ card \notin CardsOf(c) ->
            Result(c, << >>, RC_LOY_CARD_NOT_PRESENT)
      [] AcceptsChanges(c) /\ card \in CardsOf(c) ->
            Result([c EXCEPT !.loy_cards_map =
                                [k \in CardIndexes |-> IF @[k] = card THEN NoCard ELSE @[k]],
                             !.loy_cards_number = @ - 1],
                   Journalled(c, <<CardRow("V", card)>>),
                   RC_LOY_CARD_NOT_PRESENT)

\* voidAllCart, from every state but VOIDED and CLOSED.
voidAllCart(c) ==
    IF c.state \notin {CART_STATE_VOIDED, CART_STATE_CLOSED}
    THEN Result([c EXCEPT !.state = CART_STATE_VOIDED], <<VoidRow>>, RC_OK)
    ELSE Result(c, << >>, c.state)
=============================================================================
