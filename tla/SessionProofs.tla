---------------------------- MODULE SessionProofs ----------------------------
(***************************************************************************)
(* Proofs about BaseSystem, for every catalogue, configuration and number  *)
(* of sessions: types, ids, voided sessions and cards first, then what the *)
(* files tell.                                                             *)
(*                                                                         *)
(* A session is what its file tells, for any store, any number of rows and *)
(* any order of requests, ends and starts.  What a file tells of a cart    *)
(* does not depend on the archive it is read with: tell is the effect of a *)
(* row on the digest Told of a cart.  The rows a request appends tell the  *)
(* digest it leaves (the operations), the loader follows the same digests  *)
(* (replayRow), and so does the replay the property speaks of.             *)
(***************************************************************************)
EXTENDS SessionAccounts, CartLemmas

-----------------------------------------------------------------------------
(* The requests on a cart. *)

LEMMA DecodeBarcodeTyped ==
    ASSUME NEW b \in Barcodes
    PROVE  decodeBarcode(b) \in ItemCodes /\ item_of[b] \in ItemCodes
BY CatalogueAssumption DEF decodeBarcode

LEMMA PromoValueInt ==
    ASSUME NEW item \in Items, NEW price \in Int
    PROVE  promoValue(item, price) \in Int
<1>1. promotions_map[item].type \in DiscountTypes /\ promotions_map[item].discount \in Nat
  BY CatalogueAssumption
<1> DEFINE product == price * promotions_map[item].discount
<1>2. product \in Int
  BY <1>1
<1>3. product \div 100 \in Int
  <2> HIDE DEF product
  <2> QED BY <1>2
<1> QED BY <1>1, <1>3 DEF promoValue, DiscountTypes

LEMMA Concatenation ==
    ASSUME NEW S, NEW p \in Seq(S), NEW q \in Seq(S)
    PROVE  /\ p \o q \in Seq(S)
           /\ Len(p) \in Nat /\ Len(q) \in Nat /\ Len(p \o q) = Len(p) + Len(q)
           /\ \A k \in 1 .. Len(p) : (p \o q)[k] = p[k]
           /\ \A k \in Len(p) + 1 .. Len(p) + Len(q) : (p \o q)[k] = q[k - Len(p)]
OBVIOUS

\* One quiet operation after another is quiet, whichever return code is kept.
LEMMA InTurn ==
    ASSUME NEW c \in Carts, NEW r, ResultTyped(r), Quiet(c, r),
           NEW s, ResultTyped(s), Quiet(r.cart, s), NEW rc \in Nat
    PROVE  LET both == Result(s.cart, r.rows \o s.rows, rc)
           IN  ResultTyped(both) /\ Quiet(c, both)
<1> DEFINE rows == r.rows \o s.rows
<1> DEFINE m == Len(r.rows)
           n == Len(s.rows)
<1>1. /\ rows \in Seq(Rows) /\ m \in Nat /\ n \in Nat /\ Len(rows) = m + n
      /\ \A k \in 1 .. m : rows[k] = r.rows[k]
      /\ \A k \in m + 1 .. m + n : rows[k] = s.rows[k - m]
  <2>1. r.rows \in Seq(Rows) /\ s.rows \in Seq(Rows)
    BY DEF ResultTyped
  <2> DEFINE p == r.rows
             q == s.rows
  <2> HIDE DEF p, q
  <2>2. p \in Seq(Rows) /\ q \in Seq(Rows)
    BY <2>1 DEF p, q
  <2>3. /\ p \o q \in Seq(Rows)
        /\ Len(p) \in Nat /\ Len(q) \in Nat /\ Len(p \o q) = Len(p) + Len(q)
        /\ \A k \in 1 .. Len(p) : (p \o q)[k] = p[k]
        /\ \A k \in Len(p) + 1 .. Len(p) + Len(q) : (p \o q)[k] = q[k - Len(p)]
    BY <2>2, Concatenation
  <2> QED BY <2>3 DEF p, q
<1>2. ASSUME NEW k \in 1 .. Len(rows) PROVE rows[k] # VoidRow
  <2>1. CASE k \in 1 .. m
    BY <1>1, <2>1 DEF Quiet
  <2>2. CASE k \in m + 1 .. m + n
    <3>1. rows[k] = s.rows[k - m] /\ k - m \in 1 .. n
      <4> HIDE DEF rows, m, n
      <4> QED BY <1>1, <2>2
    <3> QED BY <3>1 DEF Quiet
  <2>3. k \in 1 .. m \/ k \in m + 1 .. m + n
    <3> HIDE DEF rows, m, n
    <3> QED BY <1>1
  <2> QED BY <2>1, <2>2, <2>3
<1>3. c.state # CART_STATE_READY_FOR_ITEM => rows = << >>
  BY DEF Quiet
<1>4. s.cart.state = c.state
  BY DEF Quiet
<1> HIDE DEF rows
<1>5. LET both == Result(s.cart, rows, rc) IN ResultTyped(both) /\ Quiet(c, both)
  BY <1>1, <1>2, <1>3, <1>4 DEF Result, ResultTyped, Quiet
<1> QED BY <1>5 DEF rows

LEMMA RememberResult ==
    ASSUME NEW c \in Carts, NEW item \in ItemCodes, items_map \in [ItemCodes -> ItemRows]
    PROVE  LET r == remember(c, item) IN ResultTyped(r) /\ Quiet(c, r)
<1>1. RC_OK \in Nat
  BY DEF RC_OK
<1>2. LET r == Result(c, << >>, RC_OK) IN ResultTyped(r) /\ Quiet(c, r)
  BY <1>1, SilentResult
<1>3. LET r == updateLocalItemMap(c, item, items_map[item]) IN ResultTyped(r) /\ Quiet(c, r)
  BY UpdateLocalItemMapResult
<1> QED BY <1>2, <1>3 DEF remember

LEMMA AddScannedResult ==
    ASSUME NEW c \in Carts, NEW b \in Barcodes, decodeBarcode(b) # NoItem,
           items_map \in [ItemCodes -> ItemRows]
    PROVE  LET r == addScanned(c, b) IN ResultTyped(r) /\ Quiet(c, r)
<1> DEFINE item == decodeBarcode(b)
           known == remember(c, item)
           price == getItemPrice(known.cart, item, items_map[item], b)
           discount == promoValue(item, price)
           added == addItemByBarcode(known.cart, item, items_map[item], b, price, discount)
<1>1. item \in ItemCodes /\ item \in Items
  BY DecodeBarcodeTyped DEF ItemCodes
<1> HIDE DEF item
<1>2. ResultTyped(known) /\ Quiet(c, known) /\ known.cart \in Carts
  BY <1>1, RememberResult DEF ResultTyped
<1> HIDE DEF known
<1>3. price \in Int /\ items_map[item] \in ItemRows
  BY <1>1, <1>2, GetItemPriceInt
<1> HIDE DEF price
<1>4. discount \in Int
  BY <1>1, <1>3, PromoValueInt
<1> HIDE DEF discount
<1>5. ResultTyped(added) /\ Quiet(known.cart, added) /\ added.rc \in Nat
  BY <1>1, <1>2, <1>3, <1>4, AddItemResult DEF ResultTyped
<1> HIDE DEF added
<1>6. LET r == Result(added.cart, known.rows \o added.rows, added.rc)
      IN  ResultTyped(r) /\ Quiet(c, r)
  BY <1>2, <1>5, InTurn
<1>7. addScanned(c, b) = Result(added.cart, known.rows \o added.rows, added.rc)
  BY DEF addScanned, added, discount, price, known, item
<1> QED BY <1>6, <1>7

LEMMA AddLinkedResult ==
    ASSUME NEW c \in Carts, NEW b \in Barcodes, items_map \in [ItemCodes -> ItemRows]
    PROVE  LET r == addLinked(c, b) IN ResultTyped(r) /\ Quiet(c, r)
<1> DEFINE item == item_of[b]
           known == remember(c, item)
           added == addItemByBarcode(known.cart, item, items_map[item], b,
                                     items_map[item].price, 0)
<1>1. item \in ItemCodes
  BY DecodeBarcodeTyped
<1> HIDE DEF item
<1>2. ResultTyped(known) /\ Quiet(c, known) /\ known.cart \in Carts
  BY <1>1, RememberResult DEF ResultTyped
<1> HIDE DEF known
<1>3. items_map[item] \in ItemRows /\ items_map[item].price \in Int
  BY <1>1 DEF ItemRows
<1>4. ResultTyped(added) /\ Quiet(known.cart, added) /\ added.rc \in Nat
  BY <1>1, <1>2, <1>3, AddItemResult DEF ResultTyped
<1> HIDE DEF added
<1>5. LET r == Result(added.cart, known.rows \o added.rows, added.rc)
      IN  ResultTyped(r) /\ Quiet(c, r)
  BY <1>2, <1>4, InTurn
<1>6. addLinked(c, b) = Result(added.cart, known.rows \o added.rows, added.rc)
  BY DEF addLinked, added, known, item
<1> QED BY <1>5, <1>6

LEMMA ItemAddResult ==
    ASSUME NEW c \in Carts, NEW b \in Barcodes, items_map \in [ItemCodes -> ItemRows]
    PROVE  LET r == itemAdd(c, b) IN ResultTyped(r) /\ Quiet(c, r)
<1> DEFINE item == decodeBarcode(b)
           linked == items_map[item].linked
           main == addScanned(c, b)
           pair == addLinked(main.cart, linked)
<1>1. BCODE_NOT_RECOGNIZED \in Nat /\ BCODE_ITEM_NOT_FOUND \in Nat
  BY DEF BCODE_NOT_RECOGNIZED, BCODE_ITEM_NOT_FOUND
<1>2. ASSUME NEW rc \in Nat
      PROVE  LET r == Result(c, << >>, rc) IN ResultTyped(r) /\ Quiet(c, r)
  BY SilentResult
<1>3. CASE barcode_type[b] = "NOT_RECOGNIZED"
  BY <1>1, <1>2, <1>3 DEF itemAdd
<1>4. CASE barcode_type[b] # "NOT_RECOGNIZED" /\ item = NoItem
  BY <1>1, <1>2, <1>4 DEF itemAdd
<1>5. CASE barcode_type[b] # "NOT_RECOGNIZED" /\ item # NoItem
  <2>1. ResultTyped(main) /\ Quiet(c, main) /\ main.cart \in Carts /\ main.rc \in Nat
    BY <1>5, AddScannedResult DEF ResultTyped
  <2>2. linked \in Barcodes \cup {NoBarcode}
    BY DecodeBarcodeTyped DEF ItemRows
  <2> HIDE DEF main, linked
  <2>3. CASE main.rc = RC_OK /\ linked # NoBarcode
    <3>1. ResultTyped(pair) /\ Quiet(main.cart, pair)
      BY <2>1, <2>2, <2>3, AddLinkedResult
    <3> HIDE DEF pair
    <3>2. LET r == Result(pair.cart, main.rows \o pair.rows, main.rc)
          IN  ResultTyped(r) /\ Quiet(c, r)
      BY <2>1, <3>1, InTurn
    <3>3. itemAdd(c, b) = Result(pair.cart, main.rows \o pair.rows, main.rc)
      BY <1>5, <2>3 DEF itemAdd, andThen, pair, main, linked
    <3> QED BY <3>2, <3>3
  <2>4. CASE ~(main.rc = RC_OK /\ linked # NoBarcode)
    <3>1. itemAdd(c, b) = main
      BY <1>5, <2>4 DEF itemAdd, main, linked
    <3> QED BY <2>1, <3>1
  <2> QED BY <2>3, <2>4
<1> QED BY <1>3, <1>4, <1>5

LEMMA ItemVoidResult ==
    ASSUME NEW c \in Carts, NEW b \in Barcodes, items_map \in [ItemCodes -> ItemRows]
    PROVE  LET r == itemVoid(c, b) IN ResultTyped(r) /\ Quiet(c, r)
<1> DEFINE item == decodeBarcode(b)
           row == items_map[item]
           price == getItemPrice(c, item, row, b)
           main == removeItemByBarcode(c, item, row, b, price, 0)
           other == item_of[row.linked]
           pair == removeItemByBarcode(main.cart, other, items_map[other], row.linked,
                                       items_map[other].price, 0)
<1>1. item \in ItemCodes /\ row \in ItemRows /\ row.linked \in Barcodes \cup {NoBarcode}
  BY DecodeBarcodeTyped DEF ItemRows
<1> HIDE DEF item, row
<1>2. price \in Int
  BY <1>1, GetItemPriceInt
<1> HIDE DEF price
<1>3. ResultTyped(main) /\ Quiet(c, main) /\ main.cart \in Carts /\ main.rc \in Nat
  BY <1>1, <1>2, RemoveItemResult DEF ResultTyped
<1> HIDE DEF main
<1>4. CASE main.rc = RC_OK /\ row.linked # NoBarcode
  <2>1. row.linked \in Barcodes /\ other \in ItemCodes
    BY <1>1, <1>4, DecodeBarcodeTyped
  <2> HIDE DEF other
  <2>2. items_map[other] \in ItemRows /\ items_map[other].price \in Int
    BY <2>1 DEF ItemRows
  <2>3. ResultTyped(pair) /\ Quiet(main.cart, pair)
    BY <1>3, <2>1, <2>2, RemoveItemResult
  <2> HIDE DEF pair
  <2>4. LET r == Result(pair.cart, main.rows \o pair.rows, main.rc)
        IN  ResultTyped(r) /\ Quiet(c, r)
    BY <1>3, <2>3, InTurn
  <2>5. itemVoid(c, b) = Result(pair.cart, main.rows \o pair.rows, main.rc)
    BY <1>4 DEF itemVoid, andThen, pair, other, main, price, row, item
  <2> QED BY <2>4, <2>5
<1>5. CASE ~(main.rc = RC_OK /\ row.linked # NoBarcode)
  <2>1. itemVoid(c, b) = main
    BY <1>5 DEF itemVoid, main, price, row, item
  <2> QED BY <1>3, <2>1
<1> QED BY <1>4, <1>5

-----------------------------------------------------------------------------
(* Every request on a cart, finished or cut short, is the Result of one    *)
(* operation that is quiet or voids the cart.                              *)

RequestResult(n, r) ==
    ResultTyped(r) /\ (Quiet(carts_map[n], r) \/ r = voidAllCart(carts_map[n]))

LEMMA ItemRequest ==
    ASSUME TypeOK, NEW n \in CartNumbers, NEW b \in Barcodes
    PROVE  RequestResult(n, itemAdd(carts_map[n], b)) /\ RequestResult(n, itemVoid(carts_map[n], b))
<1>1. carts_map[n] \in Carts /\ items_map \in [ItemCodes -> ItemRows]
  BY DEF TypeOK
<1> QED BY <1>1, ItemAddResult, ItemVoidResult DEF RequestResult

LEMMA CardRequest ==
    ASSUME TypeOK, NEW n \in CartNumbers, NEW card \in Cards
    PROVE  RequestResult(n, customerAdd(n, card))
           /\ RequestResult(n, removeLoyCard(carts_map[n], card))
<1>1. carts_map[n] \in Carts
  BY DEF TypeOK
<1>2. cardRegistered(n, card) \in Nat
  BY DEF cardRegistered, RC_OK, RC_LOY_CARD_ALREADY_PRESENT, RC_LOY_CARD_IN_ANOTHER_TRANSACTION
<1>3. LET r == Result(carts_map[n], << >>, cardRegistered(n, card))
      IN  ResultTyped(r) /\ Quiet(carts_map[n], r)
  BY <1>1, <1>2, SilentResult
<1>4. LET r == customerAdd(n, card) IN ResultTyped(r) /\ Quiet(carts_map[n], r)
  BY <1>1, <1>3, AddLoyCardResult DEF customerAdd
<1>5. LET r == removeLoyCard(carts_map[n], card) IN ResultTyped(r) /\ Quiet(carts_map[n], r)
  BY <1>1, RemoveLoyCardResult
<1> QED BY <1>4, <1>5 DEF RequestResult

LEMMA StateRequest ==
    ASSUME TypeOK, NEW n \in CartNumbers
    PROVE  /\ RequestResult(n, voidAllCart(carts_map[n]))
           /\ \A rc \in Nat : RequestResult(n, Result(carts_map[n], << >>, rc))
           /\ carts_map[n].state \in Nat /\ RC_OK \in Nat
<1>1. carts_map[n] \in Carts
  BY DEF TypeOK
<1>2. carts_map[n].state \in Nat /\ RC_OK \in Nat
  BY <1>1, StatesAreNumbers DEF RC_OK
<1>3. ResultTyped(voidAllCart(carts_map[n]))
  BY <1>1, VoidAllCartResult
<1>4. ASSUME NEW rc \in Nat PROVE RequestResult(n, Result(carts_map[n], << >>, rc))
  BY <1>1, SilentResult DEF RequestResult
<1> QED BY <1>2, <1>3, <1>4 DEF RequestResult

LEMMA CartRequestHandles ==
    ASSUME TypeOK, NEW n \in CartNumbers, CartRequest(n)
    PROVE  \E r : /\ RequestResult(n, r)
                  /\ Handle(n, r)
                  /\ all_loy_cards_map' \in [Cards -> CartNumbers \cup {NoCart}]
                  /\ scan_in' \in [Tills -> Baskets \cup {NoBasket}]
<1>0. /\ all_loy_cards_map \in [Cards -> CartNumbers \cup {NoCart}]
      /\ scan_in \in [Tills -> Baskets \cup {NoBasket}]
      /\ carts_map[n] \in Carts
  BY DEF TypeOK
<1>1. ASSUME NEW b \in Barcodes, ItemAdd(n, b) \/ ItemVoid(n, b)
      PROVE  \E r : /\ RequestResult(n, r)
                    /\ Handle(n, r)
                    /\ UNCHANGED <<all_loy_cards_map, scan_in>>
  BY <1>1, ItemRequest DEF ItemAdd, ItemVoid
<1>2. ASSUME NEW card \in Cards, CustomerAdd(n, card)
      PROVE  /\ RequestResult(n, customerAdd(n, card))
             /\ Handle(n, customerAdd(n, card))
             /\ all_loy_cards_map' \in [Cards -> CartNumbers \cup {NoCart}]
             /\ scan_in' = scan_in
  BY <1>0, <1>2, CardRequest DEF CustomerAdd
<1>3. ASSUME NEW card \in Cards, CustomerVoid(n, card)
      PROVE  /\ RequestResult(n, removeLoyCard(carts_map[n], card))
             /\ Handle(n, removeLoyCard(carts_map[n], card))
             /\ all_loy_cards_map' \in [Cards -> CartNumbers \cup {NoCart}]
             /\ scan_in' = scan_in
  BY <1>0, <1>3, CardRequest DEF CustomerVoid
<1>4. ASSUME NEW till \in Tills, SessionEnd(n, till)
      PROVE  \E rc \in Nat : /\ Handle(n, Result(carts_map[n], << >>, rc))
                             /\ all_loy_cards_map' = all_loy_cards_map
                             /\ scan_in' \in [Tills -> Baskets \cup {NoBasket}]
  <2>1. CASE carts_map[n].state = CART_STATE_READY_FOR_ITEM
    <3> DEFINE c == carts_map[n]
               basket == [session      |-> n,
                          items_number |-> c.items_number,
                          total_amount |-> c.totals_map[0].total_amount,
                          lines        |-> c.barcodes_map]
    <3>1. basket \in Baskets
      BY <1>0, DepartmentZero DEF Baskets, Carts, Totals
    <3> HIDE DEF basket
    <3>2. [scan_in EXCEPT ![till] = basket] \in [Tills -> Baskets \cup {NoBasket}]
      BY <1>0, <3>1
    <3>3. /\ Handle(n, Result(c, << >>, RC_OK))
          /\ scan_in' = [scan_in EXCEPT ![till] = basket]
          /\ UNCHANGED all_loy_cards_map
      BY <1>4, <2>1 DEF SessionEnd, basket
    <3> QED BY <3>2, <3>3, StateRequest
  <2>2. CASE carts_map[n].state # CART_STATE_READY_FOR_ITEM
    BY <1>0, <1>4, <2>2, StateRequest DEF SessionEnd
  <2> QED BY <2>1, <2>2
<1>5. ASSUME SessionVoid(n) \/ CartQuery(n)
      PROVE  \E r : /\ RequestResult(n, r)
                    /\ Handle(n, r)
                    /\ UNCHANGED <<all_loy_cards_map, scan_in>>
  <2>1. CASE SessionVoid(n)
    BY <2>1, StateRequest DEF SessionVoid
  <2>2. CASE CartQuery(n)
    <3>1. RequestResult(n, Result(carts_map[n], << >>, RC_OK))
      BY StateRequest
    <3> QED BY <2>2, <3>1 DEF CartQuery, ManageRescan, GetTotals, GetAllCart, CartAnswers
  <2> QED BY <1>5, <2>1, <2>2
<1>6. CASE \E b \in Barcodes : ItemAdd(n, b) \/ ItemVoid(n, b)
  BY <1>0, <1>1, <1>6
<1>7. CASE \E card \in Cards : CustomerAdd(n, card) \/ CustomerVoid(n, card)
  <2>1. PICK card \in Cards : CustomerAdd(n, card) \/ CustomerVoid(n, card)
    BY <1>7
  <2> QED BY <1>0, <1>2, <1>3, <2>1
<1>8. CASE \E till \in Tills : SessionEnd(n, till)
  <2>1. PICK till \in Tills : SessionEnd(n, till)
    BY <1>8
  <2>2. PICK rc \in Nat : /\ Handle(n, Result(carts_map[n], << >>, rc))
                          /\ all_loy_cards_map' = all_loy_cards_map
                          /\ scan_in' \in [Tills -> Baskets \cup {NoBasket}]
    BY <1>4, <2>1
  <2>3. RequestResult(n, Result(carts_map[n], << >>, rc))
    BY StateRequest
  <2> QED BY <1>0, <2>2, <2>3
<1>9. CASE SessionVoid(n) \/ CartQuery(n)
  BY <1>0, <1>5, <1>9
<1> QED BY <1>6, <1>7, <1>8, <1>9 DEF CartRequest

LEMMA DieInRequestCuts ==
    ASSUME TypeOK, DieInRequest
    PROVE  \E n \in CartNumbers : \E r : RequestResult(n, r) /\ DieWhile(n, r)
BY ItemRequest, CardRequest, StateRequest DEF DieInRequest

-----------------------------------------------------------------------------
(* The inductive invariant. *)

\* What the loader has done so far: the files are those loaded, the one open
\* and those to do; ids of closed files are below the next one.
LoaderInv ==
    /\ mode = "loading" =>
          /\ files = sessions \cup load.todo
          /\ sessions \cap load.todo = {}
          /\ load.file # NoCart => load.file \in sessions /\ load.row # 0
          /\ \A n \in sessions \ {load.file} : n < next_cart_number
    /\ SessionIdsFresh

\* A cart that is not being loaded is voided exactly if its file says so.
Settled(n) ==
    /\ carts_map[n].state \in {CART_STATE_READY_FOR_ITEM, CART_STATE_VOIDED}
    /\ carts_map[n].state = CART_STATE_VOIDED <=> HasVoidRow(n)

\* The cart being loaded is voided exactly if the void row was replayed.
BeingLoaded(n) ==
    /\ carts_map[n].state \in {CART_STATE_TMPFILE_LOADING, CART_STATE_VOIDED}
    /\ carts_map[n].state = CART_STATE_VOIDED <=>
          \E k \in 1 .. Len(journal[n]) : k < load.row /\ journal[n][k] = VoidRow

VoidRowLast(rows) == \A k \in 1 .. Len(rows) : rows[k] = VoidRow => k = Len(rows)

VoidInv ==
    /\ \A n \in CartNumbers \ files : journal[n] = << >>
    /\ \A n \in CartNumbers : VoidRowLast(journal[n])
    /\ mode = "loading" =>
          /\ \A n \in sessions \ {load.file} : Settled(n)
          /\ load.file # NoCart => BeingLoaded(load.file)
    /\ mode = "running" => \A n \in sessions : Settled(n)

IInv == TypeOK /\ LoaderInv /\ VoidInv

LEMMA ReplayRowTyped ==
    ASSUME NEW c \in Carts, NEW r \in Rows, items_map \in [ItemCodes -> ItemRows]
    PROVE  /\ replayRow(c, r) \in Carts
           /\ replayRow(c, r).state = IF r = VoidRow THEN CART_STATE_VOIDED ELSE c.state
<1>1. CASE r \in [object : {"I"}, action : {"A", "V"}, code : Barcodes]
  <2> DEFINE item == decodeBarcode(r.code)
             row == items_map[item]
             price == getItemPrice(c, item, row, r.code)
             added == addItemByBarcode(c, item, row, r.code, price, 0)
             removed == removeItemByBarcode(c, item, row, r.code, price, 0)
  <2>1. r.code \in Barcodes /\ item \in ItemCodes /\ row \in ItemRows
    BY <1>1, DecodeBarcodeTyped
  <2>2. price \in Int
    BY <2>1, GetItemPriceInt
  <2> HIDE DEF item, row, price
  <2>3. added.cart \in Carts /\ added.cart.state = c.state
    BY <2>1, <2>2, AddItemResult DEF ResultTyped, Quiet
  <2>4. removed.cart \in Carts /\ removed.cart.state = c.state
    BY <2>1, <2>2, RemoveItemResult DEF ResultTyped, Quiet
  <2>5. r.object = "I" /\ r # VoidRow
    BY <1>1 DEF VoidRow
  <2>6. replayRow(c, r) = IF r.action = "A" THEN added.cart ELSE removed.cart
    BY <2>5 DEF replayRow, item, row, price
  <2> QED BY <2>3, <2>4, <2>5, <2>6
<1>2. CASE r \in [object : {"L"}, action : {"A", "V"}, code : Cards]
  <2>1. addLoyCard(c, r.code).cart \in Carts /\ addLoyCard(c, r.code).cart.state = c.state
    BY <1>2, AddLoyCardResult DEF ResultTyped, Quiet
  <2>2. removeLoyCard(c, r.code).cart \in Carts /\ removeLoyCard(c, r.code).cart.state = c.state
    BY <1>2, RemoveLoyCardResult DEF ResultTyped, Quiet
  <2>3. r.object = "L" /\ r # VoidRow
    BY <1>2 DEF VoidRow
  <2> QED BY <2>1, <2>2, <2>3 DEF replayRow
<1>3. CASE r \in [object : {"C"}, action : {"V"}]
  <2>1. r = VoidRow /\ r.object = "C"
    BY <1>3 DEF VoidRow
  <2>2. replayRow(c, r) = [c EXCEPT !.state = CART_STATE_VOIDED]
    BY <2>1 DEF replayRow
  <2> QED BY <2>1, <2>2 DEF Carts, CartStates
<1>4. CASE r \in [object : {"K"}, action : {"D"}, code : DepartmentCodes]
  <2>1. r.object = "K" /\ r.action = "D" /\ r # VoidRow
    BY <1>4 DEF VoidRow
  <2> QED BY <2>1 DEF replayRow
<1>5. CASE r \in [object : {"K"}, action : {"I"}, code : ItemCodes, price : Int]
  <2> DEFINE row == [items_map[r.code] EXCEPT !.price = r.price]
             copied == updateLocalItemMap(c, r.code, row)
  <2>1. r.code \in ItemCodes /\ row \in ItemRows
    BY <1>5 DEF ItemRows
  <2> HIDE DEF row
  <2>2. copied.cart \in Carts /\ copied.cart.state = c.state
    BY <2>1, UpdateLocalItemMapResult DEF ResultTyped, Quiet
  <2>3. r.object = "K" /\ r.action = "I" /\ r # VoidRow
    BY <1>5 DEF VoidRow
  <2>4. replayRow(c, r) = IF ~PriceChangesWhileShopping THEN copied.cart ELSE c
    BY <2>3 DEF replayRow, row
  <2> QED BY <2>2, <2>3, <2>4
<1> QED BY <1>1, <1>2, <1>3, <1>4, <1>5 DEF Rows

LEMMA ReopenedTyped ==
    ASSUME NEW c \in Carts
    PROVE  /\ reopened(c) \in Carts
           /\ c.state \in {CART_STATE_TMPFILE_LOADING, CART_STATE_VOIDED} =>
                 /\ reopened(c).state \in {CART_STATE_READY_FOR_ITEM, CART_STATE_VOIDED}
                 /\ reopened(c).state = CART_STATE_VOIDED <=> c.state = CART_STATE_VOIDED
<1>1. CART_STATE_READY_FOR_ITEM \in CartStates
  BY DEF CartStates
<1>2. [c EXCEPT !.state = CART_STATE_READY_FOR_ITEM] \in Carts
  BY <1>1 DEF Carts
<1>3. [c EXCEPT !.state = CART_STATE_READY_FOR_ITEM].state = CART_STATE_READY_FOR_ITEM
  BY DEF Carts
<1> QED BY <1>2, <1>3 DEF reopened, CART_STATE_READY_FOR_ITEM, CART_STATE_VOIDED,
                          CART_STATE_TMPFILE_LOADING, CART_STATE_CLOSED

-----------------------------------------------------------------------------
(* The steps of the system, the requests gathered by what they may do. *)

LEMMA StepCases ==
    ASSUME TypeOK, [Next]_vars
    PROVE  \/ Start \/ Crash \/ StartServing \/ SessionInit \/ DumpItems \/ UNCHANGED vars
           \/ \E n \in CartNumbers : OpenFile(n) \/ LoadRow(n) \/ CloseFile(n)
           \/ \E n \in CartNumbers : \E r :
                 /\ RequestResult(n, r)
                 /\ Handle(n, r)
                 /\ all_loy_cards_map' \in [Cards -> CartNumbers \cup {NoCart}]
                 /\ scan_in' \in [Tills -> Baskets \cup {NoBasket}]
           \/ \E rc \in Nat : StoreQuery(rc)
           \/ \E n \in CartNumbers : \E r : RequestResult(n, r) /\ DieWhile(n, r)
           \/ \E v \in Variations : Variation(v)
           \/ \E till \in Tills : TillReads(till)
<1>1. CASE Loading
  BY <1>1 DEF Loading
<1>2. ASSUME NEW n \in CartNumbers, CartNotFound(n) PROVE \E rc \in Nat : StoreQuery(rc)
  BY <1>2 DEF CartNotFound, CART_NOT_FOUND
<1>3. ASSUME NEW b \in Barcodes, ItemInfo(b) PROVE \E rc \in Nat : StoreQuery(rc)
  <2> DEFINE rc == CASE barcode_type[b] = "NOT_RECOGNIZED" -> BCODE_NOT_RECOGNIZED
                     [] barcode_type[b] # "NOT_RECOGNIZED" ->
                            IF decodeBarcode(b) = NoItem THEN BCODE_ITEM_NOT_FOUND ELSE RC_OK
  <2>1. rc \in Nat
    BY DEF BCODE_NOT_RECOGNIZED, BCODE_ITEM_NOT_FOUND, RC_OK
  <2>2. StoreQuery(rc)
    BY <1>3 DEF ItemInfo
  <2> QED BY <2>1, <2>2
<1>4. ASSUME NotRecognized \/ StoreInfo PROVE \E rc \in Nat : StoreQuery(rc)
  BY <1>4 DEF NotRecognized, StoreInfo, WEBI_ACTION_NOT_RECOGNIZED, RC_OK
<1>5. CASE Request
  BY <1>2, <1>3, <1>4, <1>5, CartRequestHandles DEF Request
<1>6. CASE DieInRequest
  BY <1>6, DieInRequestCuts
<1> QED BY <1>1, <1>5, <1>6 DEF Next

-----------------------------------------------------------------------------
(* The initial states, and an empty memory. *)

LEMMA EmptyMemoryTyped ==
    ASSUME items_csv \in [ItemCodes -> ItemRows], EmptyMemory
    PROVE  /\ carts_map' \in [CartNumbers -> Carts]
           /\ sessions' = {}
           /\ next_cart_number' \in Nat
           /\ all_loy_cards_map' \in [Cards -> CartNumbers \cup {NoCart}]
           /\ items_map' \in [ItemCodes -> ItemRows]
           /\ reply' \in Nat
<1>1. BlankCarts \in [CartNumbers -> Carts]
  BY NewCartTyped DEF BlankCarts, CartStates
<1> QED BY <1>1 DEF EmptyMemory, RC_OK

LEMMA NothingToLoadTyped ==
    /\ NothingToLoad \in [todo : SUBSET CartNumbers, file : CartNumbers \cup {NoCart}, row : Nat]
    /\ NothingToLoad.todo = {} /\ NothingToLoad.file = NoCart
BY DEF NothingToLoad

LEMMA InitIInv == Init => IInv
<1> SUFFICES ASSUME Init PROVE IInv
  OBVIOUS
<1>1. BlankCarts \in [CartNumbers -> Carts]
  BY NewCartTyped DEF BlankCarts, CartStates
<1>2. TypeOK
  BY <1>1, NothingToLoadTyped, BaseSystemAssumption DEF Init, TypeOK, RC_OK
<1>3. LoaderInv
  BY DEF Init, LoaderInv, SessionIdsFresh
<1>4. VoidInv
  BY DEF Init, VoidInv, VoidRowLast
<1> QED BY <1>2, <1>3, <1>4 DEF IInv

-----------------------------------------------------------------------------
(* Types are preserved. *)

LEMMA TypeStep ==
    ASSUME TypeOK, LoaderInv, [Next]_vars
    PROVE  TypeOK'
<1> USE DEF memory, disk
<1>1. CASE Start
  <2>1. [NothingToLoad EXCEPT !.todo = files]
            \in [todo : SUBSET CartNumbers, file : CartNumbers \cup {NoCart}, row : Nat]
    BY DEF TypeOK, NothingToLoad
  <2> QED BY <1>1, <2>1, EmptyMemoryTyped DEF Start, TypeOK
<1>2. CASE Crash
  BY <1>2, EmptyMemoryTyped, NothingToLoadTyped DEF Crash, TypeOK
<1>3. ASSUME NEW n \in CartNumbers, OpenFile(n) PROVE TypeOK'
  <2>1. NewCart(CART_STATE_TMPFILE_LOADING) \in Carts
    BY NewCartTyped DEF CartStates
  <2>2. load' \in [todo : SUBSET CartNumbers, file : CartNumbers \cup {NoCart}, row : Nat]
    BY <1>3 DEF OpenFile, TypeOK
  <2> QED BY <1>3, <2>1, <2>2 DEF OpenFile, TypeOK
<1>4. ASSUME NEW n \in CartNumbers, LoadRow(n) PROVE TypeOK'
  <2> DEFINE r == journal[n][load.row]
  <2>1. r \in Rows
    <3>1. load.row \in 1 .. Len(journal[n])
      <4>1. n # NoCart
        BY BaseSystemAssumption
      <4> QED BY <1>4, <4>1 DEF LoadRow, LoaderInv, TypeOK
    <3> QED BY <3>1 DEF TypeOK
  <2>2. replayRow(carts_map[n], r) \in Carts
    BY <2>1, ReplayRowTyped DEF TypeOK
  <2>3. r.object = "L" => r.code \in Cards
    BY <2>1 DEF Rows
  <2>4. load' \in [todo : SUBSET CartNumbers, file : CartNumbers \cup {NoCart}, row : Nat]
    <3>1. load \in [todo : SUBSET CartNumbers, file : CartNumbers \cup {NoCart}, row : Nat]
      BY DEF TypeOK
    <3>2. load' = [load EXCEPT !.row = @ + 1]
      BY <1>4 DEF LoadRow
    <3> QED BY <3>1, <3>2
  <2>5. /\ carts_map' = [carts_map EXCEPT ![n] = replayRow(@, r)]
        /\ all_loy_cards_map' =
              IF r.object = "L"
              THEN [all_loy_cards_map EXCEPT ![r.code] = IF r.action = "A" THEN n ELSE NoCart]
              ELSE all_loy_cards_map
        /\ UNCHANGED <<mode, sessions, next_cart_number, items_map, reply, disk>>
    BY <1>4 DEF LoadRow
  <2> HIDE DEF r
  <2>6. carts_map' \in [CartNumbers -> Carts]
    BY <2>2, <2>5 DEF TypeOK
  <2>7. all_loy_cards_map' \in [Cards -> CartNumbers \cup {NoCart}]
    BY <2>3, <2>5 DEF TypeOK
  <2> QED BY <2>4, <2>5, <2>6, <2>7 DEF TypeOK
<1>5. ASSUME NEW n \in CartNumbers, CloseFile(n) PROVE TypeOK'
  <2>1. reopened(carts_map[n]) \in Carts
    <3>1. carts_map[n] \in Carts
      BY DEF TypeOK
    <3> QED BY <3>1, ReopenedTyped
  <2>2. load' \in [todo : SUBSET CartNumbers, file : CartNumbers \cup {NoCart}, row : Nat]
    <3>1. load \in [todo : SUBSET CartNumbers, file : CartNumbers \cup {NoCart}, row : Nat]
      BY DEF TypeOK
    <3>2. load' = [load EXCEPT !.file = NoCart, !.row = 0]
      BY <1>5 DEF CloseFile
    <3> QED BY <3>1, <3>2
  <2>3. next_cart_number' \in Nat
    BY <1>5, BaseSystemAssumption DEF CloseFile, TypeOK
  <2> QED BY <1>5, <2>1, <2>2, <2>3 DEF CloseFile, TypeOK
<1>6. CASE StartServing
  BY <1>6 DEF StartServing, TypeOK
<1>7. CASE SessionInit
  <2>1. NewCart(CART_STATE_READY_FOR_ITEM) \in Carts
    BY NewCartTyped DEF CartStates
  <2> QED BY <1>7, <2>1 DEF SessionInit, TypeOK, RC_OK
<1>8. ASSUME NEW n \in CartNumbers, NEW r, RequestResult(n, r), Handle(n, r),
             all_loy_cards_map' \in [Cards -> CartNumbers \cup {NoCart}],
             scan_in' \in [Tills -> Baskets \cup {NoBasket}]
      PROVE  TypeOK'
  <2>1. r.cart \in Carts /\ r.rows \in Seq(Rows) /\ dummyRc(r.rc) \in Nat
    BY <1>8 DEF RequestResult, ResultTyped, dummyRc
  <2>2. journal[n] \o r.rows \in Seq(Rows)
    BY <2>1 DEF TypeOK
  <2> QED BY <1>8, <2>1, <2>2 DEF Handle, TypeOK
<1>9. ASSUME NEW rc \in Nat, StoreQuery(rc) PROVE TypeOK'
  BY <1>9 DEF StoreQuery, TypeOK, dummyRc
<1>10. ASSUME NEW n \in CartNumbers, NEW r, RequestResult(n, r), DieWhile(n, r) PROVE TypeOK'
  <2>2. r.rows \in Seq(Rows)
    BY <1>10 DEF RequestResult, ResultTyped
  <2>3. PICK k \in 1 .. Len(r.rows) :
            journal' = [journal EXCEPT ![n] = @ \o SubSeq(r.rows, 1, k)]
    BY <1>10 DEF DieWhile
  <2>4. SubSeq(r.rows, 1, k) \in Seq(Rows)
    BY <2>2
  <2>5. journal' \in [CartNumbers -> Seq(Rows)]
    BY <2>3, <2>4 DEF TypeOK
  <2> QED BY <1>10, <2>5, EmptyMemoryTyped, NothingToLoadTyped DEF DieWhile, TypeOK
<1>11. ASSUME NEW v \in Variations, Variation(v) PROVE TypeOK'
  <2>1. v \in [code : Items, price : Int, department : Departments]
    BY BaseSystemAssumption
  <2>2. [price |-> v.price, department |-> v.department, linked |-> NoBarcode] \in ItemRows
    BY <2>1 DEF ItemRows, DepartmentCodes
  <2> QED BY <1>11, <2>2 DEF Variation, TypeOK
<1>12. CASE DumpItems
  BY <1>12 DEF DumpItems, TypeOK
<1>13. ASSUME NEW till \in Tills, TillReads(till) PROVE TypeOK'
  BY <1>13 DEF TillReads, TypeOK
<1>14. CASE UNCHANGED vars
  BY <1>14 DEF vars, TypeOK
<1> QED BY StepCases, <1>1, <1>2, <1>3, <1>4, <1>5, <1>6, <1>7, <1>8, <1>9, <1>10, <1>11,
           <1>12, <1>13, <1>14

-----------------------------------------------------------------------------
(* The loader and the session ids. *)

LEMMA LoaderStep ==
    ASSUME TypeOK, LoaderInv, [Next]_vars
    PROVE  LoaderInv'
<1> USE DEF memory, disk
<1>0. NoCart \notin CartNumbers /\ CartNumbers \subseteq Nat
  BY BaseSystemAssumption
<1>1. CASE Start
  BY <1>0, <1>1 DEF Start, EmptyMemory, NothingToLoad, LoaderInv, SessionIdsFresh
<1>2. CASE Crash
  BY <1>2 DEF Crash, LoaderInv, SessionIdsFresh
<1>3. ASSUME NEW n \in CartNumbers, OpenFile(n) PROVE LoaderInv'
  <2>1. /\ mode' = "loading" /\ files' = files /\ next_cart_number' = next_cart_number
        /\ sessions' = sessions \cup {n}
        /\ load'.todo = load.todo \ {n} /\ load'.file = n /\ load'.row = 1
    BY <1>3 DEF OpenFile
  <2>2. /\ n \in load.todo /\ load.file = NoCart /\ mode = "loading"
    BY <1>3 DEF OpenFile
  <2>3. \A m \in sessions : m # NoCart
    BY <1>0 DEF TypeOK
  <2> QED BY <1>0, <2>1, <2>2, <2>3 DEF LoaderInv, SessionIdsFresh
<1>4. ASSUME NEW n \in CartNumbers, LoadRow(n) PROVE LoaderInv'
  <2>1. /\ UNCHANGED <<mode, sessions, next_cart_number, files>>
        /\ load' = [load EXCEPT !.row = @ + 1]
        /\ mode = "loading"
    BY <1>4 DEF LoadRow
  <2>2. /\ load'.todo = load.todo /\ load'.file = load.file
        /\ load'.row = load.row + 1 /\ load.row \in Nat
    BY <2>1 DEF TypeOK
  <2>3. load'.row # 0
    BY <2>2
  <2> QED BY <2>1, <2>2, <2>3 DEF LoaderInv, SessionIdsFresh
<1>5. ASSUME NEW n \in CartNumbers, CloseFile(n) PROVE LoaderInv'
  <2>1. /\ UNCHANGED <<mode, sessions, files>>
        /\ load' = [load EXCEPT !.file = NoCart, !.row = 0]
        /\ next_cart_number' = IF n >= next_cart_number THEN n + 1 ELSE next_cart_number
        /\ mode = "loading" /\ n = load.file
    BY <1>5 DEF CloseFile
  <2>2. load'.todo = load.todo /\ load'.file = NoCart
    BY <2>1 DEF TypeOK
  <2>3. next_cart_number \in Nat /\ sessions \subseteq Nat /\ n \in Nat
    BY <1>0 DEF TypeOK
  <2>4. ASSUME NEW m \in sessions PROVE m < next_cart_number'
    <3>1. m = n \/ m < next_cart_number
      BY <2>1 DEF LoaderInv
    <3> QED BY <2>1, <2>3, <3>1
  <2> QED BY <2>1, <2>2, <2>4 DEF LoaderInv, SessionIdsFresh
<1>6. CASE StartServing
  BY <1>0, <1>6 DEF StartServing, LoaderInv, SessionIdsFresh, TypeOK
<1>7. CASE SessionInit
  <2>1. /\ mode = "running" /\ mode' = mode
        /\ sessions' = sessions \cup {next_cart_number}
        /\ files' = files \cup {next_cart_number}
        /\ next_cart_number' = next_cart_number + 1
    BY <1>7 DEF SessionInit
  <2>2. next_cart_number \in Nat /\ files \subseteq Nat
    BY <1>0 DEF TypeOK
  <2>3. ASSUME NEW m \in files' PROVE m < next_cart_number'
    BY <2>1, <2>2, <2>3 DEF LoaderInv, SessionIdsFresh
  <2> QED BY <2>1, <2>3 DEF LoaderInv, SessionIdsFresh
<1>8. ASSUME NEW n \in CartNumbers, NEW r, Handle(n, r) PROVE LoaderInv'
  BY <1>8 DEF Handle, Serves, LoaderInv, SessionIdsFresh
<1>9. ASSUME NEW rc \in Nat, StoreQuery(rc) PROVE LoaderInv'
  BY <1>9 DEF StoreQuery, LoaderInv, SessionIdsFresh
<1>10. ASSUME NEW n \in CartNumbers, NEW r, DieWhile(n, r) PROVE LoaderInv'
  BY <1>10 DEF DieWhile, LoaderInv, SessionIdsFresh
<1>11. ASSUME NEW v \in Variations, Variation(v) PROVE LoaderInv'
  BY <1>11 DEF Variation, LoaderInv, SessionIdsFresh
<1>12. CASE DumpItems
  BY <1>12 DEF DumpItems, LoaderInv, SessionIdsFresh
<1>13. ASSUME NEW till \in Tills, TillReads(till) PROVE LoaderInv'
  BY <1>13 DEF TillReads, LoaderInv, SessionIdsFresh
<1>14. CASE UNCHANGED vars
  BY <1>14 DEF vars, LoaderInv, SessionIdsFresh
<1> QED BY StepCases, <1>1, <1>2, <1>3, <1>4, <1>5, <1>6, <1>7, <1>8, <1>9, <1>10, <1>11,
           <1>12, <1>13, <1>14

-----------------------------------------------------------------------------
(* The void row and the voided state. *)

Voids(rows) == \E k \in 1 .. Len(rows) : rows[k] = VoidRow

LEMMA RowsAppended ==
    ASSUME NEW old \in Seq(Rows), NEW new \in Seq(Rows), ~Voids(old), VoidRowLast(new)
    PROVE  /\ VoidRowLast(old \o new)
           /\ Voids(old \o new) <=> Voids(new)
<1>1. /\ Len(old \o new) = Len(old) + Len(new)
      /\ Len(old) \in Nat /\ Len(new) \in Nat
      /\ \A k \in 1 .. Len(old) + Len(new) :
            (old \o new)[k] = IF k <= Len(old) THEN old[k] ELSE new[k - Len(old)]
  OBVIOUS
<1>2. ASSUME NEW k \in 1 .. Len(old) + Len(new), (old \o new)[k] = VoidRow
      PROVE  /\ k - Len(old) \in 1 .. Len(new)
             /\ new[k - Len(old)] = VoidRow
             /\ k = Len(old) + Len(new)
  <2>1. k > Len(old)
    BY <1>1, <1>2 DEF Voids
  <2>2. k - Len(old) \in 1 .. Len(new) /\ new[k - Len(old)] = VoidRow
    BY <1>1, <1>2, <2>1
  <2>3. k - Len(old) = Len(new)
    BY <2>2 DEF VoidRowLast
  <2> QED BY <1>1, <2>2, <2>3
<1>3. ASSUME NEW k \in 1 .. Len(new), new[k] = VoidRow
      PROVE  /\ k + Len(old) \in 1 .. Len(old) + Len(new)
             /\ (old \o new)[k + Len(old)] = VoidRow
  BY <1>1, <1>3
<1> QED BY <1>1, <1>2, <1>3 DEF Voids, VoidRowLast

\* What a prefix of the rows of a request does to the file of a cart in
\* service.
LEMMA RequestRows ==
    ASSUME TypeOK, NEW n \in CartNumbers, Settled(n), VoidRowLast(journal[n]),
           NEW r, RequestResult(n, r)
    PROVE  /\ \A k \in 1 .. Len(r.rows) :
                 VoidRowLast(journal[n] \o SubSeq(r.rows, 1, k))
           /\ VoidRowLast(journal[n] \o r.rows)
           /\ r.cart.state \in {CART_STATE_READY_FOR_ITEM, CART_STATE_VOIDED}
           /\ r.cart.state = CART_STATE_VOIDED <=> Voids(journal[n] \o r.rows)
<1>1. /\ r.cart \in Carts /\ r.rows \in Seq(Rows) /\ journal[n] \in Seq(Rows)
      /\ carts_map[n] \in Carts
  BY DEF RequestResult, ResultTyped, TypeOK
<1>2. /\ carts_map[n].state \in {CART_STATE_READY_FOR_ITEM, CART_STATE_VOIDED}
      /\ carts_map[n].state = CART_STATE_VOIDED <=> Voids(journal[n])
  BY DEF Settled, HasVoidRow, Voids
<1>3. CART_STATE_READY_FOR_ITEM # CART_STATE_VOIDED
  BY DEF CART_STATE_READY_FOR_ITEM, CART_STATE_VOIDED
<1>4. CASE r.rows = << >> /\ r.cart.state = carts_map[n].state
  BY <1>1, <1>2, <1>4
<1>5. CASE /\ carts_map[n].state = CART_STATE_READY_FOR_ITEM
           /\ ~Voids(r.rows) /\ r.cart.state = CART_STATE_READY_FOR_ITEM
  <2>1. ASSUME NEW k \in 1 .. Len(r.rows)
        PROVE  SubSeq(r.rows, 1, k) \in Seq(Rows) /\ VoidRowLast(SubSeq(r.rows, 1, k))
    <3>1. /\ SubSeq(r.rows, 1, k) \in Seq(Rows) /\ Len(SubSeq(r.rows, 1, k)) = k
          /\ k <= Len(r.rows) /\ k \in Nat
      BY <1>1
    <3>2. \A j \in 1 .. k : SubSeq(r.rows, 1, k)[j] = r.rows[j]
      BY <1>1
    <3> QED BY <1>5, <3>1, <3>2 DEF Voids, VoidRowLast
  <2>2. VoidRowLast(r.rows)
    BY <1>5 DEF Voids, VoidRowLast
  <2>3. ~Voids(journal[n])
    BY <1>2, <1>3, <1>5
  <2> QED BY <1>1, <1>2, <1>3, <1>5, <2>1, <2>2, <2>3, RowsAppended
<1>6. CASE /\ carts_map[n].state = CART_STATE_READY_FOR_ITEM
           /\ r.rows = <<VoidRow>> /\ r.cart.state = CART_STATE_VOIDED
  <2>1. VoidRowLast(r.rows) /\ Voids(r.rows) /\ Len(r.rows) = 1
    BY <1>6 DEF Voids, VoidRowLast
  <2>2. \A k \in 1 .. Len(r.rows) : SubSeq(r.rows, 1, k) = r.rows
    BY <1>1, <2>1
  <2>3. ~Voids(journal[n])
    BY <1>2, <1>3, <1>6
  <2> QED BY <1>1, <1>6, <2>1, <2>2, <2>3, RowsAppended
<1>7. CASE Quiet(carts_map[n], r)
  BY <1>2, <1>4, <1>5, <1>7 DEF Quiet, Voids
<1>8. CASE r = voidAllCart(carts_map[n])
  <2>1. CASE carts_map[n].state = CART_STATE_READY_FOR_ITEM
    <3>1. r = Result([carts_map[n] EXCEPT !.state = CART_STATE_VOIDED], <<VoidRow>>, RC_OK)
      BY <1>8, <2>1 DEF voidAllCart, CART_STATE_READY_FOR_ITEM, CART_STATE_VOIDED, CART_STATE_CLOSED
    <3>2. r.rows = <<VoidRow>> /\ r.cart.state = CART_STATE_VOIDED
      BY <1>1, <3>1 DEF Result, Carts
    <3> QED BY <1>6, <2>1, <3>2
  <2>2. CASE carts_map[n].state = CART_STATE_VOIDED
    BY <1>4, <1>8, <2>2 DEF voidAllCart, Result
  <2> QED BY <1>2, <2>1, <2>2
<1> QED BY <1>7, <1>8 DEF RequestResult

LEMMA VoidStep ==
    ASSUME IInv, [Next]_vars
    PROVE  VoidInv'
<1> USE DEF memory, disk
<1>0. /\ TypeOK /\ LoaderInv /\ VoidInv
      /\ NoCart \notin CartNumbers /\ CartNumbers \subseteq Nat
  BY BaseSystemAssumption DEF IInv
<1>a. ASSUME UNCHANGED <<files, journal>>, mode' = "down" PROVE VoidInv'
  BY <1>0, <1>a DEF VoidInv
<1>b. ASSUME UNCHANGED <<files, journal, carts_map, sessions, mode, load>> PROVE VoidInv'
  BY <1>0, <1>b DEF VoidInv, Settled, BeingLoaded, HasVoidRow
<1>1. CASE Start
  BY <1>0, <1>1 DEF Start, EmptyMemory, NothingToLoad, VoidInv
<1>2. CASE Crash
  BY <1>2, <1>a DEF Crash
<1>3. ASSUME NEW n \in CartNumbers, OpenFile(n) PROVE VoidInv'
  <2>1. /\ mode = "loading" /\ load.file = NoCart /\ n \in load.todo
        /\ mode' = "loading" /\ load'.file = n /\ load'.row = 1
        /\ sessions' = sessions \cup {n}
        /\ carts_map' = [carts_map EXCEPT ![n] = NewCart(CART_STATE_TMPFILE_LOADING)]
        /\ UNCHANGED <<journal, files>>
    BY <1>3 DEF OpenFile
  <2>2. carts_map'[n].state = CART_STATE_TMPFILE_LOADING
    BY <1>0, <2>1 DEF TypeOK, NewCart
  <2>3. BeingLoaded(n)'
    BY <2>1, <2>2 DEF BeingLoaded, CART_STATE_TMPFILE_LOADING, CART_STATE_VOIDED
  <2>4. ASSUME NEW m \in sessions' \ {load'.file} PROVE Settled(m)'
    <3>1. m \in sessions /\ m # n /\ m # load.file
      BY <1>0, <2>1 DEF TypeOK
    <3>2. Settled(m) /\ carts_map'[m] = carts_map[m]
      BY <1>0, <2>1, <3>1 DEF VoidInv, TypeOK
    <3> QED BY <2>1, <3>2 DEF Settled, HasVoidRow
  <2> QED BY <1>0, <2>1, <2>3, <2>4 DEF VoidInv
<1>4. ASSUME NEW n \in CartNumbers, LoadRow(n) PROVE VoidInv'
  <2>1. /\ mode = "loading" /\ load.file = n /\ load.row <= Len(journal[n])
        /\ mode' = "loading"
        /\ load' = [load EXCEPT !.row = @ + 1]
        /\ carts_map' = [carts_map EXCEPT ![n] = replayRow(@, journal[n][load.row])]
        /\ UNCHANGED <<sessions, journal, files>>
    BY <1>4 DEF LoadRow
  <2>2. /\ load'.file = n /\ load'.row = load.row + 1 /\ load.row \in 1 .. Len(journal[n])
    BY <1>0, <2>1 DEF TypeOK, LoaderInv
  <2>3. BeingLoaded(n)'
    <3>1. carts_map[n] \in Carts /\ journal[n][load.row] \in Rows
      BY <1>0, <2>2 DEF TypeOK
    <3>2. carts_map'[n] = replayRow(carts_map[n], journal[n][load.row])
      BY <1>0, <2>1 DEF TypeOK
    <3>3. carts_map'[n].state = IF journal[n][load.row] = VoidRow THEN CART_STATE_VOIDED
                                ELSE carts_map[n].state
      BY <1>0, <3>1, <3>2, ReplayRowTyped DEF TypeOK
    <3>4. BeingLoaded(n)
      BY <1>0, <2>1 DEF VoidInv
    <3>5. \A k \in 1 .. Len(journal[n]) :
              k < load.row + 1 <=> k < load.row \/ k = load.row
      BY <2>2
    <3> QED BY <2>1, <2>2, <3>3, <3>4, <3>5 DEF BeingLoaded
  <2>4. ASSUME NEW m \in sessions' \ {load'.file} PROVE Settled(m)'
    <3>1. Settled(m) /\ carts_map'[m] = carts_map[m]
      BY <1>0, <2>1, <2>2 DEF VoidInv, TypeOK
    <3> QED BY <2>1, <3>1 DEF Settled, HasVoidRow
  <2> QED BY <1>0, <2>1, <2>2, <2>3, <2>4 DEF VoidInv
<1>5. ASSUME NEW n \in CartNumbers, CloseFile(n) PROVE VoidInv'
  <2>1. /\ mode = "loading" /\ load.file = n /\ load.row > Len(journal[n])
        /\ mode' = "loading"
        /\ load' = [load EXCEPT !.file = NoCart, !.row = 0]
        /\ carts_map' = [carts_map EXCEPT ![n] = reopened(@)]
        /\ UNCHANGED <<sessions, journal, files>>
    BY <1>5 DEF CloseFile
  <2>2. load'.file = NoCart /\ load.row \in Nat
    BY <1>0, <2>1 DEF TypeOK
  <2>3. Settled(n)'
    <3>1. carts_map[n] \in Carts /\ carts_map'[n] = reopened(carts_map[n])
      BY <1>0, <2>1 DEF TypeOK
    <3>2. BeingLoaded(n)
      BY <1>0, <2>1 DEF VoidInv
    <3>3. \A k \in 1 .. Len(journal[n]) : k < load.row
      BY <1>0, <2>1, <2>2 DEF TypeOK
    <3>4. carts_map[n].state = CART_STATE_VOIDED <=> HasVoidRow(n)
      BY <3>2, <3>3 DEF BeingLoaded, HasVoidRow
    <3>5. HasVoidRow(n)' <=> HasVoidRow(n)
      BY <2>1 DEF HasVoidRow
    <3> QED BY <3>1, <3>2, <3>4, <3>5, ReopenedTyped DEF Settled, BeingLoaded
  <2>4. ASSUME NEW m \in sessions' PROVE Settled(m)'
    <3>1. CASE m # n
      <4>1. Settled(m) /\ carts_map'[m] = carts_map[m]
        BY <1>0, <2>1, <3>1 DEF VoidInv, TypeOK
      <4> QED BY <2>1, <4>1 DEF Settled, HasVoidRow
    <3> QED BY <2>3, <3>1
  <2> QED BY <1>0, <2>1, <2>2, <2>4 DEF VoidInv
<1>6. CASE StartServing
  <2>1. /\ mode = "loading" /\ mode' = "running" /\ load.file = NoCart
        /\ UNCHANGED <<carts_map, sessions, journal, files>>
    BY <1>6 DEF StartServing
  <2>2. ASSUME NEW m \in sessions PROVE Settled(m)
    BY <1>0, <2>1, <2>2 DEF VoidInv, TypeOK
  <2> QED BY <1>0, <2>1, <2>2 DEF VoidInv, Settled, HasVoidRow
<1>7. ASSUME NEW n \in CartNumbers, n = next_cart_number, SessionInit PROVE VoidInv'
  <2>1. /\ mode = "running" /\ mode' = "running" /\ next_cart_number = n
        /\ files' = files \cup {n} /\ sessions' = sessions \cup {n}
        /\ carts_map' = IF n \in sessions THEN carts_map
                        ELSE [carts_map EXCEPT ![n] = NewCart(CART_STATE_READY_FOR_ITEM)]
        /\ UNCHANGED journal
    BY <1>7 DEF SessionInit
  <2>2. n \notin files /\ n \notin sessions
    BY <1>0, <2>1 DEF LoaderInv, SessionIdsFresh
  <2>3. journal[n] = << >>
    BY <1>0, <2>1, <2>2 DEF VoidInv
  <2>4. Settled(n)'
    <3>1. carts_map'[n] = NewCart(CART_STATE_READY_FOR_ITEM)
      BY <1>0, <2>1, <2>2 DEF TypeOK
    <3>2. carts_map'[n].state = CART_STATE_READY_FOR_ITEM
      BY <3>1 DEF NewCart
    <3>3. journal'[n] = << >>
      BY <2>1, <2>3
    <3>4. ~\E k \in 1 .. Len(journal'[n]) : journal'[n][k] = VoidRow
      BY <3>3
    <3> QED BY <3>2, <3>4 DEF Settled, HasVoidRow, CART_STATE_READY_FOR_ITEM, CART_STATE_VOIDED
  <2>5. ASSUME NEW m \in sessions PROVE Settled(m)'
    <3>1. Settled(m) /\ carts_map'[m] = carts_map[m]
      BY <1>0, <2>1, <2>2 DEF VoidInv, TypeOK
    <3> QED BY <2>1, <3>1 DEF Settled, HasVoidRow
  <2>6. \A m \in sessions' : m \in sessions \/ m = n
    BY <2>1
  <2> QED BY <1>0, <2>1, <2>4, <2>5, <2>6 DEF VoidInv
<1>8. ASSUME NEW n \in CartNumbers, NEW r, RequestResult(n, r), Handle(n, r) PROVE VoidInv'
  <2>1. /\ mode = "running" /\ mode' = "running" /\ n \in sessions
        /\ carts_map' = [carts_map EXCEPT ![n] = r.cart]
        /\ journal' = [journal EXCEPT ![n] = @ \o r.rows]
        /\ UNCHANGED <<sessions, files>>
    BY <1>8 DEF Handle, Serves
  <2>2. Settled(n) /\ VoidRowLast(journal[n])
    BY <1>0, <2>1 DEF VoidInv
  <2>3. /\ carts_map'[n] = r.cart
        /\ journal'[n] = journal[n] \o r.rows
    BY <1>0, <2>1 DEF TypeOK
  <2>4. VoidRowLast(journal'[n])
    BY <1>0, <1>8, <2>2, <2>3, RequestRows
  <2>5. Settled(n)'
    BY <1>0, <1>8, <2>2, <2>3, RequestRows DEF Settled, HasVoidRow, Voids
  <2>6. ASSUME NEW m \in CartNumbers, m # n
        PROVE  carts_map'[m] = carts_map[m] /\ journal'[m] = journal[m]
    BY <1>0, <2>1, <2>6 DEF TypeOK
  <2>7. ASSUME NEW m \in sessions PROVE Settled(m)'
    <3>1. CASE m # n
      <4>1. Settled(m) /\ m \in CartNumbers
        BY <1>0, <2>1 DEF VoidInv, TypeOK
      <4> QED BY <2>6, <3>1, <4>1 DEF Settled, HasVoidRow
    <3> QED BY <2>5, <3>1
  <2>8. ASSUME NEW m \in CartNumbers PROVE VoidRowLast(journal'[m])
    BY <1>0, <2>4, <2>6 DEF VoidInv
  <2>9. ASSUME NEW m \in CartNumbers \ files' PROVE journal'[m] = << >>
    <3>1. n \in files
      BY <1>0, <2>1 DEF LoaderInv, SessionIdsFresh
    <3> QED BY <1>0, <2>1, <2>6, <3>1 DEF VoidInv
  <2> QED BY <2>1, <2>7, <2>8, <2>9 DEF VoidInv
<1>9. ASSUME NEW rc \in Nat, StoreQuery(rc) PROVE VoidInv'
  BY <1>9, <1>b DEF StoreQuery
<1>10. ASSUME NEW n \in CartNumbers, NEW r, RequestResult(n, r), DieWhile(n, r) PROVE VoidInv'
  <2>1. PICK k \in 1 .. Len(r.rows) :
            journal' = [journal EXCEPT ![n] = @ \o SubSeq(r.rows, 1, k)]
    BY <1>10 DEF DieWhile
  <2>2. mode = "running" /\ mode' = "down" /\ files' = files /\ n \in sessions
    BY <1>10 DEF DieWhile, Serves
  <2>3. VoidRowLast(journal[n] \o SubSeq(r.rows, 1, k))
    BY <1>0, <1>10, <2>2, RequestRows DEF VoidInv
  <2>4. ASSUME NEW m \in CartNumbers PROVE VoidRowLast(journal'[m])
    BY <1>0, <2>1, <2>3 DEF VoidInv, TypeOK
  <2>5. ASSUME NEW m \in CartNumbers \ files' PROVE journal'[m] = << >>
    <3>1. n \in files
      BY <1>0, <2>2 DEF LoaderInv, SessionIdsFresh
    <3> QED BY <1>0, <2>1, <2>2, <3>1 DEF VoidInv, TypeOK
  <2> QED BY <2>2, <2>4, <2>5 DEF VoidInv
<1>11. ASSUME NEW v \in Variations, Variation(v) PROVE VoidInv'
  BY <1>11, <1>b DEF Variation
<1>12. CASE DumpItems
  BY <1>12, <1>b DEF DumpItems
<1>13. ASSUME NEW till \in Tills, TillReads(till) PROVE VoidInv'
  BY <1>13, <1>b DEF TillReads
<1>14. CASE UNCHANGED vars
  BY <1>14, <1>b DEF vars
<1>15. CASE SessionInit
  BY <1>7, <1>15 DEF SessionInit
<1> QED BY <1>0, StepCases, <1>1, <1>2, <1>3, <1>4, <1>5, <1>6, <1>8, <1>9, <1>10,
           <1>11, <1>12, <1>13, <1>14, <1>15

-----------------------------------------------------------------------------
(* The theorems. *)

LEMMA Inductive == Spec => []IInv
<1>1. IInv /\ [Next]_vars => IInv'
  BY TypeStep, LoaderStep, VoidStep DEF IInv
<1> QED BY InitIInv, <1>1, PTL DEF Spec

\* Type correctness: every request, load step, crash and variation keeps the
\* carts, the registry of cards, the journals and the baskets well formed,
\* whatever the catalogue, the bounds and the options of the configuration.
THEOREM TypeCorrect == Spec => []TypeOK
<1>1. IInv => TypeOK
  BY DEF IInv
<1> QED BY Inductive, <1>1, PTL

\* A session id is never given twice: newCart always takes a number above
\* every file, in whatever order loadCartsInProgress met the files.
THEOREM SessionIdsNeverReused == Spec => []SessionIdsFresh
<1>1. IInv => SessionIdsFresh
  BY DEF IInv, LoaderInv
<1> QED BY Inductive, <1>1, PTL

\* A voided session stays voided through any number of restarts, and nothing
\* follows the row of voidAllCart in its file.
THEOREM VoidedForever == Spec => []VoidedSealed
<1>1. IInv => VoidedSealed
  BY DEF IInv, VoidInv, VoidRowLast, Settled, VoidedSealed
<1> QED BY Inductive, <1>1, PTL

-----------------------------------------------------------------------------
(* The loyalty cards of a cart, for any number of cards, any limit and any *)
(* order of requests, ends and starts: the invariant so far and the cards  *)
(* of each cart.  The operations on items leave them alone.                *)

LEMMA ItemOperations ==
    ASSUME NEW c \in Carts, NEW item \in ItemCodes, NEW row \in ItemRows, NEW b \in Barcodes,
           NEW price \in Int, NEW discount \in Int
    PROVE  /\ CardsKept(c, addItemByBarcode(c, item, row, b, price, discount).cart)
           /\ CardsKept(c, removeItemByBarcode(c, item, row, b, price, discount).cart)
           /\ CardsKept(c, updateLocalItemMap(c, item, row).cart)
<1>1. CardsKept(c, addItemByBarcode(c, item, row, b, price, discount).cart)
    BY DEF addItemByBarcode, Result, CardsKept, Carts
<1>2. CardsKept(c, removeItemByBarcode(c, item, row, b, price, discount).cart)
    BY DEF removeItemByBarcode, takeOut, Result, CardsKept, Carts
<1>3. CardsKept(c, updateLocalItemMap(c, item, row).cart)
    BY DEF updateLocalItemMap, Result, CardsKept, Carts
<1>. QED
    BY <1>1, <1>2, <1>3

LEMMA RememberCards ==
    ASSUME NEW c \in Carts, NEW item \in ItemCodes, items_map \in [ItemCodes -> ItemRows]
    PROVE  remember(c, item).cart \in Carts /\ CardsKept(c, remember(c, item).cart)
<1>1. remember(c, item).cart \in Carts
    BY RememberResult DEF ResultTyped
<1>2. CardsKept(c, updateLocalItemMap(c, item, items_map[item]).cart)
    BY DEF updateLocalItemMap, Result, CardsKept, Carts
<1>. QED
    BY <1>1, <1>2 DEF remember, Result, CardsKept

LEMMA AddScannedCards ==
    ASSUME NEW c \in Carts, NEW b \in Barcodes, items_map \in [ItemCodes -> ItemRows]
    PROVE  CardsKept(c, addScanned(c, b).cart)
<1> DEFINE item == decodeBarcode(b)
           known == remember(c, item)
           price == getItemPrice(known.cart, item, items_map[item], b)
<1>1. item \in ItemCodes
    BY DecodeBarcodeTyped
<1>2. known.cart \in Carts /\ CardsKept(c, known.cart)
    BY <1>1, RememberCards
<1>3. addScanned(c, b).cart
          = addItemByBarcode(known.cart, item, items_map[item], b, price, promoValue(item, price)).cart
    BY DEF addScanned, Result
<1> HIDE DEF known, price, item
<1>4. CardsKept(known.cart, addItemByBarcode(known.cart, item, items_map[item], b, price,
                                             promoValue(item, price)).cart)
    BY <1>2 DEF addItemByBarcode, Result, CardsKept, Carts
<1>. QED
    BY <1>2, <1>3, <1>4 DEF CardsKept

LEMMA AddLinkedCards ==
    ASSUME NEW c \in Carts, NEW b \in Barcodes, items_map \in [ItemCodes -> ItemRows]
    PROVE  CardsKept(c, addLinked(c, b).cart)
<1> DEFINE item == item_of[b]
           known == remember(c, item)
<1>1. item \in ItemCodes
    BY DecodeBarcodeTyped
<1>2. known.cart \in Carts /\ CardsKept(c, known.cart)
    BY <1>1, RememberCards
<1>3. addLinked(c, b).cart
          = addItemByBarcode(known.cart, item, items_map[item], b, items_map[item].price, 0).cart
    BY DEF addLinked, Result
<1> HIDE DEF known, item
<1>4. CardsKept(known.cart, addItemByBarcode(known.cart, item, items_map[item], b,
                                             items_map[item].price, 0).cart)
    BY <1>2 DEF addItemByBarcode, Result, CardsKept, Carts
<1>. QED
    BY <1>2, <1>3, <1>4 DEF CardsKept

LEMMA ItemRequestCards ==
    ASSUME NEW c \in Carts, NEW b \in Barcodes, items_map \in [ItemCodes -> ItemRows]
    PROVE  /\ CardsKept(c, itemAdd(c, b).cart)
           /\ CardsKept(c, itemVoid(c, b).cart)
<1> DEFINE item == decodeBarcode(b)
           row == items_map[item]
<1>1. row.linked \in Barcodes \cup {NoBarcode}
    BY DecodeBarcodeTyped DEF ItemRows
<1>2. CardsKept(c, itemAdd(c, b).cart)
  <2> DEFINE main == addScanned(c, b)
             pair == addLinked(main.cart, row.linked)
  <2>1. CASE itemAdd(c, b).cart = c
      BY <2>1 DEF CardsKept
  <2>2. CASE itemAdd(c, b) = main
      BY <2>2, AddScannedCards
  <2>3. CASE item # NoItem /\ row.linked # NoBarcode /\ itemAdd(c, b).cart = pair.cart
    <3>1. main.cart \in Carts /\ CardsKept(c, main.cart)
        BY <2>3, AddScannedResult, AddScannedCards DEF ResultTyped
    <3>2. row.linked \in Barcodes
        BY <1>1, <2>3
    <3> HIDE DEF main
    <3>3. CardsKept(main.cart, pair.cart)
        BY <3>1, <3>2, AddLinkedCards
    <3>. QED
        BY <2>3, <3>1, <3>3 DEF CardsKept
  <2>. QED
      BY <2>1, <2>2, <2>3 DEF itemAdd, andThen, Result
<1>3. CardsKept(c, itemVoid(c, b).cart)
  <2> DEFINE price == getItemPrice(c, item, row, b)
             main == removeItemByBarcode(c, item, row, b, price, 0)
             other == item_of[row.linked]
             pair == removeItemByBarcode(main.cart, other, items_map[other], row.linked,
                                         items_map[other].price, 0)
  <2>1. item \in ItemCodes /\ row \in ItemRows
      BY DecodeBarcodeTyped
  <2>2. price \in Int
      BY <2>1, GetItemPriceInt
  <2>3. main.cart \in Carts
      BY <2>1, <2>2, RemoveItemResult DEF ResultTyped
  <2>4. CardsKept(c, main.cart)
      BY <2>1, <2>2, ItemOperations
  <2>5. CASE itemVoid(c, b) = main
      BY <2>4, <2>5
  <2>6. CASE row.linked # NoBarcode /\ itemVoid(c, b).cart = pair.cart
    <3> HIDE DEF main
    <3>1. CardsKept(main.cart, pair.cart)
        BY <2>3 DEF removeItemByBarcode, takeOut, Result, CardsKept, Carts
    <3>. QED
        BY <2>4, <2>6, <3>1 DEF CardsKept
  <2>. QED
      BY <2>5, <2>6 DEF itemVoid, andThen, Result
<1>. QED
    BY <1>2, <1>3

LEMMA VoidedCards ==
    ASSUME NEW c \in Carts
    PROVE  CardsKept(c, voidAllCart(c).cart) /\ CardsKept(c, reopened(c))
BY DEF voidAllCart, reopened, Result, CardsKept, Carts

\* A row that is replayed keeps the cards as a request does: a file cut short
\* anywhere brings back no card twice and no card too many.
LEMMA ReplayedCards ==
    ASSUME NEW c \in Carts, NEW r \in Rows, CardsOK(c), items_map \in [ItemCodes -> ItemRows]
    PROVE  CardsOK(replayRow(c, r))
<1>1. CASE r \in [object : {"I"}, action : {"A", "V"}, code : Barcodes]
  <2>1. replayRow(c, r) \in
            {addItemByBarcode(c, decodeBarcode(r.code), items_map[decodeBarcode(r.code)], r.code,
                 getItemPrice(c, decodeBarcode(r.code), items_map[decodeBarcode(r.code)], r.code), 0).cart,
             removeItemByBarcode(c, decodeBarcode(r.code), items_map[decodeBarcode(r.code)], r.code,
                 getItemPrice(c, decodeBarcode(r.code), items_map[decodeBarcode(r.code)], r.code), 0).cart}
      BY <1>1 DEF replayRow
  <2>2. CardsKept(c, replayRow(c, r))
      BY <2>1 DEF addItemByBarcode, removeItemByBarcode, takeOut, Result, CardsKept, Carts
  <2>. QED
      BY <2>2, KeptCardsOK
<1>2. CASE r \in [object : {"L"}, action : {"A", "V"}, code : Cards]
    BY <1>2, AddedCards, RemovedCards DEF replayRow
<1>3. CASE r \in [object : {"C"}, action : {"V"}]
  <2>1. CardsKept(c, replayRow(c, r))
      BY <1>3 DEF replayRow, CardsKept, Carts
  <2>. QED
      BY <2>1, KeptCardsOK
<1>4. CASE r \in [object : {"K"}, action : {"D"}, code : DepartmentCodes]
    BY <1>4 DEF replayRow
<1>5. CASE r \in [object : {"K"}, action : {"I"}, code : ItemCodes, price : Int]
  <2>1. CardsKept(c, replayRow(c, r))
      BY <1>5 DEF replayRow, updateLocalItemMap, Result, CardsKept, Carts
  <2>. QED
      BY <2>1, KeptCardsOK
<1>. QED
    BY <1>1, <1>2, <1>3, <1>4, <1>5 DEF Rows

-----------------------------------------------------------------------------
(* The steps of the system *)

CardsInv == \A n \in CartNumbers : CardsOK(carts_map[n])

LEMMA RequestCards ==
    ASSUME TypeOK, CardsInv, NEW n \in CartNumbers, CartRequest(n)
    PROVE  CardsInv'
<1> DEFINE c == carts_map[n]
<1>1. c \in Carts /\ CardsOK(c) /\ items_map \in [ItemCodes -> ItemRows]
    BY DEF TypeOK, CardsInv
<1>2. ASSUME NEW r, Handle(n, r), CardsOK(r.cart) PROVE CardsInv'
    BY <1>2 DEF Handle, TypeOK, CardsInv
<1>3. \A rc : CardsOK(Result(c, << >>, rc).cart)
    BY <1>1 DEF Result
<1>4. ASSUME NEW b \in Barcodes, ItemAdd(n, b) \/ ItemVoid(n, b) PROVE CardsInv'
    BY <1>1, <1>2, <1>4, ItemRequestCards, KeptCardsOK DEF ItemAdd, ItemVoid
<1>5. ASSUME NEW card \in Cards, CustomerAdd(n, card) PROVE CardsInv'
  <2>1. CardsOK(customerAdd(n, card).cart)
      BY <1>1, <1>3, AddedCards DEF customerAdd
  <2>. QED
      BY <1>2, <1>5, <2>1 DEF CustomerAdd
<1>6. ASSUME NEW card \in Cards, CustomerVoid(n, card) PROVE CardsInv'
    BY <1>1, <1>2, <1>6, RemovedCards DEF CustomerVoid
<1>7. ASSUME NEW till \in Tills, SessionEnd(n, till) PROVE CardsInv'
  <2>1. \E rc : Handle(n, Result(c, << >>, rc))
      BY <1>7 DEF SessionEnd
  <2>. QED
      BY <1>2, <1>3, <2>1
<1>8. SessionVoid(n) => CardsInv'
    BY <1>1, <1>2, VoidedCards, KeptCardsOK DEF SessionVoid
<1>9. CartQuery(n) => CardsInv'
    BY <1>2, <1>3 DEF CartQuery, ManageRescan, GetTotals, GetAllCart, CartAnswers
<1>. QED
    BY <1>4, <1>5, <1>6, <1>7, <1>8, <1>9 DEF CartRequest

\* A process that ends or starts has only empty carts in memory.
LEMMA EmptyCards ==
    ASSUME EmptyMemory
    PROVE  CardsInv'
BY NewCartCards DEF EmptyMemory, BlankCarts, CardsInv

LEMMA StepCards ==
    ASSUME IInv, CardsInv, [Next]_vars
    PROVE  CardsInv'
<1> USE DEF IInv, TypeOK
<1>1. CASE Start \/ Crash \/ DieInRequest
    BY <1>1, EmptyCards DEF Start, Crash, DieInRequest, DieWhile
<1>2. ASSUME NEW n \in CartNumbers, OpenFile(n) PROVE CardsInv'
    BY <1>2, NewCartCards DEF OpenFile, CardsInv
<1>3. ASSUME NEW n \in CartNumbers, LoadRow(n) PROVE CardsInv'
  <2>1. n # NoCart
      BY BaseSystemAssumption
  <2>2. load.row \in 1 .. Len(journal[n])
      BY <1>3, <2>1 DEF LoadRow, LoaderInv
  <2>3. CardsOK(replayRow(carts_map[n], journal[n][load.row]))
      BY <2>2, ReplayedCards DEF CardsInv
  <2>. QED
      BY <1>3, <2>3 DEF LoadRow, CardsInv
<1>4. ASSUME NEW n \in CartNumbers, CloseFile(n) PROVE CardsInv'
  <2>1. CardsOK(reopened(carts_map[n]))
      BY VoidedCards, KeptCardsOK DEF CardsInv
  <2>. QED
      BY <1>4, <2>1 DEF CloseFile, CardsInv
<1>5. CASE SessionInit
    BY <1>5, NewCartCards DEF SessionInit, CardsInv
<1>6. ASSUME NEW n \in CartNumbers, CartRequest(n) PROVE CardsInv'
    BY <1>6, RequestCards
<1>7. CASE UNCHANGED carts_map
    BY <1>7 DEF CardsInv
<1>. QED
    BY <1>1, <1>2, <1>3, <1>4, <1>5, <1>6, <1>7
       DEF Next, Loading, Request, StartServing, CartNotFound, ItemInfo, NotRecognized, StoreInfo,
           StoreQuery, Variation, DumpItems, TillReads, memory, vars

-----------------------------------------------------------------------------
(* Theorem *)

\* The limit on loyalty cards holds for every cart, whatever is added, taken
\* out, cut short and loaded again: no card is there twice, and the number the
\* limit is checked on is never below the cards that are there.
THEOREM CardLimitHolds == Spec => []CardsBounded
<1>1. Init => CardsInv
    BY NewCartCards DEF Init, BlankCarts, CardsInv
<1>2. CardsInv => CardsBounded
    BY DEF CardsInv, CardsOK, Occupied, CardsBounded
<1>. QED
    BY <1>1, <1>2, Inductive, StepCards, PTL DEF Spec

-----------------------------------------------------------------------------
(* Digests *)

\* What is kept of x, a field of the bill, where bills are kept at all.
Billed(x) == IF SteadyBills THEN x ELSE 0

\* The items whose price no variation changes: deposits, and the default item
\* that an unknown barcode stands for.
Fixed == Deposits \cup {NoItem}

\* The copied prices of the items in a cart.
Held(items, prices) == [i \in ItemCodes |-> IF items[i] # 0 THEN prices[i] ELSE NoPrice]

\* What the file of a cart tells of it.  A cart that is voided still copies
\* the prices of items that are scanned, which nothing reads: of those it does
\* not hold they are left out.
Digest(open, items, barcodes, number, cards, limit, prices, pieces, gross) ==
    [open |-> open, items |-> items, barcodes |-> barcodes, number |-> number,
     cards |-> cards, limit |-> limit,
     prices |-> IF open THEN prices ELSE Held(items, prices),
     pieces |-> Billed(pieces), gross |-> Billed(gross)]

Told(c) ==
    Digest(AcceptsChanges(c), c.cart_items_map, c.barcodes_map, c.items_number,
           c.loy_cards_map, c.loy_cards_number, c.items_local_copy_map,
           c.totals_map[0].items_number, Gross(c))

Blank == Told(NewCart(CART_STATE_READY_FOR_ITEM))

\* What x adds to row 0 of the totals: an article without a department is charged there twice.
Charged(dept, x) == IF dept = NoDepartment THEN x + x ELSE x

\* An amount of an item as often as row 0 of the totals counts it.
Units(item, x) == Charged(InitialArchive[item].department, x)

\* The price a barcode is replayed at: its own, the copy, or that of the archive.
ToldPrice(t, b) ==
    IF barcode_type[b] = "EAN13_PRICE_REQ" THEN barcode_price[b]
    ELSE IF PriceChangesWhileShopping THEN InitialArchive[decodeBarcode(b)].price
    ELSE t.prices[decodeBarcode(b)]

tellAdd(t, b) ==
    LET item == decodeBarcode(b)
    IN  Digest(t.open, [t.items EXCEPT ![item] = @ + 1], [t.barcodes EXCEPT ![b] = @ + 1],
               t.number + 1, t.cards, t.limit, t.prices,
               t.pieces + Units(item, 1), t.gross + Units(item, ToldPrice(t, b)))

tellRemove(t, b) ==
    LET item == decodeBarcode(b)
    IN  IF t.items[item] = 0 THEN t
        ELSE Digest(t.open, [t.items EXCEPT ![item] = OneLess(@)],
                    [t.barcodes EXCEPT ![b] = OneLess(@)],
                    t.number - 1, t.cards, t.limit, t.prices,
                    t.pieces + Units(item, -1), t.gross + Units(item, -ToldPrice(t, b)))

tellCard(t, card) ==
    IF t.limit >= MaxCards \/ card \in {t.cards[k] : k \in CardIndexes} \ {NoCard} THEN t
    ELSE Digest(t.open, t.items, t.barcodes, t.number,
                [t.cards EXCEPT ![t.limit] = card], t.limit + 1, t.prices, t.pieces, t.gross)

tellNoCard(t, card) ==
    IF card \notin {t.cards[k] : k \in CardIndexes} \ {NoCard} THEN t
    ELSE Digest(t.open, t.items, t.barcodes, t.number,
                [k \in CardIndexes |-> IF t.cards[k] = card THEN NoCard ELSE t.cards[k]],
                t.limit - 1, t.prices, t.pieces, t.gross)

tellCopy(t, item, price) ==
    IF PriceChangesWhileShopping \/ t.prices[item] # NoPrice THEN t
    ELSE Digest(t.open, t.items, t.barcodes, t.number, t.cards, t.limit,
                [t.prices EXCEPT ![item] = price], t.pieces, t.gross)

tellVoid(t) ==
    Digest(FALSE, t.items, t.barcodes, t.number, t.cards, t.limit, t.prices, t.pieces, t.gross)

\* The effect of a row on a digest.
tell(t, r) ==
    CASE ~t.open -> t
      [] t.open /\ r.object = "I" ->
            IF r.action = "A" THEN tellAdd(t, r.code) ELSE tellRemove(t, r.code)
      [] t.open /\ r.object = "L" ->
            IF r.action = "A" THEN tellCard(t, r.code) ELSE tellNoCard(t, r.code)
      [] t.open /\ r.object = "C" -> tellVoid(t)
      [] t.open /\ r.object = "K" ->
            IF r.action = "I" THEN tellCopy(t, r.code, r.price) ELSE t

\* A row that a request would write after t: a piece is put in or taken out
\* after its price was copied, and the price of a deposit is the archive's.
Fit(t, r) ==
    /\ /\ t.open /\ r.object = "I" /\ ~PriceChangesWhileShopping
       /\ r.action = "A" \/ t.items[decodeBarcode(r.code)] # 0
       => t.prices[decodeBarcode(r.code)] # NoPrice
    /\ SteadyBills /\ r.object = "K" /\ r.action = "I" /\ r.code \in Fixed
       => r.price = InitialArchive[r.code].price

\* The digests rows go through, and the one they lead to.
Story(s, rows) ==
    /\ s = [k \in 0 .. Len(rows) |-> s[k]]
    /\ \A k \in 1 .. Len(rows) : Fit(s[k - 1], rows[k]) /\ s[k] = tell(s[k - 1], rows[k])
Tells(rows, t, u) == \E s : Story(s, rows) /\ s[0] = t /\ s[Len(rows)] = u

-----------------------------------------------------------------------------
(* Stories *)

LEMMA TellsNothing == \A t : Tells(<< >>, t, t)
<1> SUFFICES ASSUME NEW t PROVE Tells(<< >>, t, t)
  OBVIOUS
<1>1. PICK s : s = [k \in 0 .. 0 |-> t]
  OBVIOUS
<1>2. Len(<< >>) = 0 /\ 1 .. 0 = {}
  OBVIOUS
<1>3. s = [k \in 0 .. 0 |-> s[k]] /\ s[0] = t
  BY <1>1
<1>4. Story(s, << >>)
  BY <1>2, <1>3 DEF Story
<1> QED BY <1>2, <1>3, <1>4 DEF Tells

LEMMA TellsRow ==
    ASSUME NEW t, NEW r \in Rows, Fit(t, r)
    PROVE  Tells(<<r>>, t, tell(t, r))
<1>1. PICK s : s = [k \in 0 .. 1 |-> IF k = 0 THEN t ELSE tell(t, r)]
  OBVIOUS
<1>2. Len(<<r>>) = 1 /\ <<r>>[1] = r /\ 1 .. 1 = {1} /\ 1 - 1 = 0
  OBVIOUS
<1>3. s = [k \in 0 .. 1 |-> s[k]] /\ s[0] = t /\ s[1] = tell(t, r)
  BY <1>1
<1>4. Story(s, <<r>>)
  BY <1>2, <1>3 DEF Story
<1> QED BY <1>2, <1>3, <1>4 DEF Tells

LEMMA TellsBoth ==
    ASSUME NEW a \in Seq(Rows), NEW b \in Seq(Rows), NEW t, NEW u, NEW v,
           Tells(a, t, u), Tells(b, u, v)
    PROVE  Tells(a \o b, t, v)
<1>1. PICK p : Story(p, a) /\ p[0] = t /\ p[Len(a)] = u
  BY DEF Tells
<1>2. PICK q : Story(q, b) /\ q[0] = u /\ q[Len(b)] = v
  BY DEF Tells
<1> DEFINE la == Len(a)
           lb == Len(b)
<1>3. /\ la \in Nat /\ lb \in Nat /\ Len(a \o b) = la + lb
      /\ \A k \in 1 .. la : (a \o b)[k] = a[k]
      /\ \A k \in la + 1 .. la + lb : (a \o b)[k] = b[k - la]
  OBVIOUS
<1> HIDE DEF la, lb
<1>4. PICK s : s = [k \in 0 .. la + lb |-> IF k <= la THEN p[k] ELSE q[k - la]]
  OBVIOUS
<1>5. ASSUME NEW k \in 1 .. la + lb
      PROVE  Fit(s[k - 1], (a \o b)[k]) /\ s[k] = tell(s[k - 1], (a \o b)[k])
  <2>1. CASE k <= la
    <3>1. k \in 1 .. la /\ s[k] = p[k] /\ s[k - 1] = p[k - 1]
      BY <1>3, <1>4, <2>1
    <3>2. Fit(p[k - 1], a[k]) /\ p[k] = tell(p[k - 1], a[k])
      BY <1>1, <3>1 DEF Story, la
    <3> QED BY <1>3, <3>1, <3>2
  <2>2. CASE k > la
    <3>1. k - la \in 1 .. lb /\ k \in la + 1 .. la + lb
      BY <1>3, <2>2
    <3>2. s[k] = q[k - la]
      BY <1>3, <1>4, <2>2
    <3>3. s[k - 1] = q[(k - la) - 1]
      <4>1. CASE k - 1 = la
        BY <1>1, <1>2, <1>3, <1>4, <4>1 DEF la
      <4>2. CASE k - 1 > la
        <5>1. k - 1 \in 0 .. la + lb /\ (k - 1) - la = (k - la) - 1
          BY <1>3, <2>2, <4>2
        <5> QED BY <1>3, <1>4, <4>2, <5>1
      <4> QED BY <1>3, <2>2, <4>1, <4>2
    <3>4. Fit(q[(k - la) - 1], b[k - la]) /\ q[k - la] = tell(q[(k - la) - 1], b[k - la])
      BY <1>2, <3>1 DEF Story, lb
    <3> QED BY <1>3, <3>1, <3>2, <3>3, <3>4
  <2> QED BY <1>3, <2>1, <2>2
<1>6. s[0] = t
  BY <1>1, <1>3, <1>4
<1>7. s[la + lb] = v
  <2>1. CASE lb = 0
    BY <1>1, <1>2, <1>3, <1>4, <2>1 DEF la, lb
  <2>2. CASE lb > 0
    BY <1>2, <1>3, <1>4, <2>2 DEF lb
  <2> QED BY <1>3, <2>1, <2>2
<1>8. s = [k \in 0 .. la + lb |-> s[k]]
  BY <1>4
<1>9. Story(s, a \o b)
  BY <1>3, <1>5, <1>8 DEF Story
<1> QED BY <1>3, <1>6, <1>7, <1>9 DEF Tells

\* Rows that are cut short tell something too.
LEMMA TellsPrefix ==
    ASSUME NEW a \in Seq(Rows), NEW t, NEW u, Tells(a, t, u), NEW n \in 0 .. Len(a)
    PROVE  \E v : Tells(SubSeq(a, 1, n), t, v)
<1>1. PICK p : Story(p, a) /\ p[0] = t
  BY DEF Tells
<1> DEFINE b == SubSeq(a, 1, n)
<1>2. Len(b) = n /\ n \in Nat /\ n <= Len(a) /\ \A k \in 1 .. n : b[k] = a[k]
  OBVIOUS
<1> HIDE DEF b
<1>3. PICK s : s = [k \in 0 .. n |-> p[k]]
  OBVIOUS
<1>4. \A k \in 1 .. n : k \in 1 .. Len(a) /\ s[k] = p[k] /\ s[k - 1] = p[k - 1]
  BY <1>2, <1>3
<1>5. s = [k \in 0 .. n |-> s[k]] /\ s[0] = t
  BY <1>1, <1>2, <1>3
<1>6. Story(s, b)
  BY <1>1, <1>2, <1>4, <1>5 DEF Story
<1>7. Tells(b, t, s[n])
  BY <1>2, <1>5, <1>6 DEF Tells
<1> QED BY <1>7 DEF b

-----------------------------------------------------------------------------
(* The copies of prices a cart keeps *)

\* A cart knows the price of every item it holds a piece of, and the price of
\* a deposit is the archive's.
Known(c) ==
    /\ ~PriceChangesWhileShopping =>
          \A i \in ItemCodes : c.cart_items_map[i] # 0 => c.items_local_copy_map[i] # NoPrice
    /\ SteadyBills =>
          \A i \in Fixed : c.items_local_copy_map[i] \in {NoPrice, InitialArchive[i].price}

\* An operation that leaves items and copies alone.
SameGoods(c, d) ==
    d.cart_items_map = c.cart_items_map /\ d.items_local_copy_map = c.items_local_copy_map

LEMMA KnownSame ==
    ASSUME NEW c, NEW d, Known(c), SameGoods(c, d)
    PROVE  Known(d)
BY DEF Known, SameGoods

LEMMA FixedAreItems == Fixed \subseteq ItemCodes
<1>1. Deposits \subseteq ItemCodes
  BY CatalogueAssumption, BaseSystemAssumption DEF Deposits, ItemRows
<1> QED BY <1>1 DEF Fixed, ItemCodes

LEMMA KnownNew == \A state : Known(NewCart(state))
BY FixedAreItems DEF Known, NewCart

LEMMA KnownAdd ==
    ASSUME NEW c \in Carts, Known(c), NEW item \in ItemCodes, NEW row, NEW b, NEW price, NEW discount,
           ~PriceChangesWhileShopping => c.items_local_copy_map[item] # NoPrice
    PROVE  Known(addItemByBarcode(c, item, row, b, price, discount).cart)
<1> DEFINE d == addItemByBarcode(c, item, row, b, price, discount).cart
<1>1. /\ d.items_local_copy_map = c.items_local_copy_map
      /\ \A i \in ItemCodes : d.cart_items_map[i] # 0 => c.cart_items_map[i] # 0 \/ i = item
  BY DEF addItemByBarcode, Result, Carts
<1> HIDE DEF d
<1>2. Known(d)
  BY <1>1 DEF Known
<1> QED BY <1>2 DEF d

LEMMA KnownRemove ==
    ASSUME NEW c \in Carts, Known(c), NEW item \in ItemCodes, NEW row, NEW b, NEW price, NEW discount
    PROVE  Known(removeItemByBarcode(c, item, row, b, price, discount).cart)
<1> DEFINE d == removeItemByBarcode(c, item, row, b, price, discount).cart
<1>1. /\ d.items_local_copy_map = c.items_local_copy_map
      /\ \A i \in ItemCodes : d.cart_items_map[i] # 0 => c.cart_items_map[i] # 0
  BY DEF removeItemByBarcode, takeOut, OneLess, Result, Carts
<1> HIDE DEF d
<1>2. Known(d)
  BY <1>1 DEF Known
<1> QED BY <1>2 DEF d

LEMMA KnownCopy ==
    ASSUME NEW c \in Carts, Known(c), NEW item \in ItemCodes, NEW row \in ItemRows,
           SteadyBills /\ item \in Fixed => row.price = InitialArchive[item].price
    PROVE  /\ Known(updateLocalItemMap(c, item, row).cart)
           /\ updateLocalItemMap(c, item, row).cart.items_local_copy_map[item] # NoPrice
<1> DEFINE d == updateLocalItemMap(c, item, row).cart
<1>1. row.price \in Int /\ row.price # NoPrice
  BY CatalogueAssumption DEF ItemRows
<1>2. /\ d.cart_items_map = c.cart_items_map
      /\ \A i \in ItemCodes : d.items_local_copy_map[i] =
            IF i = item /\ c.items_local_copy_map[i] = NoPrice THEN row.price
            ELSE c.items_local_copy_map[i]
  BY DEF updateLocalItemMap, Result, Carts
<1> HIDE DEF d
<1>3. Known(d) /\ d.items_local_copy_map[item] # NoPrice
  BY <1>1, <1>2, FixedAreItems DEF Known
<1> QED BY <1>3 DEF d

-----------------------------------------------------------------------------
(* What the operations of a cart do to its digest *)

\* The row of an item, as far as the archive can have changed.
RowKept(item, row) ==
    /\ row \in ItemRows
    /\ row.linked \in {NoBarcode, InitialArchive[item].linked}
    /\ SteadyBills =>
          /\ row.department = NoDepartment <=> InitialArchive[item].department = NoDepartment
          /\ PriceChangesWhileShopping \/ item \in Fixed =>
                row.price = InitialArchive[item].price

ArchiveKept(archive) == \A item \in ItemCodes : RowKept(item, archive[item])

\* The row is the old one after a Charge of n units, an amount and a discount.
Grew(row, old, dept, n, amount, discount) ==
    /\ row.items_number = old.items_number + Charged(dept, n)
    /\ row.total_amount + row.total_discount
          = (old.total_amount + old.total_discount) + Charged(dept, amount + discount)

\* The row of the whole cart, after Charge.
LEMMA ChargedCart ==
    ASSUME NEW totals \in [DepartmentCodes -> Totals], NEW dept \in DepartmentCodes,
           NEW n \in Int, NEW amount \in Int, NEW discount \in Int
    PROVE  Grew(Charge(totals, dept, n, amount, discount)[0], totals[0], dept, n, amount, discount)
<1> DEFINE one == AddToTotal(totals, 0, n, amount, discount)
           two == AddToTotal(one, dept, n, amount, discount)
<1>1. totals[0] \in Totals /\ 0 \in DepartmentCodes
  BY DepartmentZero
<1>2. /\ one \in [DepartmentCodes -> Totals]
      /\ one[0].items_number = totals[0].items_number + n
      /\ one[0].total_amount = totals[0].total_amount + amount
      /\ one[0].total_discount = totals[0].total_discount + discount
  BY <1>1 DEF AddToTotal, Totals
<1> HIDE DEF one
<1>3. one[0] \in Totals /\ one[dept] \in Totals
  BY <1>1, <1>2
<1>4. two[0] = IF dept = 0 THEN [items_number   |-> one[0].items_number + n,
                                 total_amount   |-> one[0].total_amount + amount,
                                 total_discount |-> one[0].total_discount + discount]
               ELSE one[0]
  BY <1>1, <1>2 DEF AddToTotal
<1> HIDE DEF two
<1>5. Charge(totals, dept, n, amount, discount) = two
  BY DEF Charge, two, one
<1>6. /\ totals[0].items_number \in Int
      /\ totals[0].total_amount \in Int
      /\ totals[0].total_discount \in Int
  BY <1>1 DEF Totals
<1> QED BY <1>2, <1>4, <1>5, <1>6 DEF NoDepartment, Charged, Grew

\* Digests of carts are equal when the fields they hold are.
LEMMA SameDigest ==
    ASSUME NEW open \in BOOLEAN, NEW items, NEW barcodes, NEW number, NEW cards, NEW limit,
           NEW prices, NEW pieces, NEW gross, NEW prices2, NEW pieces2, NEW gross2,
           IF open THEN prices2 = prices ELSE Held(items, prices2) = Held(items, prices),
           SteadyBills => pieces2 = pieces /\ gross2 = gross
    PROVE  Digest(open, items, barcodes, number, cards, limit, prices2, pieces2, gross2)
            = Digest(open, items, barcodes, number, cards, limit, prices, pieces, gross)
BY DEF Digest, Billed

\* The fields of the digest of a cart.
LEMMA ToldFields ==
    ASSUME NEW c
    PROVE  /\ Told(c).open = AcceptsChanges(c)
           /\ Told(c).items = c.cart_items_map /\ Told(c).barcodes = c.barcodes_map
           /\ Told(c).number = c.items_number
           /\ Told(c).cards = c.loy_cards_map /\ Told(c).limit = c.loy_cards_number
           /\ AcceptsChanges(c) => Told(c).prices = c.items_local_copy_map
           /\ SteadyBills => /\ Told(c).pieces = c.totals_map[0].items_number
                             /\ Told(c).gross = Gross(c)
BY DEF Told, Digest, Billed

LEMMA ToldAdd ==
    ASSUME NEW c \in Carts, AcceptsChanges(c), NEW b \in Barcodes,
           NEW item, item = decodeBarcode(b), NEW row, RowKept(item, row),
           NEW price \in Int, NEW discount \in Int,
           SteadyBills => price = ToldPrice(Told(c), b)
    PROVE  Told(addItemByBarcode(c, item, row, b, price, discount).cart) = tellAdd(Told(c), b)
<1> DEFINE totals == Charge(c.totals_map, row.department, 1, price - discount, discount)
           d == [c EXCEPT !.totals_map = totals,
                          !.items_number = @ + 1,
                          !.cart_items_map[item] = @ + 1,
                          !.barcodes_map[b] = @ + 1]
           t == Told(c)
<1>1. addItemByBarcode(c, item, row, b, price, discount).cart = d
  BY DEF addItemByBarcode, Result
<1>2. /\ d.totals_map = totals
      /\ d.items_number = c.items_number + 1
      /\ d.cart_items_map = [c.cart_items_map EXCEPT ![item] = @ + 1]
      /\ d.barcodes_map = [c.barcodes_map EXCEPT ![b] = @ + 1]
      /\ d.state = c.state /\ d.loy_cards_map = c.loy_cards_map
      /\ d.loy_cards_number = c.loy_cards_number
      /\ d.items_local_copy_map = c.items_local_copy_map
  BY DEF Carts
<1>3. SteadyBills => /\ totals[0].items_number = c.totals_map[0].items_number + Units(item, 1)
                     /\ totals[0].total_amount + totals[0].total_discount
                           = Gross(c) + Units(item, price)
  <2>1. /\ c.totals_map \in [DepartmentCodes -> Totals] /\ row.department \in DepartmentCodes
        /\ price - discount \in Int /\ (price - discount) + discount = price
    BY DEF Carts, RowKept, ItemRows
  <2>2. SteadyBills =>
          (row.department = NoDepartment <=> InitialArchive[item].department = NoDepartment)
    BY DEF RowKept
  <2>3. PICK old \in [DepartmentCodes -> Totals] : old = c.totals_map
    BY <2>1
  <2>4. PICK dept \in DepartmentCodes : dept = row.department
    BY <2>1
  <2>5. PICK amount \in Int : amount = price - discount
    BY <2>1
  <2>6. totals = Charge(old, dept, 1, amount, discount) /\ amount + discount = price
    BY <2>1, <2>3, <2>4, <2>5
  <2> HIDE DEF totals
  <2>7. \A n \in Int : Grew(Charge(old, dept, n, amount, discount)[0], old[0], dept, n, amount, discount)
    BY ChargedCart
  <2>8. Grew(totals[0], old[0], dept, 1, amount, discount)
    BY <2>6, <2>7
  <2>9. SteadyBills => Charged(dept, 1) = Units(item, 1) /\ Charged(dept, price) = Units(item, price)
    BY <2>2, <2>4 DEF Units, Charged
  <2>10. /\ totals[0].items_number = old[0].items_number + Charged(dept, 1)
         /\ totals[0].total_amount + totals[0].total_discount
               = (old[0].total_amount + old[0].total_discount) + Charged(dept, price)
    BY <2>6, <2>8 DEF Grew
  <2> QED BY <2>3, <2>9, <2>10 DEF Gross
<1> HIDE DEF d, totals
<1>4. SteadyBills => /\ d.totals_map[0].items_number = t.pieces + Units(item, 1)
                     /\ Gross(d) = t.gross + Units(item, ToldPrice(t, b))
  BY <1>2, <1>3, ToldFields DEF Gross
<1>5. /\ AcceptsChanges(d) = t.open /\ t.open \in BOOLEAN
      /\ c.cart_items_map = t.items /\ c.barcodes_map = t.barcodes
      /\ c.items_number = t.number /\ c.loy_cards_map = t.cards /\ c.loy_cards_number = t.limit
      /\ c.items_local_copy_map = t.prices
  BY <1>2, ToldFields DEF AcceptsChanges
<1> HIDE DEF t
<1>6. Told(d) = Digest(t.open, [t.items EXCEPT ![item] = @ + 1], [t.barcodes EXCEPT ![b] = @ + 1],
                       t.number + 1, t.cards, t.limit, t.prices,
                       d.totals_map[0].items_number, Gross(d))
  BY <1>2, <1>5 DEF Told
<1>7. Told(d) = tellAdd(t, b)
  BY <1>4, <1>5, <1>6, SameDigest DEF tellAdd
<1> QED BY <1>1, <1>7 DEF t

LEMMA ToldRemove ==
    ASSUME NEW c \in Carts, AcceptsChanges(c), NEW b \in Barcodes,
           NEW item, item = decodeBarcode(b), NEW row, RowKept(item, row), NEW price \in Int,
           SteadyBills /\ c.cart_items_map[item] # 0 => price = ToldPrice(Told(c), b)
    PROVE  Told(removeItemByBarcode(c, item, row, b, price, 0).cart) = tellRemove(Told(c), b)
<1> DEFINE t == Told(c)
<1>1. CASE c.cart_items_map[item] = 0
  <2>1. removeItemByBarcode(c, item, row, b, price, 0).cart = c
    BY <1>1 DEF removeItemByBarcode, Result
  <2> QED BY <1>1, <2>1, ToldFields DEF tellRemove
<1>2. CASE c.cart_items_map[item] # 0
  <2> DEFINE totals == Charge(c.totals_map, row.department, -1, 0 - price, -0)
             d == [takeOut(c, item, row, price, 0) EXCEPT !.barcodes_map[b] = OneLess(@)]
  <2>1. removeItemByBarcode(c, item, row, b, price, 0).cart = d
    BY <1>2 DEF removeItemByBarcode, Result
  <2>2. /\ d.totals_map = totals
        /\ d.items_number = c.items_number - 1
        /\ d.cart_items_map = [c.cart_items_map EXCEPT ![item] = OneLess(@)]
        /\ d.barcodes_map = [c.barcodes_map EXCEPT ![b] = OneLess(@)]
        /\ d.state = c.state /\ d.loy_cards_map = c.loy_cards_map
        /\ d.loy_cards_number = c.loy_cards_number
        /\ d.items_local_copy_map = c.items_local_copy_map
    BY DEF takeOut, Carts
  <2>3. SteadyBills => /\ totals[0].items_number = c.totals_map[0].items_number + Units(item, -1)
                       /\ totals[0].total_amount + totals[0].total_discount
                             = Gross(c) + Units(item, -price)
    <3>1. /\ c.totals_map \in [DepartmentCodes -> Totals] /\ row.department \in DepartmentCodes
          /\ 0 - price \in Int /\ -0 \in Int /\ -1 \in Int /\ (0 - price) + -0 = -price
      BY DEF Carts, RowKept, ItemRows
    <3>2. SteadyBills =>
            (row.department = NoDepartment <=> InitialArchive[item].department = NoDepartment)
      BY DEF RowKept
    <3>3. PICK old \in [DepartmentCodes -> Totals] : old = c.totals_map
      BY <3>1
    <3>4. PICK dept \in DepartmentCodes : dept = row.department
      BY <3>1
    <3>5. PICK amount \in Int : amount = 0 - price
      BY <3>1
    <3>6. PICK none \in Int : none = -0
      BY <3>1
    <3>7. totals = Charge(old, dept, -1, amount, none) /\ amount + none = -price
      BY <3>1, <3>3, <3>4, <3>5, <3>6
    <3> HIDE DEF totals
    <3>8. \A n \in Int : Grew(Charge(old, dept, n, amount, none)[0], old[0], dept, n, amount, none)
      BY ChargedCart
    <3>9. Grew(totals[0], old[0], dept, -1, amount, none)
      BY <3>7, <3>8
    <3>10. SteadyBills =>
              Charged(dept, -1) = Units(item, -1) /\ Charged(dept, -price) = Units(item, -price)
      BY <3>2, <3>4 DEF Units, Charged
    <3>11. /\ totals[0].items_number = old[0].items_number + Charged(dept, -1)
           /\ totals[0].total_amount + totals[0].total_discount
                 = (old[0].total_amount + old[0].total_discount) + Charged(dept, -price)
      BY <3>7, <3>9 DEF Grew
    <3> QED BY <3>3, <3>10, <3>11 DEF Gross
  <2> HIDE DEF d, totals
  <2>4. SteadyBills => /\ d.totals_map[0].items_number = t.pieces + Units(item, -1)
                       /\ Gross(d) = t.gross + Units(item, -ToldPrice(t, b))
    BY <1>2, <2>2, <2>3, ToldFields DEF Gross
  <2>5. /\ AcceptsChanges(d) = t.open /\ t.open \in BOOLEAN
        /\ c.cart_items_map = t.items /\ c.barcodes_map = t.barcodes
        /\ c.items_number = t.number /\ c.loy_cards_map = t.cards /\ c.loy_cards_number = t.limit
        /\ c.items_local_copy_map = t.prices
    BY <2>2, ToldFields DEF AcceptsChanges
  <2> HIDE DEF t
  <2>6. Told(d) = Digest(t.open, [t.items EXCEPT ![item] = OneLess(@)],
                         [t.barcodes EXCEPT ![b] = OneLess(@)],
                         t.number - 1, t.cards, t.limit, t.prices,
                         d.totals_map[0].items_number, Gross(d))
    BY <2>2, <2>5 DEF Told
  <2>7. Told(d) = tellRemove(t, b)
    BY <1>2, <2>4, <2>5, <2>6, SameDigest DEF tellRemove
  <2> QED BY <2>1, <2>7 DEF t
<1> QED BY <1>1, <1>2

LEMMA ToldCard ==
    ASSUME NEW c \in Carts, AcceptsChanges(c), NEW card \in Cards
    PROVE  Told(addLoyCard(c, card).cart) = tellCard(Told(c), card)
<1> DEFINE t == Told(c)
           d == [c EXCEPT !.loy_cards_map[c.loy_cards_number] = card, !.loy_cards_number = @ + 1]
           kept == c.loy_cards_number >= MaxCards \/ card \in CardsOf(c)
<1>1. /\ AcceptsChanges(c) = t.open /\ t.open \in BOOLEAN
      /\ c.cart_items_map = t.items /\ c.barcodes_map = t.barcodes
      /\ c.items_number = t.number /\ c.loy_cards_map = t.cards /\ c.loy_cards_number = t.limit
      /\ c.items_local_copy_map = t.prices
      /\ SteadyBills => c.totals_map[0].items_number = t.pieces /\ Gross(c) = t.gross
  BY ToldFields DEF AcceptsChanges
<1> HIDE DEF t
<1>2. kept <=> t.limit >= MaxCards \/ card \in {t.cards[k] : k \in CardIndexes} \ {NoCard}
  BY <1>1 DEF CardsOf
<1>3. CASE kept
  <2>1. addLoyCard(c, card).cart = c
    BY <1>3, CardsAssumption DEF addLoyCard, Result, Carts
  <2> QED BY <1>2, <1>3, <2>1 DEF tellCard, t
<1>4. CASE ~kept
  <2>1. addLoyCard(c, card).cart = d
    BY <1>4, CardsAssumption DEF addLoyCard, Result, Carts
  <2>2. /\ d.loy_cards_map = [c.loy_cards_map EXCEPT ![c.loy_cards_number] = card]
        /\ d.loy_cards_number = c.loy_cards_number + 1
        /\ d.totals_map = c.totals_map /\ d.items_number = c.items_number
        /\ d.cart_items_map = c.cart_items_map /\ d.barcodes_map = c.barcodes_map
        /\ d.state = c.state /\ d.items_local_copy_map = c.items_local_copy_map
    BY DEF Carts
  <2> HIDE DEF d
  <2>3. AcceptsChanges(d) = t.open /\ Gross(d) = Gross(c)
    BY <1>1, <2>2 DEF AcceptsChanges, Gross
  <2>4. Told(d) = Digest(t.open, t.items, t.barcodes, t.number, [t.cards EXCEPT ![t.limit] = card],
                         t.limit + 1, t.prices, c.totals_map[0].items_number, Gross(c))
    BY <1>1, <2>2, <2>3 DEF Told
  <2>5. Told(d) = tellCard(t, card)
    BY <1>1, <1>2, <1>4, <2>4, SameDigest DEF tellCard
  <2> QED BY <2>1, <2>5 DEF t
<1> QED BY <1>3, <1>4

LEMMA ToldNoCard ==
    ASSUME NEW c \in Carts, AcceptsChanges(c), NEW card \in Cards
    PROVE  Told(removeLoyCard(c, card).cart) = tellNoCard(Told(c), card)
<1> DEFINE t == Told(c)
           m == c.loy_cards_map
           cards == [k \in CardIndexes |-> IF m[k] = card THEN NoCard ELSE m[k]]
           d == [c EXCEPT !.loy_cards_map =
                            [k \in CardIndexes |-> IF @[k] = card THEN NoCard ELSE @[k]],
                          !.loy_cards_number = @ - 1]
<1>1. /\ AcceptsChanges(c) = t.open /\ t.open \in BOOLEAN
      /\ c.cart_items_map = t.items /\ c.barcodes_map = t.barcodes
      /\ c.items_number = t.number /\ c.loy_cards_map = t.cards /\ c.loy_cards_number = t.limit
      /\ c.items_local_copy_map = t.prices
      /\ SteadyBills => c.totals_map[0].items_number = t.pieces /\ Gross(c) = t.gross
  BY ToldFields DEF AcceptsChanges
<1> HIDE DEF t
<1>2. card \in CardsOf(c) <=> card \in {t.cards[k] : k \in CardIndexes} \ {NoCard}
  BY <1>1 DEF CardsOf
<1>3. CASE card \notin CardsOf(c)
  <2>1. removeLoyCard(c, card).cart = c
    BY <1>3 DEF removeLoyCard, Result
  <2> QED BY <1>2, <1>3, <2>1 DEF tellNoCard, t
<1>4. CASE card \in CardsOf(c)
  <2>1. removeLoyCard(c, card).cart = d
    BY <1>4 DEF removeLoyCard, Result
  <2>2. /\ d.loy_cards_map = cards
        /\ d.loy_cards_number = c.loy_cards_number - 1
        /\ d.totals_map = c.totals_map /\ d.items_number = c.items_number
        /\ d.cart_items_map = c.cart_items_map /\ d.barcodes_map = c.barcodes_map
        /\ d.state = c.state /\ d.items_local_copy_map = c.items_local_copy_map
    BY DEF Carts
  <2> HIDE DEF d
  <2>3. AcceptsChanges(d) = t.open /\ Gross(d) = Gross(c)
    BY <1>1, <2>2 DEF AcceptsChanges, Gross
  <2>4. cards = [k \in CardIndexes |-> IF t.cards[k] = card THEN NoCard ELSE t.cards[k]]
    BY <1>1
  <2> HIDE DEF cards
  <2>5. Told(d) = Digest(t.open, t.items, t.barcodes, t.number, cards,
                         t.limit - 1, t.prices, c.totals_map[0].items_number, Gross(c))
    BY <1>1, <2>2, <2>3 DEF Told
  <2>6. Told(d) = Digest(t.open, t.items, t.barcodes, t.number, cards,
                         t.limit - 1, t.prices, t.pieces, t.gross)
    BY <1>1, <2>5, SameDigest
  <2>7. Told(d) = tellNoCard(t, card)
    BY <1>2, <1>4, <2>4, <2>6 DEF tellNoCard
  <2> QED BY <2>1, <2>7 DEF t
<1> QED BY <1>3, <1>4

\* A cart in service or being loaded remembers a price; of another one the
\* digest shows the prices of the pieces it holds, which it knows already.
LEMMA ToldCopy ==
    ASSUME NEW c \in Carts, Known(c), NEW item \in ItemCodes, NEW row \in ItemRows,
           ~PriceChangesWhileShopping
    PROVE  Told(updateLocalItemMap(c, item, row).cart)
            = IF AcceptsChanges(c) THEN tellCopy(Told(c), item, row.price) ELSE Told(c)
<1> DEFINE t == Told(c)
           d == [c EXCEPT !.items_local_copy_map[item] = row.price]
<1>1. /\ AcceptsChanges(c) = t.open /\ t.open \in BOOLEAN
      /\ c.cart_items_map = t.items /\ c.barcodes_map = t.barcodes
      /\ c.items_number = t.number /\ c.loy_cards_map = t.cards /\ c.loy_cards_number = t.limit
      /\ AcceptsChanges(c) => c.items_local_copy_map = t.prices
      /\ SteadyBills => c.totals_map[0].items_number = t.pieces /\ Gross(c) = t.gross
  <2>1. AcceptsChanges(c) \in BOOLEAN
    BY DEF AcceptsChanges
  <2> QED BY <2>1, ToldFields
<1> HIDE DEF t
<1>2. CASE c.items_local_copy_map[item] # NoPrice
  <2>1. updateLocalItemMap(c, item, row).cart = c
    BY <1>2 DEF updateLocalItemMap, Result
  <2> QED BY <1>1, <1>2, <2>1 DEF tellCopy, t
<1>3. CASE c.items_local_copy_map[item] = NoPrice
  <2>1. updateLocalItemMap(c, item, row).cart = d
    BY <1>3 DEF updateLocalItemMap, Result
  <2>2. /\ d.items_local_copy_map = [c.items_local_copy_map EXCEPT ![item] = row.price]
        /\ d.loy_cards_map = c.loy_cards_map /\ d.loy_cards_number = c.loy_cards_number
        /\ d.totals_map = c.totals_map /\ d.items_number = c.items_number
        /\ d.cart_items_map = c.cart_items_map /\ d.barcodes_map = c.barcodes_map
        /\ d.state = c.state
    BY DEF Carts
  <2> HIDE DEF d
  <2>3. AcceptsChanges(d) = t.open /\ Gross(d) = Gross(c)
    BY <1>1, <2>2 DEF AcceptsChanges, Gross
  <2>4. Told(d) = Digest(t.open, t.items, t.barcodes, t.number, t.cards, t.limit,
                         d.items_local_copy_map, c.totals_map[0].items_number, Gross(c))
    BY <1>1, <2>2, <2>3 DEF Told
  <2>5. CASE AcceptsChanges(c)
    <3>1. Told(d) = Digest(t.open, t.items, t.barcodes, t.number, t.cards, t.limit,
                           [t.prices EXCEPT ![item] = row.price], t.pieces, t.gross)
      <4>1. d.items_local_copy_map = [t.prices EXCEPT ![item] = row.price]
        BY <1>1, <2>2, <2>5
      <4>2. Digest(t.open, t.items, t.barcodes, t.number, t.cards, t.limit,
                   d.items_local_copy_map, c.totals_map[0].items_number, Gross(c))
             = Digest(t.open, t.items, t.barcodes, t.number, t.cards, t.limit,
                      [t.prices EXCEPT ![item] = row.price], t.pieces, t.gross)
        <5> DEFINE prices == [t.prices EXCEPT ![item] = row.price]
        <5>1. d.items_local_copy_map = prices
          BY <4>1
        <5> HIDE DEF prices
        <5>2. Digest(t.open, t.items, t.barcodes, t.number, t.cards, t.limit,
                     d.items_local_copy_map, c.totals_map[0].items_number, Gross(c))
               = Digest(t.open, t.items, t.barcodes, t.number, t.cards, t.limit,
                        prices, t.pieces, t.gross)
          BY <1>1, <5>1, SameDigest
        <5> QED BY <5>2 DEF prices
      <4> QED BY <2>4, <4>2
    <3>2. t.prices[item] = NoPrice
      BY <1>1, <1>3, <2>5
    <3>3. Told(d) = tellCopy(t, item, row.price)
      BY <3>1, <3>2 DEF tellCopy
    <3> QED BY <2>1, <2>5, <3>3 DEF t
  <2>6. CASE ~AcceptsChanges(c)
    <3>1. Told(c) = Digest(t.open, t.items, t.barcodes, t.number, t.cards, t.limit,
                           c.items_local_copy_map, c.totals_map[0].items_number, Gross(c))
      BY <1>1 DEF Told
    <3>2. t.items[item] = 0 /\ t.items \in [ItemCodes -> Nat]
      BY <1>1, <1>3 DEF Known, Carts
    <3>3. Held(t.items, d.items_local_copy_map) = Held(t.items, c.items_local_copy_map)
      BY <2>2, <3>2 DEF Held, Carts
    <3>4. Told(d) = Told(c)
      BY <1>1, <2>4, <2>6, <3>1, <3>3, SameDigest
    <3> QED BY <2>1, <2>6, <3>4
  <2> QED BY <2>5, <2>6
<1> QED BY <1>2, <1>3

LEMMA ToldVoid ==
    ASSUME NEW c \in Carts, AcceptsChanges(c)
    PROVE  Told([c EXCEPT !.state = CART_STATE_VOIDED]) = tellVoid(Told(c))
<1> DEFINE t == Told(c)
           d == [c EXCEPT !.state = CART_STATE_VOIDED]
<1>1. /\ c.cart_items_map = t.items /\ c.barcodes_map = t.barcodes
      /\ c.items_number = t.number /\ c.loy_cards_map = t.cards /\ c.loy_cards_number = t.limit
      /\ c.items_local_copy_map = t.prices
      /\ SteadyBills => c.totals_map[0].items_number = t.pieces /\ Gross(c) = t.gross
  BY ToldFields
<1> HIDE DEF t
<1>2. /\ d.loy_cards_map = c.loy_cards_map /\ d.loy_cards_number = c.loy_cards_number
      /\ d.totals_map = c.totals_map /\ d.items_number = c.items_number
      /\ d.cart_items_map = c.cart_items_map /\ d.barcodes_map = c.barcodes_map
      /\ d.items_local_copy_map = c.items_local_copy_map
      /\ d.state = CART_STATE_VOIDED
  BY DEF Carts
<1> HIDE DEF d
<1>3. AcceptsChanges(d) = FALSE /\ Gross(d) = Gross(c)
  BY <1>2 DEF AcceptsChanges, Gross, CART_STATE_VOIDED, CART_STATE_TMPFILE_LOADING,
              CART_STATE_READY_FOR_ITEM
<1>4. Told(d) = Digest(FALSE, t.items, t.barcodes, t.number, t.cards, t.limit,
                       d.items_local_copy_map, c.totals_map[0].items_number, Gross(c))
  BY <1>1, <1>2, <1>3 DEF Told
<1>5. Told(d) = tellVoid(t)
  <2>1. d.items_local_copy_map = t.prices
    BY <1>1, <1>2
  <2> QED BY <1>1, <1>4, <2>1 DEF tellVoid, Digest, Billed
<1> QED BY <1>5 DEF t, d

-----------------------------------------------------------------------------
(* The price of a piece, as it is told *)

\* The price of a piece whose item the cart knows.
LEMMA PriceIsTold ==
    ASSUME NEW c \in Carts, AcceptsChanges(c), NEW b \in Barcodes,
           NEW item \in ItemCodes, item = decodeBarcode(b), NEW row, RowKept(item, row), SteadyBills,
           ~PriceChangesWhileShopping => c.items_local_copy_map[item] # NoPrice
    PROVE  getItemPrice(c, item, row, b) = ToldPrice(Told(c), b)
<1>1. Told(c).prices = c.items_local_copy_map
  BY ToldFields
<1>2. PriceChangesWhileShopping => row.price = InitialArchive[item].price
  BY DEF RowKept
<1> QED BY <1>1, <1>2 DEF getItemPrice, ToldPrice

-----------------------------------------------------------------------------
(* What the loader makes of a row *)

LEMMA ToldReplay ==
    ASSUME NEW c \in Carts, AcceptsChanges(c), Known(c), NEW r \in Rows, ArchiveKept(items_map),
           items_map \in [ItemCodes -> ItemRows], Fit(Told(c), r)
    PROVE  Told(replayRow(c, r)) = tell(Told(c), r)
<1>0. Told(c).open = TRUE
  BY ToldFields
<1>1. CASE r \in [object : {"I"}, action : {"A", "V"}, code : Barcodes]
  <2> DEFINE b == r.code
             item == decodeBarcode(b)
             row == items_map[item]
             price == getItemPrice(c, item, row, b)
  <2>1. r.object = "I" /\ r.action \in {"A", "V"} /\ b \in Barcodes
    BY <1>1
  <2>2. item \in ItemCodes /\ RowKept(item, row) /\ row \in ItemRows
    BY <2>1, DecodeBarcodeTyped DEF ArchiveKept
  <2> HIDE DEF b, row
  <2>3. price \in Int
    BY <2>1, <2>2, GetItemPriceInt
  <2>4. Told(c).items = c.cart_items_map /\ Told(c).prices = c.items_local_copy_map
    BY ToldFields
  <2>5. ~PriceChangesWhileShopping /\ (r.action = "A" \/ c.cart_items_map[item] # 0)
           => c.items_local_copy_map[item] # NoPrice
    BY <1>0, <2>1, <2>4 DEF Fit, b
  <2>6. SteadyBills /\ (r.action = "A" \/ c.cart_items_map[item] # 0)
           => price = ToldPrice(Told(c), b)
    BY <2>1, <2>2, <2>5, PriceIsTold
  <2>7. tell(Told(c), r) = IF r.action = "A" THEN tellAdd(Told(c), b) ELSE tellRemove(Told(c), b)
    BY <1>0, <2>1 DEF tell, b
  <2>8. replayRow(c, r) = IF r.action = "A"
                          THEN addItemByBarcode(c, item, row, b, price, 0).cart
                          ELSE removeItemByBarcode(c, item, row, b, price, 0).cart
    BY <2>1 DEF replayRow, row, b
  <2> HIDE DEF price, item
  <2>9. CASE r.action = "A"
    <3>1. Told(addItemByBarcode(c, item, row, b, price, 0).cart) = tellAdd(Told(c), b)
      BY <2>1, <2>2, <2>3, <2>6, <2>9, ToldAdd DEF item
    <3> QED BY <2>7, <2>8, <2>9, <3>1
  <2>10. CASE r.action # "A"
    <3>1. Told(removeItemByBarcode(c, item, row, b, price, 0).cart) = tellRemove(Told(c), b)
      BY <2>1, <2>2, <2>3, <2>6, <2>10, ToldRemove DEF item
    <3> QED BY <2>7, <2>8, <2>10, <3>1
  <2> QED BY <2>9, <2>10
<1>2. CASE r \in [object : {"L"}, action : {"A", "V"}, code : Cards]
  <2>1. r.object = "L" /\ r.code \in Cards
    BY <1>2
  <2>2. /\ replayRow(c, r) = IF r.action = "A" THEN addLoyCard(c, r.code).cart
                             ELSE removeLoyCard(c, r.code).cart
        /\ tell(Told(c), r) = IF r.action = "A" THEN tellCard(Told(c), r.code)
                              ELSE tellNoCard(Told(c), r.code)
    BY <1>0, <2>1 DEF replayRow, tell
  <2> QED BY <2>1, <2>2, ToldCard, ToldNoCard
<1>3. CASE r \in [object : {"C"}, action : {"V"}]
  <2>1. /\ replayRow(c, r) = [c EXCEPT !.state = CART_STATE_VOIDED]
        /\ tell(Told(c), r) = tellVoid(Told(c))
    BY <1>0, <1>3 DEF replayRow, tell
  <2> QED BY <2>1, ToldVoid
<1>4. CASE r \in [object : {"K"}, action : {"D"}, code : DepartmentCodes]
  <2>1. r.object = "K" /\ r.action = "D"
    BY <1>4
  <2> QED BY <1>0, <2>1 DEF replayRow, tell
<1>5. CASE r \in [object : {"K"}, action : {"I"}, code : ItemCodes, price : Int]
  <2> DEFINE row == [items_map[r.code] EXCEPT !.price = r.price]
  <2>1. r.object = "K" /\ r.action = "I" /\ r.code \in ItemCodes /\ r.price \in Int
    BY <1>5
  <2>2. row \in ItemRows /\ row.price = r.price
    BY <2>1 DEF ItemRows
  <2>3. tell(Told(c), r) = tellCopy(Told(c), r.code, r.price)
    BY <1>0, <2>1 DEF tell
  <2>4. replayRow(c, r) = IF ~PriceChangesWhileShopping
                          THEN updateLocalItemMap(c, r.code, row).cart ELSE c
    BY <2>1 DEF replayRow
  <2> HIDE DEF row
  <2>5. CASE PriceChangesWhileShopping
    BY <2>3, <2>4, <2>5 DEF tellCopy
  <2>6. CASE ~PriceChangesWhileShopping
    BY <2>1, <2>2, <2>3, <2>4, <2>6, ToldCopy
  <2> QED BY <2>5, <2>6
<1> QED BY <1>1, <1>2, <1>3, <1>4, <1>5 DEF Rows

\* The rows after the one that voids a cart change nothing that is told.
LEMMA ToldReplayVoided ==
    ASSUME NEW c \in Carts, c.state = CART_STATE_VOIDED, Known(c), NEW r \in Rows,
           items_map \in [ItemCodes -> ItemRows]
    PROVE  Told(replayRow(c, r)) = tell(Told(c), r)
<1>1. ~AcceptsChanges(c)
  BY DEF AcceptsChanges, CART_STATE_VOIDED, CART_STATE_TMPFILE_LOADING, CART_STATE_READY_FOR_ITEM
<1>2. tell(Told(c), r) = Told(c)
  BY <1>1, ToldFields DEF tell
<1>3. CASE r.object \in {"I", "L"}
  BY <1>1, <1>2, <1>3 DEF replayRow, addItemByBarcode, removeItemByBarcode, addLoyCard,
                          removeLoyCard, Result
<1>4. CASE r.object = "C"
  <2>1. [c EXCEPT !.state = CART_STATE_VOIDED] = c
    BY DEF Carts
  <2> QED BY <1>2, <1>4, <2>1 DEF replayRow
<1>5. CASE r.object = "K"
  <2> DEFINE row == [items_map[r.code] EXCEPT !.price = r.price]
  <2>1. CASE replayRow(c, r) = c
    BY <1>2, <2>1
  <2>2. CASE /\ r.action = "I" /\ ~PriceChangesWhileShopping
             /\ replayRow(c, r) = updateLocalItemMap(c, r.code, row).cart
    <3>1. r.code \in ItemCodes /\ r.price \in Int
      BY <1>5, <2>2 DEF Rows
    <3>2. row \in ItemRows
      BY <3>1 DEF ItemRows
    <3> HIDE DEF row
    <3> QED BY <1>1, <1>2, <2>2, <3>1, <3>2, ToldCopy
  <2> QED BY <1>5, <2>1, <2>2 DEF replayRow
<1> QED BY <1>3, <1>4, <1>5 DEF Rows

LEMMA KnownReplay ==
    ASSUME NEW c \in Carts, Known(c), NEW r \in Rows, Fit(Told(c), r),
           items_map \in [ItemCodes -> ItemRows]
    PROVE  Known(replayRow(c, r))
<1>1. CASE r \in [object : {"I"}, action : {"A", "V"}, code : Barcodes]
  <2> DEFINE b == r.code
             item == decodeBarcode(b)
             row == items_map[item]
             price == getItemPrice(c, item, row, b)
  <2>1. r.object = "I" /\ b \in Barcodes /\ item \in ItemCodes
    BY <1>1, DecodeBarcodeTyped
  <2>2. CASE ~AcceptsChanges(c)
    BY <2>1, <2>2 DEF replayRow, addItemByBarcode, removeItemByBarcode, Result
  <2>3. CASE AcceptsChanges(c)
    <3>1. Told(c).open /\ Told(c).prices = c.items_local_copy_map
      BY <2>3, ToldFields
    <3>2. ~PriceChangesWhileShopping /\ r.action = "A" => c.items_local_copy_map[item] # NoPrice
      BY <2>1, <3>1 DEF Fit
    <3>3. replayRow(c, r) = IF r.action = "A"
                            THEN addItemByBarcode(c, item, row, b, price, 0).cart
                            ELSE removeItemByBarcode(c, item, row, b, price, 0).cart
      BY <2>1 DEF replayRow
    <3> HIDE DEF item, price, row, b
    <3> QED BY <2>1, <3>2, <3>3, KnownAdd, KnownRemove
  <2> QED BY <2>2, <2>3
<1>2. CASE r.object = "L"
  <2>1. SameGoods(c, addLoyCard(c, r.code).cart)
    BY CardsAssumption DEF addLoyCard, Result, SameGoods, Carts
  <2>2. SameGoods(c, removeLoyCard(c, r.code).cart)
    BY DEF removeLoyCard, Result, SameGoods, Carts
  <2> QED BY <1>2, <2>1, <2>2, KnownSame DEF replayRow
<1>3. CASE r.object = "C"
  <2>1. SameGoods(c, [c EXCEPT !.state = CART_STATE_VOIDED])
    BY DEF SameGoods, Carts
  <2> QED BY <1>3, <2>1, KnownSame DEF replayRow
<1>4. CASE r \in [object : {"K"}, action : {"D"}, code : DepartmentCodes]
  BY <1>4 DEF replayRow
<1>5. CASE r \in [object : {"K"}, action : {"I"}, code : ItemCodes, price : Int]
  <2> DEFINE row == [items_map[r.code] EXCEPT !.price = r.price]
  <2>1. r.object = "K" /\ r.action = "I" /\ r.code \in ItemCodes /\ r.price \in Int
    BY <1>5
  <2>2. row \in ItemRows /\ row.price = r.price
    BY <2>1 DEF ItemRows
  <2>3. replayRow(c, r) = IF ~PriceChangesWhileShopping
                          THEN updateLocalItemMap(c, r.code, row).cart ELSE c
    BY <2>1 DEF replayRow
  <2>4. SteadyBills /\ r.code \in Fixed => r.price = InitialArchive[r.code].price
    BY <2>1 DEF Fit
  <2> HIDE DEF row
  <2> QED BY <2>1, <2>2, <2>3, <2>4, KnownCopy
<1> QED BY <1>1, <1>2, <1>3, <1>4, <1>5 DEF Rows

-----------------------------------------------------------------------------
(* The requests tell what they do. *)

\* The rows of a result tell the cart it leaves, which knows its prices.
Truthful(c, r) == Tells(r.rows, Told(c), Told(r.cart)) /\ Known(r.cart)

LEMMA TruthfulNothing ==
    ASSUME NEW c, Known(c), NEW rc
    PROVE  Truthful(c, Result(c, << >>, rc))
BY TellsNothing DEF Truthful, Result

\* The result of a cart that is not in service: nothing is told.
LEMMA TruthfulUnheard ==
    ASSUME NEW c, NEW d, Known(d), Told(d) = Told(c), NEW rc
    PROVE  Truthful(c, Result(d, << >>, rc))
BY TellsNothing DEF Truthful, Result

\* One row.
LEMMA TruthfulRow ==
    ASSUME NEW c, NEW d, Known(d), NEW row \in Rows, Fit(Told(c), row),
           Told(d) = tell(Told(c), row), NEW rc
    PROVE  Truthful(c, Result(d, <<row>>, rc))
BY TellsRow DEF Truthful, Result

\* One result after the other.
LEMMA TruthfulBoth ==
    ASSUME NEW c, NEW r, ResultTyped(r), Truthful(c, r),
           NEW s, ResultTyped(s), Truthful(r.cart, s), NEW rc
    PROVE  Truthful(c, Result(s.cart, r.rows \o s.rows, rc))
<1>1. r.rows \in Seq(Rows) /\ s.rows \in Seq(Rows)
  BY DEF ResultTyped
<1>2. Tells(r.rows \o s.rows, Told(c), Told(s.cart))
  BY <1>1, TellsBoth DEF Truthful
<1> QED BY <1>2 DEF Truthful, Result

LEMMA ServingAccepts ==
    ASSUME NEW c, c.state = CART_STATE_READY_FOR_ITEM
    PROVE  AcceptsChanges(c)
BY DEF AcceptsChanges

\* A cart the requests find: in service or voided.
Live(c) == c \in Carts /\ c.state \in {CART_STATE_READY_FOR_ITEM, CART_STATE_VOIDED}

LEMMA VoidedRefuses ==
    ASSUME NEW c, c.state = CART_STATE_VOIDED
    PROVE  ~AcceptsChanges(c) /\ c.state # CART_STATE_READY_FOR_ITEM
BY DEF AcceptsChanges, CART_STATE_VOIDED, CART_STATE_TMPFILE_LOADING, CART_STATE_READY_FOR_ITEM

LEMMA TruthfulCopy ==
    ASSUME NEW c, Live(c), Known(c), NEW item \in ItemCodes, RowKept(item, items_map[item])
    PROVE  /\ Truthful(c, remember(c, item))
           /\ ~PriceChangesWhileShopping =>
                 remember(c, item).cart.items_local_copy_map[item] # NoPrice
<1> DEFINE row == items_map[item]
           d == updateLocalItemMap(c, item, row).cart
<1>1. c \in Carts /\ row \in ItemRows /\ row.price \in Int /\ row.department \in DepartmentCodes
  BY DEF Live, RowKept, ItemRows
<1>2. CASE PriceChangesWhileShopping
  BY <1>2, TruthfulNothing DEF remember
<1>3. CASE ~PriceChangesWhileShopping
  <2>1. remember(c, item) = updateLocalItemMap(c, item, row)
    BY <1>3 DEF remember
  <2>2. SteadyBills /\ item \in Fixed => row.price = InitialArchive[item].price
    BY DEF RowKept
  <2> HIDE DEF row
  <2>3. Known(d) /\ d.items_local_copy_map[item] # NoPrice
    BY <1>1, <2>2, KnownCopy
  <2>4. CASE c.items_local_copy_map[item] # NoPrice
    <3>1. updateLocalItemMap(c, item, row) = Result(c, << >>, RC_OK)
      BY <2>4 DEF updateLocalItemMap
    <3> QED BY <2>1, <2>3, <3>1, TruthfulNothing DEF row
  <2>5. CASE c.items_local_copy_map[item] = NoPrice /\ c.state = CART_STATE_VOIDED
    <3>1. updateLocalItemMap(c, item, row) = Result(d, << >>, RC_OK)
      BY <2>5, VoidedRefuses DEF updateLocalItemMap, Journalled, Result
    <3>2. Told(d) = Told(c)
      BY <1>1, <1>3, <2>5, VoidedRefuses, ToldCopy
    <3> QED BY <2>1, <2>3, <3>1, <3>2, TruthfulUnheard DEF row
  <2>6. CASE c.items_local_copy_map[item] = NoPrice /\ c.state = CART_STATE_READY_FOR_ITEM
    <3> DEFINE first == DeptRow(row.department)
               second == LocalRow(item, row.price)
               t == Told(c)
    <3>1. updateLocalItemMap(c, item, row) = Result(d, <<first, second>>, RC_OK)
      BY <2>6 DEF updateLocalItemMap, Journalled, Result
    <3>2. Told(d) = tellCopy(t, item, row.price) /\ t.open = TRUE
      BY <1>1, <1>3, <2>6, ServingAccepts, ToldCopy, ToldFields
    <3>3. first \in Rows /\ first.object = "K" /\ first.action = "D"
      BY <1>1 DEF DeptRow, Rows
    <3>4. /\ second \in Rows /\ second.object = "K" /\ second.action = "I"
          /\ second.code = item /\ second.price = row.price
      BY <1>1 DEF LocalRow, Rows
    <3> HIDE DEF first, second
    <3>5. tell(t, first) = t /\ tell(t, second) = tellCopy(t, item, row.price)
      BY <3>2, <3>3, <3>4 DEF tell
    <3>6. Fit(t, first) /\ Fit(t, second)
      BY <2>2, <3>3, <3>4 DEF Fit
    <3>7. Tells(<<first>>, t, t) /\ Tells(<<second>>, t, Told(d))
      BY <3>2, <3>3, <3>4, <3>5, <3>6, TellsRow
    <3>8. /\ <<first>> \in Seq(Rows) /\ <<second>> \in Seq(Rows)
          /\ <<first>> \o <<second>> = <<first, second>>
      <4>1. <<first>> \in Seq(Rows) /\ <<second>> \in Seq(Rows)
        BY <3>3, <3>4
      <4>2. <<first>> \o <<second>> = <<first, second>>
        BY <3>3, <3>4, TwoInARow
      <4> QED BY <4>1, <4>2
    <3>9. Tells(<<first>> \o <<second>>, t, Told(d))
      BY <3>7, <3>8, TellsBoth
    <3>10. LET r == Result(d, <<first, second>>, RC_OK) IN r.cart = d /\ r.rows = <<first, second>>
      BY DEF Result
    <3>11. remember(c, item).cart = d /\ remember(c, item).rows = <<first>> \o <<second>>
      BY <2>1, <3>1, <3>8, <3>10 DEF row
    <3> QED BY <2>3, <3>9, <3>11 DEF Truthful
  <2> QED BY <2>4, <2>5, <2>6 DEF Live
<1> QED BY <1>2, <1>3

LEMMA TruthfulAdd ==
    ASSUME NEW c, Live(c), Known(c), NEW b \in Barcodes, NEW item \in ItemCodes,
           item = decodeBarcode(b), NEW row, RowKept(item, row),
           NEW price \in Int, NEW discount \in Int,
           ~PriceChangesWhileShopping => c.items_local_copy_map[item] # NoPrice,
           SteadyBills /\ AcceptsChanges(c) => price = ToldPrice(Told(c), b)
    PROVE  Truthful(c, addItemByBarcode(c, item, row, b, price, discount))
<1> DEFINE r == addItemByBarcode(c, item, row, b, price, discount)
           line == ItemRow("A", b)
<1>1. c \in Carts /\ Known(r.cart)
  BY KnownAdd DEF Live
<1>2. CASE c.state = CART_STATE_VOIDED
  <2>1. r = Result(c, << >>, c.state)
    BY <1>2, VoidedRefuses DEF addItemByBarcode
  <2> QED BY <2>1, TruthfulNothing
<1>3. CASE c.state = CART_STATE_READY_FOR_ITEM
  <2>1. AcceptsChanges(c) /\ Told(c).open = TRUE /\ Told(c).prices = c.items_local_copy_map
    BY <1>3, ServingAccepts, ToldFields
  <2>2. r.rows = <<line>>
    BY <1>3, <2>1 DEF addItemByBarcode, Result, Journalled
  <2>3. Told(r.cart) = tellAdd(Told(c), b)
    BY <1>1, <2>1, ToldAdd
  <2>4. line \in Rows /\ line.object = "I" /\ line.action = "A" /\ line.code = b
    BY DEF ItemRow, Rows
  <2> HIDE DEF line, r
  <2>5. tell(Told(c), line) = tellAdd(Told(c), b)
    BY <2>1, <2>4 DEF tell
  <2>6. Fit(Told(c), line)
    BY <2>1, <2>4 DEF Fit
  <2>7. Tells(<<line>>, Told(c), Told(r.cart))
    BY <2>3, <2>4, <2>5, <2>6, TellsRow
  <2> QED BY <1>1, <2>2, <2>7 DEF Truthful, r
<1> QED BY <1>2, <1>3 DEF Live

LEMMA TruthfulRemove ==
    ASSUME NEW c, Live(c), Known(c), NEW b \in Barcodes, NEW item \in ItemCodes,
           item = decodeBarcode(b), NEW row, RowKept(item, row), NEW price \in Int,
           SteadyBills /\ AcceptsChanges(c) /\ c.cart_items_map[item] # 0
               => price = ToldPrice(Told(c), b)
    PROVE  Truthful(c, removeItemByBarcode(c, item, row, b, price, 0))
<1> DEFINE r == removeItemByBarcode(c, item, row, b, price, 0)
           line == ItemRow("V", b)
<1>1. c \in Carts /\ Known(r.cart)
  BY KnownRemove DEF Live
<1>2. CASE c.state = CART_STATE_VOIDED
  <2>1. r = Result(c, << >>, c.state)
    BY <1>2, VoidedRefuses DEF removeItemByBarcode
  <2> QED BY <2>1, TruthfulNothing
<1>3. CASE c.state = CART_STATE_READY_FOR_ITEM /\ c.cart_items_map[item] = 0
  <2>1. r = Result(c, << >>, RC_OK)
    BY <1>3, ServingAccepts DEF removeItemByBarcode
  <2> QED BY <2>1, TruthfulNothing
<1>4. CASE c.state = CART_STATE_READY_FOR_ITEM /\ c.cart_items_map[item] # 0
  <2>1. /\ AcceptsChanges(c) /\ Told(c).open = TRUE /\ Told(c).prices = c.items_local_copy_map
        /\ Told(c).items = c.cart_items_map
    BY <1>4, ServingAccepts, ToldFields
  <2>2. r.rows = <<line>>
    BY <1>4, <2>1 DEF removeItemByBarcode, Result, Journalled
  <2>3. Told(r.cart) = tellRemove(Told(c), b)
    BY <1>1, <2>1, ToldRemove
  <2>4. line \in Rows /\ line.object = "I" /\ line.action = "V" /\ line.code = b
    BY DEF ItemRow, Rows
  <2> HIDE DEF line, r
  <2>5. tell(Told(c), line) = tellRemove(Told(c), b)
    BY <2>1, <2>4 DEF tell
  <2>6. Fit(Told(c), line)
    BY <1>4, <2>1, <2>4 DEF Fit, Known
  <2>7. Tells(<<line>>, Told(c), Told(r.cart))
    BY <2>3, <2>4, <2>5, <2>6, TellsRow
  <2> QED BY <1>1, <2>2, <2>7 DEF Truthful, r
<1> QED BY <1>2, <1>3, <1>4 DEF Live

LEMMA StillLive ==
    ASSUME NEW c, Live(c), NEW r, ResultTyped(r), Quiet(c, r)
    PROVE  Live(r.cart)
BY DEF Live, ResultTyped, Quiet

LEMMA TruthfulScan ==
    ASSUME NEW c, Live(c), Known(c), NEW b \in Barcodes, decodeBarcode(b) # NoItem,
           items_map \in [ItemCodes -> ItemRows], ArchiveKept(items_map)
    PROVE  Truthful(c, addScanned(c, b))
<1> DEFINE item == decodeBarcode(b)
           row == items_map[item]
           known == remember(c, item)
           price == getItemPrice(known.cart, item, row, b)
           discount == promoValue(item, price)
           added == addItemByBarcode(known.cart, item, row, b, price, discount)
<1>1. item \in ItemCodes /\ item \in Items /\ RowKept(item, row) /\ row \in ItemRows /\ c \in Carts
  BY DecodeBarcodeTyped DEF ItemCodes, ArchiveKept, Live
<1>2. ResultTyped(known) /\ Quiet(c, known)
  BY <1>1, RememberResult
<1>3. Truthful(c, known) /\ Live(known.cart)
  BY <1>1, <1>2, TruthfulCopy, StillLive
<1>4. ~PriceChangesWhileShopping => known.cart.items_local_copy_map[item] # NoPrice
  BY <1>1, TruthfulCopy
<1>5. Known(known.cart) /\ known.cart \in Carts
  BY <1>3 DEF Truthful, Live
<1>6. addScanned(c, b) = Result(added.cart, known.rows \o added.rows, added.rc)
  BY DEF addScanned
<1>7. item = decodeBarcode(b)
  OBVIOUS
<1> HIDE DEF known, row, item
<1>8. price \in Int
  BY <1>1, <1>5, GetItemPriceInt
<1>9. discount \in Int
  <2> HIDE DEF price
  <2> QED BY <1>1, <1>8, PromoValueInt
<1>10. SteadyBills /\ AcceptsChanges(known.cart) => price = ToldPrice(Told(known.cart), b)
  BY <1>1, <1>4, <1>5, <1>7, PriceIsTold
<1> HIDE DEF price, discount
<1>11. ResultTyped(added)
  BY <1>1, <1>5, <1>8, <1>9, AddItemResult
<1>12. Truthful(known.cart, added)
  BY <1>1, <1>3, <1>4, <1>5, <1>7, <1>8, <1>9, <1>10, TruthfulAdd
<1> HIDE DEF added
<1>13. Truthful(c, Result(added.cart, known.rows \o added.rows, added.rc))
  BY <1>2, <1>3, <1>11, <1>12, TruthfulBoth
<1> QED BY <1>6, <1>13

\* A deposit is named by a barcode without a price.
PlainDeposit(b) ==
    /\ b \in Barcodes /\ barcode_type[b] # "EAN13_PRICE_REQ"
    /\ item_of[b] = decodeBarcode(b) /\ item_of[b] \in Fixed

LEMMA LinkedDeposit ==
    ASSUME PlainLinks, NEW item \in ItemCodes, NEW row, RowKept(item, row), row.linked # NoBarcode
    PROVE  PlainDeposit(row.linked)
<1>1. row.linked = InitialArchive[item].linked /\ row.linked \in Barcodes
  BY DEF RowKept, ItemRows
<1>2. barcode_type[row.linked] # "EAN13_PRICE_REQ"
  BY <1>1 DEF PlainLinks
<1>3. item_of[row.linked] \in Fixed
  BY <1>1 DEF Fixed, Deposits
<1> QED BY <1>1, <1>2, <1>3 DEF PlainDeposit, decodeBarcode

\* The price of a deposit is the archive's, which is what its copy says.
LEMMA DepositIsTold ==
    ASSUME NEW c \in Carts, AcceptsChanges(c), Known(c), NEW b, PlainDeposit(b),
           NEW row, RowKept(item_of[b], row), SteadyBills,
           ~PriceChangesWhileShopping => c.items_local_copy_map[item_of[b]] # NoPrice
    PROVE  row.price = ToldPrice(Told(c), b)
<1>1. Told(c).prices = c.items_local_copy_map
  BY ToldFields
<1>2. row.price = InitialArchive[item_of[b]].price
  BY DEF RowKept, PlainDeposit
<1> QED BY <1>1, <1>2 DEF ToldPrice, PlainDeposit, Known

LEMMA TruthfulLinked ==
    ASSUME NEW c, Live(c), Known(c), NEW b, PlainDeposit(b),
           items_map \in [ItemCodes -> ItemRows], ArchiveKept(items_map)
    PROVE  Truthful(c, addLinked(c, b))
<1> DEFINE item == item_of[b]
           row == items_map[item]
           known == remember(c, item)
           added == addItemByBarcode(known.cart, item, row, b, row.price, 0)
<1>1. /\ b \in Barcodes /\ item \in ItemCodes /\ RowKept(item, row) /\ row \in ItemRows
      /\ row.price \in Int /\ c \in Carts /\ item = decodeBarcode(b)
  BY DecodeBarcodeTyped DEF ArchiveKept, Live, ItemRows, PlainDeposit
<1>2. ResultTyped(known) /\ Quiet(c, known)
  BY <1>1, RememberResult
<1>3. Truthful(c, known) /\ Live(known.cart)
  BY <1>1, <1>2, TruthfulCopy, StillLive
<1>4. ~PriceChangesWhileShopping => known.cart.items_local_copy_map[item] # NoPrice
  BY <1>1, TruthfulCopy
<1>5. Known(known.cart) /\ known.cart \in Carts
  BY <1>3 DEF Truthful, Live
<1>6. addLinked(c, b) = Result(added.cart, known.rows \o added.rows, added.rc)
  BY DEF addLinked
<1> HIDE DEF known, row
<1>7. SteadyBills /\ AcceptsChanges(known.cart) => row.price = ToldPrice(Told(known.cart), b)
  BY <1>1, <1>4, <1>5, DepositIsTold
<1>8. 0 \in Int
  OBVIOUS
<1> HIDE DEF item
<1>9. ResultTyped(added)
  BY <1>1, <1>5, <1>8, AddItemResult
<1>10. Truthful(known.cart, added)
  BY <1>1, <1>3, <1>4, <1>5, <1>7, <1>8, TruthfulAdd
<1> HIDE DEF added
<1>11. Truthful(c, Result(added.cart, known.rows \o added.rows, added.rc))
  BY <1>2, <1>3, <1>9, <1>10, TruthfulBoth
<1> QED BY <1>6, <1>11

LEMMA TruthfulItemAdd ==
    ASSUME NEW c, Live(c), Known(c), NEW b \in Barcodes, PlainLinks,
           items_map \in [ItemCodes -> ItemRows], ArchiveKept(items_map)
    PROVE  Truthful(c, itemAdd(c, b))
<1> DEFINE item == decodeBarcode(b)
           row == items_map[item]
           main == addScanned(c, b)
           pair == addLinked(main.cart, row.linked)
<1>1. CASE barcode_type[b] = "NOT_RECOGNIZED" \/ item = NoItem
  <2>1. \E rc : itemAdd(c, b) = Result(c, << >>, rc)
    BY <1>1 DEF itemAdd
  <2> QED BY <2>1, TruthfulNothing
<1>2. CASE barcode_type[b] # "NOT_RECOGNIZED" /\ item # NoItem
  <2>1. c \in Carts /\ item \in ItemCodes /\ RowKept(item, row)
    BY DecodeBarcodeTyped DEF Live, ArchiveKept
  <2>2. ResultTyped(main) /\ Quiet(c, main) /\ Truthful(c, main)
    BY <1>2, <2>1, AddScannedResult, TruthfulScan
  <2>3. Live(main.cart) /\ Known(main.cart) /\ main.cart \in Carts
    BY <2>2, StillLive DEF Truthful, ResultTyped
  <2> HIDE DEF main, row
  <2>4. CASE main.rc = RC_OK /\ row.linked # NoBarcode
    <3>1. PlainDeposit(row.linked)
      BY <2>1, <2>4, LinkedDeposit
    <3>2. Truthful(main.cart, pair)
      BY <2>3, <3>1, TruthfulLinked
    <3>3. ResultTyped(pair)
      BY <2>3, <3>1, AddLinkedResult DEF PlainDeposit
    <3>4. itemAdd(c, b) = Result(pair.cart, main.rows \o pair.rows, main.rc)
      BY <1>2, <2>4 DEF itemAdd, andThen, main, row
    <3> HIDE DEF pair
    <3> QED BY <2>2, <3>2, <3>3, <3>4, TruthfulBoth
  <2>5. CASE ~(main.rc = RC_OK /\ row.linked # NoBarcode)
    <3>1. itemAdd(c, b) = main
      BY <1>2, <2>5 DEF itemAdd, main, row
    <3> QED BY <2>2, <3>1
  <2> QED BY <2>4, <2>5
<1> QED BY <1>1, <1>2

LEMMA TruthfulItemVoid ==
    ASSUME NEW c, Live(c), Known(c), NEW b \in Barcodes, PlainLinks,
           items_map \in [ItemCodes -> ItemRows], ArchiveKept(items_map)
    PROVE  Truthful(c, itemVoid(c, b))
<1> DEFINE item == decodeBarcode(b)
           row == items_map[item]
           price == getItemPrice(c, item, row, b)
           main == removeItemByBarcode(c, item, row, b, price, 0)
           other == item_of[row.linked]
           pair == removeItemByBarcode(main.cart, other, items_map[other], row.linked,
                                       items_map[other].price, 0)
<1>1. /\ c \in Carts /\ item \in ItemCodes /\ RowKept(item, row) /\ row \in ItemRows
      /\ item = decodeBarcode(b) /\ 0 \in Int
  BY DecodeBarcodeTyped DEF Live, ArchiveKept
<1>2. itemVoid(c, b) = IF main.rc = RC_OK /\ row.linked # NoBarcode
                       THEN Result(pair.cart, main.rows \o pair.rows, main.rc)
                       ELSE main
  BY DEF itemVoid, andThen
<1> HIDE DEF item, row
<1>3. price \in Int
  BY <1>1, GetItemPriceInt
<1>4. SteadyBills /\ AcceptsChanges(c) /\ c.cart_items_map[item] # 0
          => price = ToldPrice(Told(c), b)
  BY <1>1, PriceIsTold DEF Known
<1> HIDE DEF price
<1>5. ResultTyped(main) /\ Quiet(c, main)
  BY <1>1, <1>3, RemoveItemResult
<1>6. Truthful(c, main)
  BY <1>1, <1>3, <1>4, TruthfulRemove
<1>7. Live(main.cart) /\ Known(main.cart) /\ main.cart \in Carts
  BY <1>5, <1>6, StillLive DEF Truthful, ResultTyped
<1> HIDE DEF main
<1>8. CASE main.rc = RC_OK /\ row.linked # NoBarcode
  <2>1. PlainDeposit(row.linked)
    BY <1>1, <1>8, LinkedDeposit
  <2>2. /\ row.linked \in Barcodes /\ other \in ItemCodes /\ other = decodeBarcode(row.linked)
        /\ RowKept(other, items_map[other])
        /\ items_map[other] \in ItemRows /\ items_map[other].price \in Int
    BY <2>1, DecodeBarcodeTyped DEF PlainDeposit, ArchiveKept, ItemRows
  <2>3. SteadyBills /\ AcceptsChanges(main.cart) /\ main.cart.cart_items_map[other] # 0
            => items_map[other].price = ToldPrice(Told(main.cart), row.linked)
    <3> SUFFICES ASSUME SteadyBills, AcceptsChanges(main.cart), main.cart.cart_items_map[other] # 0
                 PROVE  items_map[other].price = ToldPrice(Told(main.cart), row.linked)
      OBVIOUS
    <3>1. ~PriceChangesWhileShopping => main.cart.items_local_copy_map[other] # NoPrice
      BY <1>7, <2>2 DEF Known
    <3> QED BY <1>7, <2>1, <2>2, <3>1, DepositIsTold
  <2> HIDE DEF other
  <2>4. ResultTyped(pair)
    BY <1>1, <1>7, <2>2, RemoveItemResult
  <2>5. Truthful(main.cart, pair)
    BY <1>7, <2>2, <2>3, TruthfulRemove
  <2> HIDE DEF pair
  <2>6. Truthful(c, Result(pair.cart, main.rows \o pair.rows, main.rc))
    BY <1>5, <1>6, <2>4, <2>5, TruthfulBoth
  <2> QED BY <1>2, <1>8, <2>6
<1>9. CASE ~(main.rc = RC_OK /\ row.linked # NoBarcode)
  BY <1>2, <1>6, <1>9
<1> QED BY <1>8, <1>9

LEMMA TruthfulCards ==
    ASSUME NEW c, Live(c), Known(c), NEW card \in Cards
    PROVE  Truthful(c, addLoyCard(c, card)) /\ Truthful(c, removeLoyCard(c, card))
<1>0. c \in Carts
  BY DEF Live
<1>1. Truthful(c, addLoyCard(c, card))
  <2> DEFINE r == addLoyCard(c, card)
             line == CardRow("A", card)
  <2>1. CASE \E rc : r = Result(c, << >>, rc)
    BY <2>1, TruthfulNothing
  <2>2. CASE ~\E rc : r = Result(c, << >>, rc)
    <3>1. AcceptsChanges(c) /\ r.rows = Journalled(c, <<line>>)
      <4>1. c.loy_cards_number \in Int /\ MaxCards \in Int
        BY <1>0, CardsAssumption DEF Carts
      <4>2. \/ r = Result(c, << >>, c.state) \/ r = Result(c, << >>, RC_OK)
            \/ r = Result(c, << >>, RC_LOY_CARD_ALREADY_PRESENT)
            \/ AcceptsChanges(c) /\ r.rows = Journalled(c, <<line>>)
        BY <4>1 DEF addLoyCard, Result
      <4> QED BY <2>2, <4>2
    <3>2. r.rows = <<line>> /\ Told(c).open = TRUE
      BY <3>1, VoidedRefuses, ToldFields DEF Live, Journalled
    <3>3. Told(r.cart) = tellCard(Told(c), card)
      BY <1>0, <3>1, ToldCard
    <3>4. Known(r.cart)
      <4>1. SameGoods(c, r.cart)
        BY <1>0, CardsAssumption DEF addLoyCard, Result, SameGoods, Carts
      <4> QED BY <4>1, KnownSame
    <3>5. line \in Rows /\ line.object = "L" /\ line.action = "A" /\ line.code = card
      BY DEF CardRow, Rows
    <3> HIDE DEF line, r
    <3>6. tell(Told(c), line) = tellCard(Told(c), card) /\ Fit(Told(c), line)
      BY <3>2, <3>5 DEF tell, Fit
    <3>7. Tells(<<line>>, Told(c), Told(r.cart))
      BY <3>3, <3>5, <3>6, TellsRow
    <3> QED BY <3>2, <3>4, <3>7 DEF Truthful, r
  <2> QED BY <2>1, <2>2
<1>2. Truthful(c, removeLoyCard(c, card))
  <2> DEFINE r == removeLoyCard(c, card)
             line == CardRow("V", card)
  <2>1. CASE \E rc : r = Result(c, << >>, rc)
    BY <2>1, TruthfulNothing
  <2>2. CASE ~\E rc : r = Result(c, << >>, rc)
    <3>1. AcceptsChanges(c) /\ r.rows = Journalled(c, <<line>>)
      BY <1>0, <2>2 DEF removeLoyCard, Result
    <3>2. r.rows = <<line>> /\ Told(c).open = TRUE
      BY <3>1, VoidedRefuses, ToldFields DEF Live, Journalled
    <3>3. Told(r.cart) = tellNoCard(Told(c), card)
      BY <1>0, <3>1, ToldNoCard
    <3>4. Known(r.cart)
      <4>1. SameGoods(c, r.cart)
        BY <1>0 DEF removeLoyCard, Result, SameGoods, Carts
      <4> QED BY <4>1, KnownSame
    <3>5. line \in Rows /\ line.object = "L" /\ line.action = "V" /\ line.code = card
      BY DEF CardRow, Rows
    <3> HIDE DEF line, r
    <3>6. tell(Told(c), line) = tellNoCard(Told(c), card) /\ Fit(Told(c), line)
      BY <3>2, <3>5 DEF tell, Fit
    <3>7. Tells(<<line>>, Told(c), Told(r.cart))
      BY <3>3, <3>5, <3>6, TellsRow
    <3> QED BY <3>2, <3>4, <3>7 DEF Truthful, r
  <2> QED BY <2>1, <2>2
<1> QED BY <1>1, <1>2

LEMMA TruthfulVoid ==
    ASSUME NEW c, Live(c), Known(c)
    PROVE  Truthful(c, voidAllCart(c))
<1> DEFINE d == [c EXCEPT !.state = CART_STATE_VOIDED]
           t == Told(c)
<1>0. c \in Carts
  BY DEF Live
<1>1. CASE c.state = CART_STATE_VOIDED
  <2>1. voidAllCart(c) = Result(c, << >>, c.state)
    BY <1>1 DEF voidAllCart
  <2> QED BY <2>1, TruthfulNothing
<1>2. CASE c.state = CART_STATE_READY_FOR_ITEM
  <2>1. voidAllCart(c) = Result(d, <<VoidRow>>, RC_OK)
    BY <1>2 DEF voidAllCart, CART_STATE_READY_FOR_ITEM, CART_STATE_VOIDED, CART_STATE_CLOSED
  <2>2. Told(d) = tellVoid(t) /\ t.open = TRUE
    BY <1>0, <1>2, ServingAccepts, ToldVoid, ToldFields
  <2>3. SameGoods(c, d)
    BY <1>0 DEF SameGoods, Carts
  <2>4. Known(d)
    BY <2>3, KnownSame
  <2>5. VoidRow \in Rows /\ VoidRow.object = "C"
    BY DEF VoidRow, Rows
  <2> HIDE DEF d, t
  <2>6. tell(t, VoidRow) = tellVoid(t) /\ Fit(t, VoidRow)
    BY <2>2, <2>5 DEF tell, Fit
  <2> QED BY <2>1, <2>2, <2>4, <2>5, <2>6, TruthfulRow DEF t
<1> QED BY <1>1, <1>2 DEF Live

-----------------------------------------------------------------------------
(* The inductive invariant *)

\* The cart being loaded is as far in the story of its file as its rows are.
Halfway(n) ==
    \E s : /\ Story(s, journal[n]) /\ s[0] = Blank
           /\ load.row - 1 \in 0 .. Len(journal[n])
           /\ s[load.row - 1] = Told(carts_map[n])

\* Every file tells something, and the file of a cart that is not being loaded
\* tells that cart.
TaleInv ==
    /\ ArchiveKept(items_map) /\ ArchiveKept(items_csv)
    /\ \A n \in CartNumbers : \E t : Tells(journal[n], Blank, t)
    /\ \A n \in sessions : Known(carts_map[n])
    /\ mode = "down" => sessions = {}
    /\ mode = "running" => \A n \in sessions : Tells(journal[n], Blank, Told(carts_map[n]))
    /\ mode = "loading" =>
          /\ \A n \in sessions \ {load.file} : Tells(journal[n], Blank, Told(carts_map[n]))
          /\ load.file # NoCart => Halfway(load.file)

LEMMA BlankTold ==
    ASSUME NEW state \in {CART_STATE_READY_FOR_ITEM, CART_STATE_TMPFILE_LOADING}
    PROVE  Told(NewCart(state)) = Blank
<1>1. AcceptsChanges(NewCart(state)) = TRUE /\ AcceptsChanges(NewCart(CART_STATE_READY_FOR_ITEM)) = TRUE
  BY DEF AcceptsChanges, NewCart
<1>2. Gross(NewCart(state)) = Gross(NewCart(CART_STATE_READY_FOR_ITEM))
  BY DEF Gross, NewCart
<1> QED BY <1>1, <1>2 DEF Blank, Told, NewCart

LEMMA ReopenedTold ==
    ASSUME NEW c \in Carts
    PROVE  /\ Known(c) => Known(reopened(c))
           /\ c.state \in {CART_STATE_TMPFILE_LOADING, CART_STATE_VOIDED} =>
                 Told(reopened(c)) = Told(c)
<1> DEFINE d == [c EXCEPT !.state = CART_STATE_READY_FOR_ITEM]
<1>1. SameGoods(c, d) /\ SameGoods(c, c)
  BY DEF SameGoods, Carts
<1>2. reopened(c) \in {c, d}
  BY DEF reopened
<1>3. Known(c) => Known(reopened(c))
  BY <1>1, <1>2, KnownSame
<1>4. CASE c.state = CART_STATE_VOIDED
  <2>1. reopened(c) = c
    BY <1>4 DEF reopened
  <2> QED BY <1>3, <2>1
<1>5. CASE c.state = CART_STATE_TMPFILE_LOADING
  <2>1. reopened(c) = d
    BY <1>5 DEF reopened, CART_STATE_TMPFILE_LOADING, CART_STATE_VOIDED, CART_STATE_CLOSED
  <2>2. /\ d.loy_cards_map = c.loy_cards_map /\ d.loy_cards_number = c.loy_cards_number
        /\ d.totals_map = c.totals_map /\ d.items_number = c.items_number
        /\ d.cart_items_map = c.cart_items_map /\ d.barcodes_map = c.barcodes_map
        /\ d.items_local_copy_map = c.items_local_copy_map
        /\ d.state = CART_STATE_READY_FOR_ITEM
    BY DEF Carts
  <2> HIDE DEF d
  <2>3. AcceptsChanges(d) = TRUE /\ AcceptsChanges(c) = TRUE /\ Gross(d) = Gross(c)
    BY <1>5, <2>2 DEF AcceptsChanges, Gross
  <2>4. Told(d) = Told(c)
    BY <2>2, <2>3 DEF Told
  <2> QED BY <1>3, <2>1, <2>4
<1> QED BY <1>3, <1>4, <1>5

LEMMA VariationKept ==
    ASSUME NEW v \in Variations
    PROVE  /\ v.code \in ItemCodes
           /\ RowKept(v.code, [price |-> v.price, department |-> v.department, linked |-> NoBarcode])
<1>1. v \in [code : Items, price : Int, department : Departments]
  BY BaseSystemAssumption
<1> DEFINE row == [price |-> v.price, department |-> v.department, linked |-> NoBarcode]
<1>2. row \in ItemRows /\ v.code \in ItemCodes
  BY <1>1 DEF ItemRows, DepartmentCodes, ItemCodes
<1>3. row.price = v.price /\ row.department = v.department /\ row.linked = NoBarcode
  OBVIOUS
<1> HIDE DEF row
<1>4. RowKept(v.code, row)
  <2>1. v.code # NoItem
    BY <1>1, CatalogueAssumption
  <2> QED BY <1>2, <1>3, <2>1 DEF RowKept, SteadyBills, Fixed
<1> QED BY <1>2, <1>4 DEF row

LEMMA InitTale == Init => TaleInv
<1> SUFFICES ASSUME Init PROVE TaleInv
  OBVIOUS
<1>1. ArchiveKept(InitialArchive)
  BY BaseSystemAssumption DEF ArchiveKept, RowKept
<1>2. \A n \in CartNumbers : journal[n] = << >>
  BY DEF Init
<1> QED BY <1>1, <1>2, TellsNothing DEF Init, TaleInv

\* In a running server every cart is live.
LEMMA SessionsLive ==
    ASSUME IInv, TaleInv, mode = "running", NEW n \in sessions
    PROVE  /\ Live(carts_map[n]) /\ Known(carts_map[n])
           /\ items_map \in [ItemCodes -> ItemRows] /\ ArchiveKept(items_map)
BY DEF IInv, TypeOK, VoidInv, Settled, Live, TaleInv

LEMMA ItemTale ==
    ASSUME IInv, TaleInv, PlainLinks, mode = "running", NEW n \in sessions, NEW b \in Barcodes
    PROVE  Truthful(carts_map[n], itemAdd(carts_map[n], b))
           /\ Truthful(carts_map[n], itemVoid(carts_map[n], b))
BY SessionsLive, TruthfulItemAdd, TruthfulItemVoid

LEMMA CardTale ==
    ASSUME IInv, TaleInv, mode = "running", NEW n \in sessions, NEW card \in Cards
    PROVE  Truthful(carts_map[n], customerAdd(n, card))
           /\ Truthful(carts_map[n], removeLoyCard(carts_map[n], card))
BY SessionsLive, TruthfulCards, TruthfulNothing DEF customerAdd

LEMMA StateTale ==
    ASSUME IInv, TaleInv, mode = "running", NEW n \in sessions
    PROVE  Truthful(carts_map[n], voidAllCart(carts_map[n]))
           /\ \A rc : Truthful(carts_map[n], Result(carts_map[n], << >>, rc))
BY SessionsLive, TruthfulVoid, TruthfulNothing

LEMMA RequestTale ==
    ASSUME IInv, TaleInv, PlainLinks, NEW n \in CartNumbers, CartRequest(n)
    PROVE  \E r : RequestResult(n, r) /\ Handle(n, r) /\ Truthful(carts_map[n], r)
<1>0. TypeOK
  BY DEF IInv
<1>1. ASSUME NEW r, Handle(n, r) PROVE mode = "running" /\ n \in sessions
  BY <1>1 DEF Handle, Serves
<1>2. ASSUME NEW b \in Barcodes, ItemAdd(n, b) \/ ItemVoid(n, b)
      PROVE  \E r : RequestResult(n, r) /\ Handle(n, r) /\ Truthful(carts_map[n], r)
  BY <1>0, <1>1, <1>2, ItemRequest, ItemTale DEF ItemAdd, ItemVoid
<1>3. ASSUME NEW card \in Cards, CustomerAdd(n, card) \/ CustomerVoid(n, card)
      PROVE  \E r : RequestResult(n, r) /\ Handle(n, r) /\ Truthful(carts_map[n], r)
  <2>1. CASE CustomerAdd(n, card)
    <3>1. Handle(n, customerAdd(n, card))
      BY <2>1 DEF CustomerAdd
    <3> QED BY <1>0, <1>1, <3>1, CardRequest, CardTale
  <2>2. CASE CustomerVoid(n, card)
    <3>1. Handle(n, removeLoyCard(carts_map[n], card))
      BY <2>2 DEF CustomerVoid
    <3> QED BY <1>0, <1>1, <3>1, CardRequest, CardTale
  <2> QED BY <1>3, <2>1, <2>2
<1>4. ASSUME NEW rc \in Nat, Handle(n, Result(carts_map[n], << >>, rc))
      PROVE  \E r : RequestResult(n, r) /\ Handle(n, r) /\ Truthful(carts_map[n], r)
  BY <1>0, <1>1, <1>4, StateRequest, StateTale
<1>5. ASSUME NEW till \in Tills, SessionEnd(n, till)
      PROVE  \E r : RequestResult(n, r) /\ Handle(n, r) /\ Truthful(carts_map[n], r)
  <2>1. \/ Handle(n, Result(carts_map[n], << >>, RC_OK))
        \/ Handle(n, Result(carts_map[n], << >>, carts_map[n].state))
    BY <1>5 DEF SessionEnd
  <2> QED BY <1>0, <1>4, <2>1, StateRequest
<1>6. CASE SessionVoid(n)
  BY <1>0, <1>1, <1>6, StateRequest, StateTale DEF SessionVoid
<1>7. CASE CartQuery(n)
  BY <1>0, <1>4, <1>7, StateRequest DEF CartQuery, ManageRescan, GetTotals, GetAllCart, CartAnswers
<1> QED BY <1>2, <1>3, <1>5, <1>6, <1>7 DEF CartRequest

LEMMA DyingTale ==
    ASSUME IInv, TaleInv, PlainLinks, DieInRequest
    PROVE  \E n \in CartNumbers : \E r :
              RequestResult(n, r) /\ DieWhile(n, r) /\ Truthful(carts_map[n], r)
<1>0. TypeOK
  BY DEF IInv
<1>1. ASSUME NEW n, NEW r, DieWhile(n, r) PROVE mode = "running" /\ n \in sessions
  BY <1>1 DEF DieWhile, Serves
<1> QED BY <1>0, <1>1, ItemRequest, CardRequest, StateRequest, ItemTale, CardTale, StateTale
        DEF DieInRequest

\* A process that ends or starts has no carts in memory.
LEMMA EmptyTale ==
    ASSUME TaleInv, EmptyMemory, items_csv' = items_csv, mode' \in {"down", "loading"},
           load'.file = NoCart, \A n \in CartNumbers : \E t : Tells(journal'[n], Blank, t)
    PROVE  TaleInv'
BY DEF TaleInv, EmptyMemory

LEMMA TaleStep ==
    ASSUME IInv, TaleInv, PlainLinks, [Next]_vars
    PROVE  TaleInv'
<1> USE DEF memory, disk
<1>0. /\ TypeOK /\ LoaderInv /\ VoidInv
      /\ NoCart \notin CartNumbers
  BY BaseSystemAssumption DEF IInv
<1>a. ASSUME UNCHANGED <<mode, carts_map, sessions, journal, load>>,
             ArchiveKept(items_map)', ArchiveKept(items_csv)'
      PROVE  TaleInv'
  BY <1>a DEF TaleInv, Halfway
<1>1. CASE Start \/ Crash
  <2>1. EmptyMemory /\ mode' \in {"down", "loading"} /\ UNCHANGED <<items_csv, journal>>
    BY <1>1 DEF Start, Crash
  <2>2. load'.file = NoCart
    BY <1>1 DEF Start, Crash, NothingToLoad
  <2>3. \A n \in CartNumbers : \E t : Tells(journal'[n], Blank, t)
    BY <2>1 DEF TaleInv
  <2> QED BY <2>1, <2>2, <2>3, EmptyTale
<1>2. ASSUME NEW n \in CartNumbers, OpenFile(n) PROVE TaleInv'
  <2>1. /\ mode = "loading" /\ load.file = NoCart /\ n \in load.todo
        /\ mode' = "loading" /\ load'.file = n /\ load'.row = 1
        /\ sessions' = sessions \cup {n}
        /\ carts_map' = [carts_map EXCEPT ![n] = NewCart(CART_STATE_TMPFILE_LOADING)]
        /\ UNCHANGED <<journal, items_map, items_csv>>
    BY <1>2 DEF OpenFile
  <2>2. carts_map'[n] = NewCart(CART_STATE_TMPFILE_LOADING)
    BY <1>0, <2>1 DEF TypeOK
  <2>3. Told(carts_map'[n]) = Blank /\ Known(carts_map'[n])
    BY <2>2, BlankTold, KnownNew
  <2>4. Halfway(n)'
    <3>1. PICK t : Tells(journal[n], Blank, t)
      BY DEF TaleInv
    <3>2. PICK s : Story(s, journal[n]) /\ s[0] = Blank
      BY <3>1 DEF Tells
    <3>3. load'.row - 1 = 0 /\ 0 \in 0 .. Len(journal[n])
      BY <1>0, <2>1 DEF TypeOK
    <3>4. Story(s, journal'[n]) /\ 0 \in 0 .. Len(journal'[n])
      BY <2>1, <3>2, <3>3
    <3> QED BY <2>3, <3>2, <3>3, <3>4 DEF Halfway
  <2>5. ASSUME NEW m \in sessions' \ {n}
        PROVE  carts_map'[m] = carts_map[m] /\ m \in sessions \ {load.file}
    BY <1>0, <2>1 DEF TypeOK
  <2>6. \A m \in sessions' : Known(carts_map'[m])
    BY <2>3, <2>5 DEF TaleInv
  <2>7. \A m \in sessions' \ {n} : Tells(journal'[m], Blank, Told(carts_map'[m]))
    BY <2>1, <2>5 DEF TaleInv
  <2> QED BY <2>1, <2>4, <2>6, <2>7 DEF TaleInv
<1>3. ASSUME NEW n \in CartNumbers, LoadRow(n) PROVE TaleInv'
  <2> DEFINE c == carts_map[n]
             r == journal[n][load.row]
  <2>1. /\ mode = "loading" /\ load.file = n /\ load.row <= Len(journal[n])
        /\ mode' = "loading"
        /\ load' = [load EXCEPT !.row = @ + 1]
        /\ carts_map' = [carts_map EXCEPT ![n] = replayRow(@, r)]
        /\ UNCHANGED <<sessions, journal, items_map, items_csv>>
    BY <1>3 DEF LoadRow
  <2>2. /\ load'.file = n /\ load'.row = load.row + 1 /\ load.row \in 1 .. Len(journal[n])
        /\ Len(journal[n]) \in Nat
    BY <1>0, <2>1 DEF TypeOK, LoaderInv
  <2>3. c \in Carts /\ r \in Rows /\ items_map \in [ItemCodes -> ItemRows] /\ n \in sessions
    BY <1>0, <2>1, <2>2 DEF TypeOK, LoaderInv
  <2>4. carts_map'[n] = replayRow(c, r)
    BY <1>0, <2>1 DEF TypeOK
  <2>5. PICK s : /\ Story(s, journal[n]) /\ s[0] = Blank
                 /\ s[load.row - 1] = Told(c)
    BY <1>0, <2>1 DEF TaleInv, Halfway
  <2>6. Fit(Told(c), r) /\ s[load.row] = tell(Told(c), r)
    <3>1. Fit(s[load.row - 1], r) /\ s[load.row] = tell(s[load.row - 1], r)
      BY <2>2, <2>5 DEF Story
    <3> QED BY <2>5, <3>1
  <2>7. Told(replayRow(c, r)) = tell(Told(c), r)
    <3>1. c.state \in {CART_STATE_TMPFILE_LOADING, CART_STATE_VOIDED}
      BY <1>0, <2>1 DEF VoidInv, BeingLoaded
    <3>2. ArchiveKept(items_map) /\ Known(c)
      BY <2>3 DEF TaleInv
    <3> HIDE DEF c, r
    <3>3. CASE c.state = CART_STATE_VOIDED
      BY <2>3, <3>2, <3>3, ToldReplayVoided
    <3>4. CASE c.state = CART_STATE_TMPFILE_LOADING
      <4>1. AcceptsChanges(c)
        BY <3>4 DEF AcceptsChanges
      <4> QED BY <2>3, <2>6, <3>2, <4>1, ToldReplay
    <3> QED BY <3>1, <3>3, <3>4
  <2>8. Known(c)
    BY <2>3 DEF TaleInv
  <2> HIDE DEF c, r
  <2>9. Known(replayRow(c, r))
    BY <2>3, <2>6, <2>8, KnownReplay
  <2>10. Halfway(n)'
    <3>1. load'.row - 1 = load.row /\ load.row \in 0 .. Len(journal'[n])
      BY <2>1, <2>2
    <3>2. Story(s, journal'[n])
      BY <2>1, <2>5
    <3>3. s[load'.row - 1] = Told(carts_map'[n])
      BY <2>4, <2>6, <2>7, <3>1
    <3>4. s[0] = Blank
      BY <2>5
    <3> QED BY <3>1, <3>2, <3>3, <3>4 DEF Halfway
  <2>11. ASSUME NEW m \in sessions' \ {n}
         PROVE  carts_map'[m] = carts_map[m] /\ m \in sessions \ {load.file}
    BY <1>0, <2>1 DEF TypeOK
  <2>12. \A m \in sessions' : Known(carts_map'[m])
    BY <2>4, <2>9, <2>11 DEF TaleInv
  <2>13. \A m \in sessions' \ {n} : Tells(journal'[m], Blank, Told(carts_map'[m]))
    BY <2>1, <2>11 DEF TaleInv
  <2> QED BY <2>1, <2>2, <2>10, <2>12, <2>13 DEF TaleInv
<1>4. ASSUME NEW n \in CartNumbers, CloseFile(n) PROVE TaleInv'
  <2> DEFINE c == carts_map[n]
  <2>1. /\ mode = "loading" /\ load.file = n /\ load.row > Len(journal[n])
        /\ mode' = "loading"
        /\ load' = [load EXCEPT !.file = NoCart, !.row = 0]
        /\ carts_map' = [carts_map EXCEPT ![n] = reopened(@)]
        /\ UNCHANGED <<sessions, journal, items_map, items_csv>>
    BY <1>4 DEF CloseFile
  <2>2. load'.file = NoCart /\ load.row \in Nat /\ Len(journal[n]) \in Nat
    BY <1>0, <2>1 DEF TypeOK
  <2>3. carts_map'[n] = reopened(c) /\ c \in Carts /\ n \in sessions
    BY <1>0, <2>1 DEF TypeOK, LoaderInv
  <2>4. Told(reopened(c)) = Told(c) /\ Known(reopened(c))
    <3>1. c.state \in {CART_STATE_TMPFILE_LOADING, CART_STATE_VOIDED}
      BY <1>0, <2>1 DEF VoidInv, BeingLoaded
    <3>2. Known(c)
      BY <2>3 DEF TaleInv
    <3> HIDE DEF c
    <3> QED BY <2>3, <3>1, <3>2, ReopenedTold
  <2>5. Tells(journal[n], Blank, Told(c))
    <3>1. PICK s : /\ Story(s, journal[n]) /\ s[0] = Blank
                   /\ load.row - 1 \in 0 .. Len(journal[n]) /\ s[load.row - 1] = Told(c)
      BY <1>0, <2>1 DEF TaleInv, Halfway
    <3>2. load.row - 1 = Len(journal[n])
      BY <2>1, <2>2, <3>1
    <3> QED BY <3>1, <3>2 DEF Tells
  <2>6. ASSUME NEW m \in sessions' \ {n}
        PROVE  carts_map'[m] = carts_map[m] /\ m \in sessions \ {load.file}
    BY <1>0, <2>1 DEF TypeOK
  <2>7. \A m \in sessions' : Known(carts_map'[m])
    BY <2>3, <2>4, <2>6 DEF TaleInv
  <2>8. \A m \in sessions' : Tells(journal'[m], Blank, Told(carts_map'[m]))
    BY <2>1, <2>3, <2>4, <2>5, <2>6 DEF TaleInv
  <2> QED BY <2>1, <2>2, <2>7, <2>8 DEF TaleInv
<1>5. CASE StartServing
  <2>1. /\ mode = "loading" /\ mode' = "running" /\ load.file = NoCart
        /\ UNCHANGED <<carts_map, sessions, journal, items_map, items_csv>>
    BY <1>5 DEF StartServing
  <2>2. \A n \in sessions : n # load.file
    BY <1>0, <2>1 DEF TypeOK
  <2> QED BY <2>1, <2>2 DEF TaleInv
<1>6. CASE SessionInit
  <2> DEFINE n == next_cart_number
  <2>1. /\ mode = "running" /\ mode' = "running" /\ n \in CartNumbers
        /\ sessions' = sessions \cup {n}
        /\ carts_map' = IF n \in sessions THEN carts_map
                        ELSE [carts_map EXCEPT ![n] = NewCart(CART_STATE_READY_FOR_ITEM)]
        /\ UNCHANGED <<journal, items_map, items_csv>>
    BY <1>6 DEF SessionInit
  <2>2. n \notin files /\ n \notin sessions
    BY <1>0, <2>1, BaseSystemAssumption DEF LoaderInv, SessionIdsFresh, TypeOK
  <2>3. journal[n] = << >>
    BY <1>0, <2>1, <2>2 DEF VoidInv
  <2>4. carts_map'[n] = NewCart(CART_STATE_READY_FOR_ITEM)
    BY <1>0, <2>1, <2>2 DEF TypeOK
  <2>5. Known(carts_map'[n]) /\ Tells(journal'[n], Blank, Told(carts_map'[n]))
    BY <2>1, <2>3, <2>4, KnownNew, TellsNothing DEF Blank
  <2> HIDE DEF n
  <2>6. ASSUME NEW m \in sessions' \ {n} PROVE carts_map'[m] = carts_map[m] /\ m \in sessions
    BY <1>0, <2>1 DEF TypeOK
  <2>7. \A m \in sessions' :
            Known(carts_map'[m]) /\ Tells(journal'[m], Blank, Told(carts_map'[m]))
    BY <2>1, <2>5, <2>6 DEF TaleInv
  <2> QED BY <2>1, <2>7 DEF TaleInv
<1>7. ASSUME NEW n \in CartNumbers, CartRequest(n) PROVE TaleInv'
  <2>1. PICK r : RequestResult(n, r) /\ Handle(n, r) /\ Truthful(carts_map[n], r)
    BY <1>7, RequestTale
  <2>2. /\ mode = "running" /\ mode' = "running" /\ n \in sessions
        /\ carts_map' = [carts_map EXCEPT ![n] = r.cart]
        /\ journal' = [journal EXCEPT ![n] = @ \o r.rows]
        /\ UNCHANGED <<sessions, items_map, items_csv>>
    BY <2>1 DEF Handle, Serves
  <2>3. carts_map'[n] = r.cart /\ journal'[n] = journal[n] \o r.rows
    BY <1>0, <2>2 DEF TypeOK
  <2>4. journal[n] \in Seq(Rows) /\ r.rows \in Seq(Rows)
    BY <1>0, <2>1 DEF TypeOK, RequestResult, ResultTyped
  <2>5. Tells(journal'[n], Blank, Told(carts_map'[n])) /\ Known(carts_map'[n])
    <3>1. Tells(journal[n], Blank, Told(carts_map[n]))
      BY <2>2 DEF TaleInv
    <3>2. Tells(r.rows, Told(carts_map[n]), Told(r.cart)) /\ Known(r.cart)
      BY <2>1 DEF Truthful
    <3>3. Tells(journal[n] \o r.rows, Blank, Told(r.cart))
      BY <2>4, <3>1, <3>2, TellsBoth
    <3> QED BY <2>3, <3>2, <3>3
  <2>6. ASSUME NEW m \in CartNumbers, m # n
        PROVE  carts_map'[m] = carts_map[m] /\ journal'[m] = journal[m]
    BY <1>0, <2>2, <2>6 DEF TypeOK
  <2>7. sessions \subseteq CartNumbers
    BY <1>0 DEF TypeOK
  <2>8. \A m \in sessions' :
            Known(carts_map'[m]) /\ Tells(journal'[m], Blank, Told(carts_map'[m]))
    BY <2>2, <2>5, <2>6, <2>7 DEF TaleInv
  <2>9. \A m \in CartNumbers : \E t : Tells(journal'[m], Blank, t)
    BY <2>5, <2>6 DEF TaleInv
  <2> QED BY <2>2, <2>8, <2>9 DEF TaleInv
<1>8. CASE DieInRequest
  <2>0. PICK n \in CartNumbers :
            \E r : RequestResult(n, r) /\ DieWhile(n, r) /\ Truthful(carts_map[n], r)
    BY <1>8, DyingTale
  <2>1. PICK r : RequestResult(n, r) /\ DieWhile(n, r) /\ Truthful(carts_map[n], r)
    BY <2>0
  <2>2. /\ mode = "running" /\ n \in sessions /\ mode' = "down" /\ EmptyMemory
        /\ load' = NothingToLoad /\ items_csv' = items_csv
    BY <2>1 DEF DieWhile, Serves
  <2>3. PICK k \in 1 .. Len(r.rows) :
            journal' = [journal EXCEPT ![n] = @ \o SubSeq(r.rows, 1, k)]
    BY <2>1 DEF DieWhile
  <2>4. /\ journal[n] \in Seq(Rows) /\ r.rows \in Seq(Rows)
        /\ SubSeq(r.rows, 1, k) \in Seq(Rows) /\ k \in 0 .. Len(r.rows)
    BY <1>0, <2>1 DEF TypeOK, RequestResult, ResultTyped
  <2>5. PICK t : Tells(SubSeq(r.rows, 1, k), Told(carts_map[n]), t)
    BY <2>1, <2>4, TellsPrefix DEF Truthful
  <2>6. Tells(journal[n], Blank, Told(carts_map[n]))
    BY <2>2 DEF TaleInv
  <2>7. Tells(journal[n] \o SubSeq(r.rows, 1, k), Blank, t)
    BY <2>4, <2>5, <2>6, TellsBoth
  <2>8. \A m \in CartNumbers : \E u : Tells(journal'[m], Blank, u)
    BY <1>0, <2>3, <2>7 DEF TaleInv, TypeOK
  <2>9. load'.file = NoCart
    BY <2>2 DEF NothingToLoad
  <2> QED BY <2>2, <2>8, <2>9, EmptyTale
<1>9. ASSUME NEW v \in Variations, Variation(v) PROVE TaleInv'
  <2>1. /\ items_map' = [items_map EXCEPT ![v.code] =
              [price |-> v.price, department |-> v.department, linked |-> NoBarcode]]
        /\ UNCHANGED <<mode, carts_map, sessions, journal, load, items_csv>>
    BY <1>9 DEF Variation
  <2>2. ArchiveKept(items_map)'
    BY <1>0, <2>1, VariationKept DEF TaleInv, ArchiveKept, TypeOK
  <2> QED BY <1>a, <2>1, <2>2 DEF TaleInv
<1>10. CASE DumpItems
  BY <1>10, <1>a DEF DumpItems, TaleInv
<1>11. CASE UNCHANGED <<mode, carts_map, sessions, journal, load, items_map, items_csv>>
  BY <1>11, <1>a DEF TaleInv
<1> QED BY <1>1, <1>2, <1>3, <1>4, <1>5, <1>6, <1>7, <1>8, <1>9, <1>10, <1>11
        DEF Next, Loading, Request, CartNotFound, ItemInfo, NotRecognized, StoreInfo,
            StoreQuery, TillReads, vars

\* Every session in service is what its file tells.
LEMMA TaleHolds ==
    ASSUME PlainLinks
    PROVE  Spec => []TaleInv
<1>1. IInv /\ TaleInv /\ [Next]_vars => TaleInv'
  BY TaleStep
<1>2. Init => TaleInv
  BY InitTale
<1> QED BY <1>1, <1>2, Inductive, PTL DEF Spec

-----------------------------------------------------------------------------
(* What the property replays *)

\* The recursive function behind ReplayedFrom, and its equation.
ReplayStep(rows, g, k) == IF k = 0 THEN NewCart(CART_STATE_TMPFILE_LOADING)
                          ELSE replayRow(g[k - 1], rows[k])
IsReplay(rows, g) == g = [k \in 0 .. Len(rows) |-> ReplayStep(rows, g, k)]
Replay(rows) == CHOOSE g : IsReplay(rows, g)

LEMMA ReplayIsLast ==
    ASSUME NEW rows
    PROVE  ReplayedFrom(rows) = reopened(Replay(rows)[Len(rows)])
BY DEF ReplayedFrom, Replay, IsReplay, ReplayStep

\* It exists: it is built for more and more rows.
LEMMA ReplayExists ==
    ASSUME NEW rows \in Seq(Rows)
    PROVE  IsReplay(rows, Replay(rows))
<1> DEFINE UpTo(n, g) == \A k \in 0 .. Len(rows) : k <= n => g[k] = ReplayStep(rows, g, k)
           T == {n \in Nat : \E g : UpTo(n, g)}
<1>0. Len(rows) \in Nat
  OBVIOUS
<1>1. 0 \in T
  <2>1. PICK g : g = [k \in 0 .. Len(rows) |-> NewCart(CART_STATE_TMPFILE_LOADING)]
    OBVIOUS
  <2>2. UpTo(0, g)
    BY <1>0, <2>1 DEF ReplayStep
  <2> QED BY <2>2
<1>2. ASSUME NEW n \in Nat, n \in T PROVE n + 1 \in T
  <2>1. PICK g : UpTo(n, g)
    BY <1>2
  <2>2. PICK h : h = [k \in 0 .. Len(rows) |-> IF k <= n THEN g[k] ELSE ReplayStep(rows, g, k)]
    OBVIOUS
  <2>3. ASSUME NEW k \in 0 .. Len(rows), k <= n + 1 PROVE h[k] = ReplayStep(rows, h, k)
    <3>1. h[k] = ReplayStep(rows, g, k)
      BY <2>1, <2>2
    <3>2. k # 0 => k - 1 \in 0 .. Len(rows) /\ k - 1 <= n
      BY <1>0, <2>3
    <3>3. k # 0 => h[k - 1] = g[k - 1]
      BY <2>2, <3>2
    <3> QED BY <3>1, <3>3 DEF ReplayStep
  <2>4. UpTo(n + 1, h)
    BY <2>3
  <2> QED BY <2>4
<1>3. Len(rows) \in T
  <2> HIDE DEF T
  <2> QED BY <1>0, <1>1, <1>2, CountingUp
<1>4. PICK g : UpTo(Len(rows), g)
  BY <1>3
<1>5. PICK h : h = [k \in 0 .. Len(rows) |-> g[k]]
  OBVIOUS
<1>6. ASSUME NEW k \in 0 .. Len(rows) PROVE h[k] = ReplayStep(rows, h, k)
  <2>1. h[k] = ReplayStep(rows, g, k)
    BY <1>0, <1>4, <1>5
  <2>2. k # 0 => k - 1 \in 0 .. Len(rows)
    BY <1>0
  <2>3. k # 0 => h[k - 1] = g[k - 1]
    BY <1>5, <2>2
  <2> QED BY <2>1, <2>3 DEF ReplayStep
<1>7. h = [k \in 0 .. Len(rows) |-> ReplayStep(rows, h, k)]
  <2>1. h = [k \in 0 .. Len(rows) |-> h[k]]
    BY <1>5
  <2> QED BY <1>6, <2>1
<1> QED BY <1>7 DEF Replay, IsReplay

\* The replay follows the story of the rows.
LEMMA ReplayFollows ==
    ASSUME NEW rows \in Seq(Rows), NEW s, Story(s, rows), s[0] = Blank,
           ArchiveKept(items_map), items_map \in [ItemCodes -> ItemRows],
           NEW k \in 0 .. Len(rows)
    PROVE  LET c == Replay(rows)[k]
           IN  /\ c \in Carts
               /\ c.state \in {CART_STATE_TMPFILE_LOADING, CART_STATE_VOIDED}
               /\ Told(c) = s[k]
<1>1. PICK g : g = Replay(rows)
  OBVIOUS
<1>2. \A j \in 0 .. Len(rows) : g[j] = ReplayStep(rows, g, j)
  BY <1>1, ReplayExists DEF IsReplay
<1> DEFINE S == {j \in 0 .. Len(rows) :
                    /\ g[j] \in Carts
                    /\ g[j].state \in {CART_STATE_TMPFILE_LOADING, CART_STATE_VOIDED}
                    /\ Told(g[j]) = s[j] /\ Known(g[j])}
<1>0. Len(rows) \in Nat
  OBVIOUS
<1>3. 0 \in S
  <2>1. 0 \in 0 .. Len(rows)
    BY <1>0
  <2>2. g[0] = NewCart(CART_STATE_TMPFILE_LOADING)
    BY <1>2, <2>1 DEF ReplayStep
  <2>3. g[0] \in Carts /\ g[0].state = CART_STATE_TMPFILE_LOADING
    BY <2>2, NewCartTyped DEF NewCart, CartStates
  <2>4. Told(g[0]) = s[0] /\ Known(g[0])
    BY <2>2, BlankTold, KnownNew
  <2> QED BY <2>1, <2>3, <2>4
<1>4. ASSUME NEW j \in 1 .. Len(rows), j - 1 \in S PROVE j \in S
  <2>1. j \in 0 .. Len(rows) /\ j # 0
    BY <1>0
  <2>2. PICK c \in Carts : /\ c = g[j - 1] /\ Told(c) = s[j - 1] /\ Known(c)
                           /\ c.state \in {CART_STATE_TMPFILE_LOADING, CART_STATE_VOIDED}
    BY <1>4
  <2>3. PICK r \in Rows : r = rows[j]
    OBVIOUS
  <2>4. g[j] = replayRow(c, r)
    BY <1>2, <2>1, <2>2, <2>3 DEF ReplayStep
  <2>5. Fit(Told(c), r) /\ s[j] = tell(Told(c), r)
    <3>1. Fit(s[j - 1], rows[j]) /\ s[j] = tell(s[j - 1], rows[j])
      BY DEF Story
    <3> QED BY <2>2, <2>3, <3>1
  <2>6. /\ replayRow(c, r) \in Carts
        /\ replayRow(c, r).state \in {CART_STATE_TMPFILE_LOADING, CART_STATE_VOIDED}
    BY <2>2, ReplayRowTyped
  <2>8. Known(replayRow(c, r))
    BY <2>2, <2>5, KnownReplay
  <2>7. Told(replayRow(c, r)) = tell(Told(c), r)
    <3>1. CASE c.state = CART_STATE_VOIDED
      BY <2>2, <3>1, ToldReplayVoided
    <3>2. CASE c.state = CART_STATE_TMPFILE_LOADING
      <4>1. AcceptsChanges(c)
        BY <3>2 DEF AcceptsChanges
      <4> QED BY <2>2, <2>5, <4>1, ToldReplay
    <3> QED BY <2>2, <3>1, <3>2
  <2> QED BY <2>1, <2>4, <2>5, <2>6, <2>7, <2>8
<1>5. k \in S
  <2> HIDE DEF S
  <2> QED BY <1>0, <1>3, <1>4, CountingTo
<1> QED BY <1>1, <1>5

\* What the file of a session in service replays to is what its cart is told.
LEMMA ReplayIsTold ==
    ASSUME IInv, TaleInv, mode = "running", NEW n \in sessions
    PROVE  /\ Told(Replayed(n)) = Told(carts_map[n])
           /\ Replayed(n).state \in {CART_STATE_READY_FOR_ITEM, CART_STATE_VOIDED}
           /\ carts_map[n].state \in {CART_STATE_READY_FOR_ITEM, CART_STATE_VOIDED}
<1>1. /\ journal[n] \in Seq(Rows) /\ items_map \in [ItemCodes -> ItemRows]
      /\ ArchiveKept(items_map) /\ Len(journal[n]) \in 0 .. Len(journal[n])
      /\ carts_map[n].state \in {CART_STATE_READY_FOR_ITEM, CART_STATE_VOIDED}
  BY DEF IInv, TypeOK, VoidInv, Settled, TaleInv
<1>2. PICK s : /\ Story(s, journal[n]) /\ s[0] = Blank
               /\ s[Len(journal[n])] = Told(carts_map[n])
  BY DEF TaleInv, Tells
<1>3. PICK c : c = Replay(journal[n])[Len(journal[n])]
  OBVIOUS
<1>4. /\ c \in Carts /\ Told(c) = Told(carts_map[n])
      /\ c.state \in {CART_STATE_TMPFILE_LOADING, CART_STATE_VOIDED}
  BY <1>1, <1>2, <1>3, ReplayFollows
<1>5. Replayed(n) = reopened(c)
  BY <1>3, ReplayIsLast DEF Replayed
<1>6. /\ Told(reopened(c)) = Told(c)
      /\ reopened(c).state \in {CART_STATE_READY_FOR_ITEM, CART_STATE_VOIDED}
  BY <1>4, ReopenedTold, ReopenedTyped
<1> QED BY <1>1, <1>4, <1>5, <1>6

-----------------------------------------------------------------------------
(* The theorems *)

\* A crash between two requests loses nothing: for every store whose links
\* carry no price, in any order of requests, deaths in the middle of a request
\* and starts, what loadCartsInProgress would make of the file of a session is
\* the cart that the requests built, in its state, items, barcodes, cards and,
\* while it is in service, its local copies of prices.
THEOREM FilesTellSessions ==
    ASSUME PlainLinks
    PROVE  Spec => []JournalFaithful
<1>1. ASSUME IInv, TaleInv PROVE JournalFaithful
  <2> SUFFICES ASSUME mode = "running", NEW n \in sessions
               PROVE  LET live == carts_map[n]
                          disc == Replayed(n)
                      IN  /\ disc.state = live.state
                          /\ disc.cart_items_map = live.cart_items_map
                          /\ disc.barcodes_map = live.barcodes_map
                          /\ disc.items_number = live.items_number
                          /\ disc.loy_cards_map = live.loy_cards_map
                          /\ disc.loy_cards_number = live.loy_cards_number
                          /\ live.state = CART_STATE_READY_FOR_ITEM =>
                                disc.items_local_copy_map = live.items_local_copy_map
    BY DEF JournalFaithful
  <2>1. PICK live, disc : live = carts_map[n] /\ disc = Replayed(n)
    OBVIOUS
  <2>2. /\ Told(disc) = Told(live)
        /\ disc.state \in {CART_STATE_READY_FOR_ITEM, CART_STATE_VOIDED}
        /\ live.state \in {CART_STATE_READY_FOR_ITEM, CART_STATE_VOIDED}
    BY <1>1, <2>1, ReplayIsTold
  <2>3. AcceptsChanges(disc) = AcceptsChanges(live)
    BY <2>2, ToldFields
  <2>4. disc.state = live.state
    BY <2>2, <2>3, VoidedRefuses, ServingAccepts
  <2>5. /\ disc.cart_items_map = live.cart_items_map
        /\ disc.barcodes_map = live.barcodes_map
        /\ disc.items_number = live.items_number
        /\ disc.loy_cards_map = live.loy_cards_map
        /\ disc.loy_cards_number = live.loy_cards_number
    BY <2>2, ToldFields
  <2>6. ASSUME live.state = CART_STATE_READY_FOR_ITEM
        PROVE  disc.items_local_copy_map = live.items_local_copy_map
    <3>1. AcceptsChanges(disc) /\ AcceptsChanges(live)
      BY <2>4, <2>6, ServingAccepts
    <3> QED BY <2>2, <3>1, ToldFields
  <2> QED BY <2>1, <2>4, <2>5, <2>6
<1> QED BY <1>1, TaleHolds, Inductive, PTL

\* Nor does it change the bill: where, besides, the variations keep the prices
\* of deposits and no item gets its first department or loses its last, the
\* file replays to the gross total and the pieces the customer was told.
THEOREM FilesTellBills ==
    ASSUME PlainLinks, SteadyBills
    PROVE  Spec => []BillFaithful
<1>1. ASSUME IInv, TaleInv PROVE BillFaithful
  <2> SUFFICES ASSUME mode = "running", NEW n \in sessions
               PROVE  LET live == carts_map[n]
                          disc == Replayed(n)
                      IN  /\ disc.totals_map[0].items_number = live.totals_map[0].items_number
                          /\ Gross(disc) = Gross(live)
    BY DEF BillFaithful
  <2>1. Told(Replayed(n)) = Told(carts_map[n])
    BY <1>1, ReplayIsTold
  <2> QED BY <2>1, ToldFields
<1> QED BY <1>1, TaleHolds, Inductive, PTL

-----------------------------------------------------------------------------
(* What every story keeps *)

Digests ==
    [open : BOOLEAN, items : [ItemCodes -> Nat], barcodes : [Barcodes -> Nat], number : Int,
     cards : [CardIndexes -> Cards \cup {NoCard}], limit : Int,
     prices : [ItemCodes -> Int \cup {NoPrice}], pieces : Int, gross : Int]

\* The price a fit row is told at is a number.
LEMMA ToldPriceInt ==
    ASSUME NEW t \in Digests, NEW b \in Barcodes,
           ~PriceChangesWhileShopping => t.prices[decodeBarcode(b)] # NoPrice
    PROVE  ToldPrice(t, b) \in Int
<1>1. /\ decodeBarcode(b) \in ItemCodes /\ InitialArchive[decodeBarcode(b)].price \in Int
      /\ barcode_price[b] \in Int
  BY DecodeBarcodeTyped, CatalogueAssumption, BaseSystemAssumption DEF ItemRows
<1>2. t.prices[decodeBarcode(b)] \in Int \cup {NoPrice}
  BY <1>1 DEF Digests
<1> QED BY <1>1, <1>2 DEF ToldPrice

LEMMA DigestFields ==
    ASSUME NEW t \in Digests
    PROVE  /\ t.items \in [ItemCodes -> Nat] /\ t.barcodes \in [Barcodes -> Nat]
           /\ t.number \in Int /\ t.cards \in [CardIndexes -> Cards \cup {NoCard}]
           /\ t.limit \in Int /\ t.prices \in [ItemCodes -> Int \cup {NoPrice}]
           /\ t.pieces \in Int /\ t.gross \in Int /\ t.open \in BOOLEAN
BY DEF Digests

\* The digest after a piece is put in or taken out, field by field.
LEMMA TellAddTyped ==
    ASSUME NEW t \in Digests, t.open, NEW b \in Barcodes, ToldPrice(t, b) \in Int
    PROVE  LET d == tellAdd(t, b)
               item == decodeBarcode(b)
           IN  /\ d \in Digests /\ d.open = TRUE
               /\ d.items = [t.items EXCEPT ![item] = @ + 1]
               /\ d.barcodes = [t.barcodes EXCEPT ![b] = @ + 1]
               /\ d.number = t.number + 1 /\ d.prices = t.prices
               /\ SteadyBills => d.gross = t.gross + Units(item, ToldPrice(t, b))
<1> DEFINE item == decodeBarcode(b)
<1>1. PICK items, barcodes, pieces, gross :
          /\ items = [t.items EXCEPT ![item] = @ + 1]
          /\ barcodes = [t.barcodes EXCEPT ![b] = @ + 1]
          /\ pieces = t.pieces + Units(item, 1)
          /\ gross = t.gross + Units(item, ToldPrice(t, b))
  OBVIOUS
<1>2. item \in ItemCodes
  BY DecodeBarcodeTyped
<1>3. items \in [ItemCodes -> Nat] /\ barcodes \in [Barcodes -> Nat] /\ t.number + 1 \in Int
  BY <1>1, <1>2 DEF Digests
<1>4. pieces \in Int /\ gross \in Int
  BY <1>1, <1>2 DEF Digests, Units, Charged
<1>5. t.cards \in [CardIndexes -> Cards \cup {NoCard}] /\ t.limit \in Int
      /\ t.prices \in [ItemCodes -> Int \cup {NoPrice}] /\ t.open = TRUE
  BY DEF Digests
<1>6. tellAdd(t, b) = Digest(t.open, items, barcodes, t.number + 1, t.cards, t.limit, t.prices,
                             pieces, gross)
  BY <1>1 DEF tellAdd
<1>8. PICK d : d = tellAdd(t, b)
  OBVIOUS
<1>9. /\ d \in Digests /\ d.open = TRUE /\ d.items = items /\ d.barcodes = barcodes
      /\ d.number = t.number + 1 /\ d.prices = t.prices
      /\ SteadyBills => d.gross = gross
  <2> HIDE DEF item
  <2> QED BY <1>3, <1>4, <1>5, <1>6, <1>8 DEF Digest, Digests, Billed
<1> QED BY <1>1, <1>8, <1>9

LEMMA TellRemoveTyped ==
    ASSUME NEW t \in Digests, t.open, NEW b \in Barcodes, t.items[decodeBarcode(b)] # 0,
           ToldPrice(t, b) \in Int
    PROVE  LET d == tellRemove(t, b)
               item == decodeBarcode(b)
           IN  /\ d \in Digests /\ d.open = TRUE
               /\ d.items = [t.items EXCEPT ![item] = @ - 1]
               /\ d.barcodes = [t.barcodes EXCEPT ![b] = OneLess(@)]
               /\ d.number = t.number - 1 /\ d.prices = t.prices
               /\ SteadyBills => d.gross = t.gross + Units(item, -ToldPrice(t, b))
<1> DEFINE item == decodeBarcode(b)
<1>1. PICK items, barcodes, pieces, gross :
          /\ items = [t.items EXCEPT ![item] = OneLess(@)]
          /\ barcodes = [t.barcodes EXCEPT ![b] = OneLess(@)]
          /\ pieces = t.pieces + Units(item, -1)
          /\ gross = t.gross + Units(item, -ToldPrice(t, b))
  OBVIOUS
<1>2. item \in ItemCodes
  BY DecodeBarcodeTyped
<1>3. items \in [ItemCodes -> Nat] /\ barcodes \in [Barcodes -> Nat] /\ t.number - 1 \in Int
  BY <1>1, <1>2 DEF Digests, OneLess
<1>4. pieces \in Int /\ gross \in Int
  BY <1>1, <1>2 DEF Digests, Units, Charged
<1>5. t.cards \in [CardIndexes -> Cards \cup {NoCard}] /\ t.limit \in Int
      /\ t.prices \in [ItemCodes -> Int \cup {NoPrice}] /\ t.open = TRUE
  BY DEF Digests
<1>6. tellRemove(t, b) = Digest(t.open, items, barcodes, t.number - 1, t.cards, t.limit, t.prices,
                                pieces, gross)
  BY <1>1 DEF tellRemove
<1>7. items = [t.items EXCEPT ![item] = @ - 1]
  BY <1>1, <1>2 DEF Digests, OneLess
<1>8. PICK d : d = tellRemove(t, b)
  OBVIOUS
<1>9. /\ d \in Digests /\ d.open = TRUE /\ d.items = items /\ d.barcodes = barcodes
      /\ d.number = t.number - 1 /\ d.prices = t.prices
      /\ SteadyBills => d.gross = gross
  <2> HIDE DEF item
  <2> QED BY <1>3, <1>4, <1>5, <1>6, <1>8 DEF Digest, Digests, Billed
<1> QED BY <1>1, <1>7, <1>8, <1>9

\* The rows that put nothing in and take nothing out.
LEMMA TellOtherTyped ==
    ASSUME NEW t \in Digests, t.open, NEW r \in Rows, r.object # "I"
    PROVE  LET d == tell(t, r)
           IN  /\ d \in Digests
               /\ d.items = t.items /\ d.barcodes = t.barcodes /\ d.number = t.number
               /\ SteadyBills => d.gross = t.gross
               /\ \A i \in ItemCodes :
                     \/ d.prices[i] = t.prices[i]
                     \/ t.items[i] = 0 /\ d.prices[i] = NoPrice
                     \/ /\ t.prices[i] = NoPrice /\ ~PriceChangesWhileShopping
                        /\ r.object = "K" /\ r.action = "I" /\ r.code = i /\ d.prices[i] = r.price
<1>0. /\ t.open = TRUE /\ t.items \in [ItemCodes -> Nat] /\ t.barcodes \in [Barcodes -> Nat]
      /\ t.number \in Int /\ t.cards \in [CardIndexes -> Cards \cup {NoCard}] /\ t.limit \in Int
      /\ t.prices \in [ItemCodes -> Int \cup {NoPrice}] /\ t.pieces \in Int /\ t.gross \in Int
  BY DigestFields
<1>1. CASE tell(t, r) = t
  BY <1>1
<1>2. CASE r.object = "L"
  <2>1. r.code \in Cards
    BY <1>2 DEF Rows
  <2>2. CASE r.action = "A"
    <3>1. PICK cards : cards = [t.cards EXCEPT ![t.limit] = r.code]
      OBVIOUS
    <3>2. cards \in [CardIndexes -> Cards \cup {NoCard}] /\ t.limit + 1 \in Int
      <4>1. cards \in [CardIndexes -> Cards \cup {NoCard}]
        <5>1. PICK m \in [CardIndexes -> Cards \cup {NoCard}] : m = t.cards
          BY <1>0
        <5>2. [m EXCEPT ![t.limit] = r.code] \in [CardIndexes -> Cards \cup {NoCard}]
          BY <2>1
        <5> QED BY <3>1, <5>1, <5>2
      <4> QED BY <1>0, <4>1
    <3>3. \/ tell(t, r) = t
          \/ tell(t, r) = Digest(t.open, t.items, t.barcodes, t.number, cards, t.limit + 1,
                                 t.prices, t.pieces, t.gross)
      BY <1>0, <1>2, <2>2, <3>1 DEF tell, tellCard
    <3>4. CASE tell(t, r) # t
      <4>1. PICK d : d = tell(t, r)
        OBVIOUS
      <4>2. d = Digest(t.open, t.items, t.barcodes, t.number, cards, t.limit + 1,
                       t.prices, t.pieces, t.gross)
        BY <3>3, <3>4, <4>1
      <4>3. /\ d \in Digests /\ d.items = t.items /\ d.barcodes = t.barcodes
            /\ d.number = t.number /\ d.prices = t.prices
            /\ SteadyBills => d.gross = t.gross
        BY <1>0, <3>2, <4>2 DEF Digest, Digests, Billed
      <4> QED BY <4>1, <4>3
    <3> QED BY <1>1, <3>4
  <2>3. CASE r.action # "A"
    <3>1. PICK cards :
              cards = [k \in CardIndexes |-> IF t.cards[k] = r.code THEN NoCard ELSE t.cards[k]]
      OBVIOUS
    <3>2. cards \in [CardIndexes -> Cards \cup {NoCard}] /\ t.limit - 1 \in Int
      BY <1>0, <3>1
    <3>3. \/ tell(t, r) = t
          \/ tell(t, r) = Digest(t.open, t.items, t.barcodes, t.number, cards, t.limit - 1,
                                 t.prices, t.pieces, t.gross)
      BY <1>0, <1>2, <2>3, <3>1 DEF tell, tellNoCard
    <3>4. CASE tell(t, r) # t
      <4>1. PICK d : d = tell(t, r)
        OBVIOUS
      <4>2. d = Digest(t.open, t.items, t.barcodes, t.number, cards, t.limit - 1,
                       t.prices, t.pieces, t.gross)
        BY <3>3, <3>4, <4>1
      <4>3. /\ d \in Digests /\ d.items = t.items /\ d.barcodes = t.barcodes
            /\ d.number = t.number /\ d.prices = t.prices
            /\ SteadyBills => d.gross = t.gross
        BY <1>0, <3>2, <4>2 DEF Digest, Digests, Billed
      <4> QED BY <4>1, <4>3
    <3> QED BY <1>1, <3>4
  <2> QED BY <2>2, <2>3
<1>3. CASE r.object = "C"
  <2>1. PICK open \in BOOLEAN : open = FALSE
    OBVIOUS
  <2>2. tell(t, r) = Digest(open, t.items, t.barcodes, t.number, t.cards, t.limit,
                            t.prices, t.pieces, t.gross)
    BY <1>0, <1>3, <2>1 DEF tell, tellVoid
  <2>3. \A i \in ItemCodes : \/ Held(t.items, t.prices)[i] = t.prices[i]
                             \/ t.items[i] = 0 /\ Held(t.items, t.prices)[i] = NoPrice
    BY DEF Held
  <2>4. PICK d : d = tell(t, r)
    OBVIOUS
  <2>5. /\ d \in Digests /\ d.items = t.items /\ d.barcodes = t.barcodes /\ d.number = t.number
        /\ SteadyBills => d.gross = t.gross
        /\ d.prices = Held(t.items, t.prices)
    <3>1. Held(t.items, t.prices) \in [ItemCodes -> Int \cup {NoPrice}]
      BY <1>0 DEF Held
    <3> QED BY <1>0, <2>1, <2>2, <2>4, <3>1 DEF Digest, Digests, Billed
  <2> QED BY <2>3, <2>4, <2>5
<1>4. CASE r.object = "K" /\ r.action = "I" /\ tell(t, r) # t
  <2>1. r.code \in ItemCodes /\ r.price \in Int
    BY <1>4 DEF Rows
  <2>2. PICK prices : prices = [t.prices EXCEPT ![r.code] = r.price]
    OBVIOUS
  <2>3. prices \in [ItemCodes -> Int \cup {NoPrice}]
    BY <1>0, <2>1, <2>2
  <2>4. tell(t, r) = tellCopy(t, r.code, r.price)
    BY <1>0, <1>4 DEF tell
  <2>5. /\ ~PriceChangesWhileShopping /\ t.prices[r.code] = NoPrice
        /\ tell(t, r) = Digest(t.open, t.items, t.barcodes, t.number, t.cards, t.limit,
                               prices, t.pieces, t.gross)
    BY <1>4, <2>2, <2>4 DEF tellCopy
  <2>6. \A i \in ItemCodes : prices[i] = IF i = r.code THEN r.price ELSE t.prices[i]
    BY <1>0, <2>1, <2>2
  <2>7. PICK d : d = tell(t, r)
    OBVIOUS
  <2>8. /\ d \in Digests /\ d.items = t.items /\ d.barcodes = t.barcodes /\ d.number = t.number
        /\ SteadyBills => d.gross = t.gross
        /\ d.prices = prices
    BY <1>0, <2>3, <2>5, <2>7 DEF Digest, Digests, Billed
  <2> QED BY <1>4, <2>5, <2>6, <2>7, <2>8
<1>5. CASE r.object = "K" /\ r.action # "I"
  BY <1>0, <1>1, <1>5 DEF tell
<1> QED BY <1>1, <1>2, <1>3, <1>4, <1>5 DEF Rows

\* What holds of the first digest and goes from a digest to the next holds of
\* every digest of a story.
LEMMA StoryHolds ==
    ASSUME NEW rows \in Seq(Rows), NEW s, Story(s, rows), NEW G, s[0] \in G,
           \A t \in G : \A k \in 1 .. Len(rows) : Fit(t, rows[k]) => tell(t, rows[k]) \in G,
           NEW k \in 0 .. Len(rows)
    PROVE  s[k] \in G
<1> DEFINE S == {j \in 0 .. Len(rows) : s[j] \in G}
<1>0. Len(rows) \in Nat
  OBVIOUS
<1>1. 0 \in S
  BY <1>0
<1>2. ASSUME NEW j \in 1 .. Len(rows), j - 1 \in S PROVE j \in S
  <2>1. Fit(s[j - 1], rows[j]) /\ s[j] = tell(s[j - 1], rows[j])
    BY DEF Story
  <2>2. s[j - 1] \in G /\ j \in 0 .. Len(rows)
    BY <1>0, <1>2
  <2> QED BY <2>1, <2>2
<1>3. k \in S
  <2> HIDE DEF S
  <2> QED BY <1>0, <1>1, <1>2, CountingTo
<1> QED BY <1>3

\* Every session, in service or being loaded, is a digest of the story of its file.
LEMMA SessionInStory ==
    ASSUME IInv, TaleInv, NEW n \in sessions
    PROVE  /\ journal[n] \in Seq(Rows) /\ carts_map[n] \in Carts /\ Known(carts_map[n])
           /\ \E s : \E k \in 0 .. Len(journal[n]) :
                 Story(s, journal[n]) /\ s[0] = Blank /\ s[k] = Told(carts_map[n])
<1>1. journal[n] \in Seq(Rows) /\ Len(journal[n]) \in 0 .. Len(journal[n])
      /\ carts_map[n] \in Carts /\ mode \in {"down", "loading", "running"}
      /\ n # NoCart
  BY BaseSystemAssumption DEF IInv, TypeOK
<1>2. Known(carts_map[n])
  BY DEF TaleInv
<1>3. CASE Tells(journal[n], Blank, Told(carts_map[n]))
  <2>1. PICK s : /\ Story(s, journal[n]) /\ s[0] = Blank
                 /\ s[Len(journal[n])] = Told(carts_map[n])
    BY <1>3 DEF Tells
  <2> QED BY <1>1, <1>2, <2>1
<1>4. CASE Halfway(n)
  <2>1. PICK s : /\ Story(s, journal[n]) /\ s[0] = Blank
                 /\ load.row - 1 \in 0 .. Len(journal[n])
                 /\ s[load.row - 1] = Told(carts_map[n])
    BY <1>4 DEF Halfway
  <2> QED BY <1>1, <1>2, <2>1
<1> QED BY <1>1, <1>3, <1>4 DEF TaleInv

\* A digest of typed fields for a new cart.
LEMMA BlankTyped == Blank \in Digests /\ Blank.open = TRUE
<1>1. AcceptsChanges(NewCart(CART_STATE_READY_FOR_ITEM)) = TRUE
  BY DEF AcceptsChanges, NewCart
<1>2. Gross(NewCart(CART_STATE_READY_FOR_ITEM)) = 0
  BY DepartmentZero DEF Gross, NewCart
<1>3. /\ NewCart(CART_STATE_READY_FOR_ITEM).totals_map[0].items_number = 0
  BY DepartmentZero DEF NewCart
<1> QED BY <1>1, <1>2, <1>3 DEF Blank, Told, Digest, Digests, Billed, NewCart

LEMMA BlankFields ==
    /\ Blank.items = [i \in ItemCodes |-> 0] /\ Blank.barcodes = [b \in Barcodes |-> 0]
    /\ Blank.number = 0 /\ Blank.gross = 0 /\ Blank.prices = [i \in ItemCodes |-> NoPrice]
<1>1. AcceptsChanges(NewCart(CART_STATE_READY_FOR_ITEM)) = TRUE
  BY DEF AcceptsChanges, NewCart
<1>2. Gross(NewCart(CART_STATE_READY_FOR_ITEM)) = 0
  BY DepartmentZero DEF Gross, NewCart
<1> QED BY <1>1, <1>2 DEF Blank, Told, Digest, Billed, NewCart

-----------------------------------------------------------------------------
(* Pieces and barcodes *)

BarcodesOf(i) == {b \in Barcodes : decodeBarcode(b) = i}

\* Of every item there are as many barcodes as pieces.
Stocked(t) ==
    \A i \in ItemCodes : t.items[i] <= SumFunctionOnSet(t.barcodes, BarcodesOf(i))

LEMMA FiniteCodes ==
    /\ IsFiniteSet(ItemCodes)
    /\ \A i : IsFiniteSet(BarcodesOf(i)) /\ BarcodesOf(i) \subseteq Barcodes
<1>1. IsFiniteSet(ItemCodes)
  BY FiniteArchives, FS_AddElement DEF ItemCodes
<1>2. \A i : BarcodesOf(i) \subseteq Barcodes
  BY DEF BarcodesOf
<1> QED BY <1>1, <1>2, FiniteArchives, FS_Subset

\* A barcode more or less, with a piece of its item.
LEMMA SumOfPiece ==
    ASSUME NEW f \in [Barcodes -> Nat], NEW b \in Barcodes, NEW count \in Nat,
           NEW h \in [Barcodes -> Nat], h[b] = count, \A x \in Barcodes \ {b} : h[x] = f[x], NEW i
    PROVE  /\ SumFunctionOnSet(f, BarcodesOf(i)) \in Int
           /\ SumFunctionOnSet(h, BarcodesOf(i))
                = SumFunctionOnSet(f, BarcodesOf(i))
                    + (IF i = decodeBarcode(b) THEN count - f[b] ELSE 0)
<1>1. PICK S : S = BarcodesOf(i)
  OBVIOUS
<1>2. IsFiniteSet(S) /\ S \subseteq Barcodes
  BY <1>1, FiniteCodes
<1>3. b \in S <=> i = decodeBarcode(b)
  BY <1>1 DEF BarcodesOf
<1>4. h \in [Barcodes -> Nat] /\ h[b] = count /\ \A x \in Barcodes \ {b} : h[x] = f[x]
  OBVIOUS
<1>5. \A x \in S : f[x] \in Int /\ h[x] \in Int
  BY <1>2, <1>4
<1>6. SumFunctionOnSet(f, S) \in Int
  BY <1>2, <1>5, SumInt
<1>7. CASE i = decodeBarcode(b)
  <2>1. DifferAt(f, h, S, b)
    BY <1>2, <1>4, <1>5 DEF DifferAt
  <2>2. SumFunctionOnSet(h, S) = SumFunctionOnSet(f, S) + (h[b] - f[b])
    <3>1. b \in S /\ IsFiniteSet(S)
      BY <1>2, <1>3, <1>7
    <3> QED BY <2>1, <3>1, SumDifference
  <2> QED BY <1>1, <1>4, <1>6, <1>7, <2>2
<1>8. CASE i # decodeBarcode(b)
  <2>1. \A x \in S : f[x] \in Int /\ h[x] = f[x]
    BY <1>2, <1>3, <1>4, <1>5, <1>8
  <2>2. SumFunctionOnSet(h, S) = SumFunctionOnSet(f, S)
    BY <1>2, <2>1, SumOfEqual
  <2> QED BY <1>1, <1>6, <1>8, <2>2
<1> QED BY <1>7, <1>8

LEMMA StockedPiece ==
    ASSUME NEW t \in Digests, Stocked(t), NEW b \in Barcodes, NEW d \in Digests, NEW delta \in Int,
           d.items = [t.items EXCEPT ![decodeBarcode(b)] = @ + delta],
           NEW count \in Nat, count >= t.barcodes[b] + delta,
           d.barcodes = [t.barcodes EXCEPT ![b] = count]
    PROVE  Stocked(d)
<1>0. decodeBarcode(b) \in ItemCodes
  BY DecodeBarcodeTyped
<1>1. PICK items \in [ItemCodes -> Nat], f \in [Barcodes -> Nat] : items = t.items /\ f = t.barcodes
  BY DigestFields
<1>2. ASSUME NEW i \in ItemCodes
      PROVE  d.items[i] <= SumFunctionOnSet(d.barcodes, BarcodesOf(i))
  <2>1. PICK h \in [Barcodes -> Nat] :
            h = d.barcodes /\ h[b] = count /\ \A x \in Barcodes \ {b} : h[x] = f[x]
    BY <1>1
  <2>2. /\ SumFunctionOnSet(f, BarcodesOf(i)) \in Int
        /\ SumFunctionOnSet(h, BarcodesOf(i))
             = SumFunctionOnSet(f, BarcodesOf(i))
                 + (IF i = decodeBarcode(b) THEN count - f[b] ELSE 0)
    BY <2>1, SumOfPiece
  <2>3. items[i] <= SumFunctionOnSet(f, BarcodesOf(i)) /\ items[i] \in Nat /\ f[b] \in Nat
    BY <1>1 DEF Stocked
  <2>4. d.items[i] = IF i = decodeBarcode(b) THEN items[i] + delta ELSE items[i]
    BY <1>0, <1>1
  <2>5. count >= f[b] + delta
    BY <1>1
  <2> QED BY <2>1, <2>2, <2>3, <2>4, <2>5
<1> QED BY <1>2 DEF Stocked

LEMMA TellStocked ==
    ASSUME NEW t \in Digests, Stocked(t), NEW r \in Rows, Fit(t, r)
    PROVE  tell(t, r) \in Digests /\ Stocked(tell(t, r))
<1>0. t.open \in BOOLEAN /\ t.items \in [ItemCodes -> Nat] /\ t.barcodes \in [Barcodes -> Nat]
  BY DigestFields
<1>1. CASE ~t.open
  BY <1>1 DEF tell
<1>2. CASE t.open /\ r.object # "I"
  BY <1>2, TellOtherTyped DEF Stocked
<1>3. CASE t.open /\ r.object = "I"
  <2> DEFINE b == r.code
             item == decodeBarcode(b)
  <2>1. b \in Barcodes /\ item \in ItemCodes
    BY <1>3, DecodeBarcodeTyped DEF Rows
  <2>2. tell(t, r) = IF r.action = "A" THEN tellAdd(t, b) ELSE tellRemove(t, b)
    BY <1>3 DEF tell
  <2>3. r.action = "A" \/ t.items[item] # 0 => ToldPrice(t, b) \in Int
    <3>1. (r.action = "A" \/ t.items[item] # 0) /\ ~PriceChangesWhileShopping
              => t.prices[item] # NoPrice
      BY <1>3 DEF Fit
    <3> QED BY <2>1, <3>1, ToldPriceInt
  <2> HIDE DEF b
  <2>4. CASE r.action = "A"
    <3>1. PICK d : d = tellAdd(t, b)
      OBVIOUS
    <3>2. /\ d \in Digests /\ d.items = [t.items EXCEPT ![item] = @ + 1]
          /\ d.barcodes = [t.barcodes EXCEPT ![b] = @ + 1]
      BY <1>3, <2>1, <2>3, <2>4, <3>1, TellAddTyped
    <3>3. PICK count \in Nat : count = t.barcodes[b] + 1
      BY <1>0, <2>1
    <3>4. Stocked(d)
      <4>1. 1 \in Int /\ count >= t.barcodes[b] + 1 /\ d.barcodes = [t.barcodes EXCEPT ![b] = count]
        BY <1>0, <2>1, <3>2, <3>3
      <4> QED BY <2>1, <3>2, <4>1, StockedPiece
    <3> QED BY <2>2, <2>4, <3>1, <3>2, <3>4
  <2>5. CASE r.action # "A" /\ t.items[item] # 0
    <3>1. PICK d : d = tellRemove(t, b)
      OBVIOUS
    <3>2. /\ d \in Digests /\ d.items = [t.items EXCEPT ![item] = @ - 1]
          /\ d.barcodes = [t.barcodes EXCEPT ![b] = OneLess(@)]
      BY <1>3, <2>1, <2>3, <2>5, <3>1, TellRemoveTyped
    <3>3. PICK count \in Nat : count = OneLess(t.barcodes[b]) /\ count >= t.barcodes[b] + -1
      BY <1>0, <2>1 DEF OneLess
    <3>4. Stocked(d)
      <4>1. /\ -1 \in Int /\ d.barcodes = [t.barcodes EXCEPT ![b] = count]
            /\ d.items = [t.items EXCEPT ![item] = @ + -1]
        BY <1>0, <2>1, <3>2, <3>3
      <4> QED BY <2>1, <3>2, <3>3, <4>1, StockedPiece
    <3> QED BY <2>2, <2>5, <3>1, <3>2, <3>4
  <2>6. CASE r.action # "A" /\ t.items[item] = 0
    BY <2>2, <2>6 DEF tellRemove
  <2> QED BY <2>4, <2>5, <2>6
<1> QED BY <1>0, <1>1, <1>2, <1>3

\* No piece is hidden from the till: of every item of every session there are
\* at least as many barcodes for the lines of sendToPos as pieces in the cart,
\* whatever was scanned, voided through another barcode or replayed.
THEOREM NoPieceIsHidden ==
    ASSUME PlainLinks
    PROVE  Spec => []PiecesHaveBarcodes
<1>1. ASSUME IInv, TaleInv PROVE PiecesHaveBarcodes
  <2> SUFFICES ASSUME NEW n \in sessions, NEW i \in ItemCodes
               PROVE  carts_map[n].cart_items_map[i]
                        <= SumFunctionOnSet(carts_map[n].barcodes_map, BarcodesOf(i))
    BY DEF PiecesHaveBarcodes, BarcodesOf
  <2> DEFINE G == {t \in Digests : Stocked(t)}
  <2>1. journal[n] \in Seq(Rows)
    BY <1>1, SessionInStory
  <2>2. PICK s : \E k \in 0 .. Len(journal[n]) :
            Story(s, journal[n]) /\ s[0] = Blank /\ s[k] = Told(carts_map[n])
    BY <1>1, SessionInStory
  <2>0. PICK k \in 0 .. Len(journal[n]) :
            Story(s, journal[n]) /\ s[0] = Blank /\ s[k] = Told(carts_map[n])
    BY <2>2
  <2>3. Blank \in G
    <3>1. ASSUME NEW j \in ItemCodes
          PROVE  Blank.items[j] <= SumFunctionOnSet(Blank.barcodes, BarcodesOf(j))
      <4>1. \A x \in BarcodesOf(j) : Blank.barcodes[x] = 0
        BY BlankFields, FiniteCodes
      <4>2. SumFunctionOnSet(Blank.barcodes, BarcodesOf(j)) = 0
        BY <4>1, FiniteCodes, SumOfZeros
      <4> QED BY <4>2, BlankFields
    <3> QED BY <3>1, BlankTyped DEF Stocked
  <2>4. \A t \in G : \A j \in 1 .. Len(journal[n]) :
            Fit(t, journal[n][j]) => tell(t, journal[n][j]) \in G
    <3>1. \A j \in 1 .. Len(journal[n]) : journal[n][j] \in Rows
      BY <2>1
    <3> QED BY <3>1, TellStocked
  <2>5. s[k] \in G
    <3> HIDE DEF G
    <3> QED BY <2>0, <2>1, <2>3, <2>4, StoryHolds
  <2>6. Stocked(Told(carts_map[n]))
    BY <2>0, <2>5
  <2> QED BY <2>6, ToldFields DEF Stocked
<1> QED BY <1>1, TaleHolds, Inductive, PTL

-----------------------------------------------------------------------------
(* Pieces and prices *)

\* What the pieces of each item cost, in terms of a digest.
WorthOf(t) == [i \in ItemCodes |-> IF t.items[i] > 0 THEN t.items[i] * t.prices[i] ELSE 0]

\* The gross total is what the pieces cost, and the pieces are counted.
Balanced(t) ==
    /\ t.gross = SumFunctionOnSet(WorthOf(t), ItemCodes)
    /\ t.number = SumFunctionOnSet(t.items, ItemCodes)
    /\ \A i \in ItemCodes : t.items[i] # 0 => t.prices[i] # NoPrice
    /\ t.prices[NoItem] \in {NoPrice, 0}

LEMMA OppositeOfZero ==
    ASSUME NEW x \in Int, NEW y \in Int, x = 0, y + x = 0
    PROVE  y = 0
OBVIOUS

LEMMA Distribute == \A n, k, p \in Int : (n + k) * p = n * p + k * p
OBVIOUS

LEMMA WorthTyped ==
    ASSUME NEW t \in Digests, \A i \in ItemCodes : t.items[i] # 0 => t.prices[i] # NoPrice
    PROVE  WorthOf(t) \in [ItemCodes -> Int]
<1> SUFFICES ASSUME NEW i \in ItemCodes, t.items[i] > 0 PROVE t.items[i] * t.prices[i] \in Int
  BY DEF WorthOf
<1>1. t.items[i] \in Nat /\ t.prices[i] \in Int \cup {NoPrice}
  BY DigestFields
<1>2. PICK n \in Int, p \in Int : n = t.items[i] /\ p = t.prices[i]
  BY <1>1
<1>3. n * p \in Int
  OBVIOUS
<1> QED BY <1>2, <1>3

\* A digest with the same pieces at the same prices.
LEMMA BalancedSame ==
    ASSUME NEW t \in Digests, Balanced(t), NEW d \in Digests, d.items = t.items,
           d.number = t.number, d.gross = t.gross,
           \A i \in ItemCodes :
              \/ d.prices[i] = t.prices[i]
              \/ t.items[i] = 0 /\ (i = NoItem => d.prices[i] \in {NoPrice, 0})
    PROVE  Balanced(d)
<1>1. NoItem \in ItemCodes /\ t.items \in [ItemCodes -> Nat]
  BY DepartmentZero, DigestFields
<1>2. /\ \A i \in ItemCodes : d.items[i] # 0 => d.prices[i] # NoPrice
      /\ d.prices[NoItem] \in {NoPrice, 0}
  BY <1>1 DEF Balanced
<1>3. WorthOf(d) = WorthOf(t)
  BY <1>1 DEF WorthOf
<1> QED BY <1>2, <1>3 DEF Balanced

\* A piece more or less.
LEMMA BalancedPiece ==
    ASSUME NEW t \in Digests, Balanced(t), NEW d \in Digests, NEW item \in ItemCodes,
           NEW delta \in Int, NEW price \in Int, t.prices[item] = price,
           d.items = [t.items EXCEPT ![item] = @ + delta], d.prices = t.prices,
           d.number = t.number + delta, d.gross = t.gross + delta * price
    PROVE  Balanced(d)
<1>1. PICK a \in [ItemCodes -> Nat], b \in [ItemCodes -> Nat] : a = t.items /\ b = d.items
  BY DigestFields
<1>2. b[item] = a[item] + delta /\ \A i \in ItemCodes \ {item} : b[i] = a[i]
  BY <1>1
<1>3. IsFiniteSet(ItemCodes) /\ NoPrice # price
  BY FiniteCodes, CatalogueAssumption
<1>4. \A i \in ItemCodes : b[i] # 0 => d.prices[i] # NoPrice
  <2>1. \A i \in ItemCodes : a[i] # 0 => t.prices[i] # NoPrice
    BY <1>1 DEF Balanced
  <2> QED BY <1>2, <1>3, <2>1
<1>5. SumFunctionOnSet(b, ItemCodes) = SumFunctionOnSet(a, ItemCodes) + delta
  <2>1. DifferAt(a, b, ItemCodes, item)
    BY <1>2 DEF DifferAt
  <2>2. SumFunctionOnSet(b, ItemCodes) = SumFunctionOnSet(a, ItemCodes) + (b[item] - a[item])
    BY <1>3, <2>1, SumDifference
  <2>3. b[item] - a[item] = delta
    BY <1>2
  <2> QED BY <2>2, <2>3
<1>6. PICK f \in [ItemCodes -> Int], h \in [ItemCodes -> Int] : f = WorthOf(t) /\ h = WorthOf(d)
  <2>1. WorthOf(t) \in [ItemCodes -> Int]
    BY WorthTyped DEF Balanced
  <2>2. WorthOf(d) \in [ItemCodes -> Int]
    BY <1>1, <1>4, WorthTyped
  <2> QED BY <2>1, <2>2
<1>7. h[item] - f[item] = delta * price
  <2>1. f[item] = a[item] * price
    <3>1. f[item] = IF a[item] > 0 THEN a[item] * price ELSE 0
      BY <1>1, <1>6 DEF WorthOf
    <3>2. 0 * price = 0
      OBVIOUS
    <3> QED BY <3>1, <3>2
  <2>2. h[item] = b[item] * price
    <3>1. h[item] = IF b[item] > 0 THEN b[item] * price ELSE 0
      BY <1>1, <1>6 DEF WorthOf
    <3>2. 0 * price = 0
      OBVIOUS
    <3> QED BY <3>1, <3>2
  <2>3. PICK n \in Int : n = a[item]
    OBVIOUS
  <2>4. h[item] = n * price + delta * price /\ f[item] = n * price
    BY <1>2, <2>1, <2>2, <2>3, Distribute
  <2>5. n * price \in Int /\ delta * price \in Int
    OBVIOUS
  <2> QED BY <2>4, <2>5
<1>8. SumFunctionOnSet(h, ItemCodes) = SumFunctionOnSet(f, ItemCodes) + delta * price
  <2>1. \A i \in ItemCodes \ {item} : h[i] = f[i]
    BY <1>1, <1>2, <1>6 DEF WorthOf
  <2>2. DifferAt(f, h, ItemCodes, item)
    BY <2>1 DEF DifferAt
  <2>3. SumFunctionOnSet(h, ItemCodes) = SumFunctionOnSet(f, ItemCodes) + (h[item] - f[item])
    BY <1>3, <2>2, SumDifference
  <2> QED BY <1>7, <2>3
<1> QED BY <1>1, <1>4, <1>5, <1>6, <1>8 DEF Balanced

\* A row that names no barcode with a price of its own.
Unpriced(r) == ~(r.object = "I" /\ barcode_type[r.code] = "EAN13_PRICE_REQ")

LEMMA TellBalanced ==
    ASSUME NEW t \in Digests, Balanced(t), NEW r \in Rows, Fit(t, r), Unpriced(r),
           SteadyBills, DepartmentsGiven, ~PriceChangesWhileShopping
    PROVE  tell(t, r) \in Digests /\ Balanced(tell(t, r))
<1>0. /\ t.open \in BOOLEAN /\ t.items \in [ItemCodes -> Nat] /\ t.gross \in Int
      /\ t.prices \in [ItemCodes -> Int \cup {NoPrice}]
  BY DigestFields
<1>1. CASE ~t.open
  BY <1>1 DEF tell
<1>2. CASE t.open /\ r.object # "I"
  <2>1. PICK d : d = tell(t, r)
    OBVIOUS
  <2>2. /\ d \in Digests /\ d.items = t.items /\ d.number = t.number /\ d.gross = t.gross
        /\ \A i \in ItemCodes :
              \/ d.prices[i] = t.prices[i]
              \/ t.items[i] = 0 /\ d.prices[i] = NoPrice
              \/ /\ t.prices[i] = NoPrice
                 /\ r.object = "K" /\ r.action = "I" /\ r.code = i /\ d.prices[i] = r.price
    BY <1>2, <2>1, TellOtherTyped
  <2>3. r.object = "K" /\ r.action = "I" /\ r.code = NoItem => r.price = 0
    <3>1. NoItem \in Fixed /\ InitialArchive[NoItem].price = 0
      BY BaseSystemAssumption DEF Fixed, DefaultItem
    <3> QED BY <3>1 DEF Fit
  <2>4. \A i \in ItemCodes : t.prices[i] = NoPrice => t.items[i] = 0
    BY DEF Balanced
  <2>5. \A i \in ItemCodes :
            \/ d.prices[i] = t.prices[i]
            \/ t.items[i] = 0 /\ (i = NoItem => d.prices[i] \in {NoPrice, 0})
    BY <2>2, <2>3, <2>4
  <2> QED BY <2>1, <2>2, <2>5, BalancedSame
<1>3. CASE t.open /\ r.object = "I"
  <2> DEFINE item == decodeBarcode(r.code)
  <2>1. PICK b \in Barcodes : b = r.code
    BY <1>3 DEF Rows
  <2>2. tell(t, r) = IF r.action = "A" THEN tellAdd(t, b) ELSE tellRemove(t, b)
    BY <1>3, <2>1 DEF tell
  <2>3. item \in ItemCodes /\ item = decodeBarcode(b)
    BY <2>1, DecodeBarcodeTyped
  <2>4. ToldPrice(t, b) = t.prices[item]
    BY <1>3, <2>1 DEF ToldPrice, Unpriced
  <2> HIDE DEF item
  <2>5. CASE r.action # "A" /\ t.items[item] = 0
    BY <2>2, <2>3, <2>5 DEF tellRemove
  <2>6. CASE r.action = "A" \/ t.items[item] # 0
    <3>1. t.prices[item] # NoPrice
      BY <1>3, <2>6 DEF Fit, item
    <3>2. PICK price \in Int : price = t.prices[item]
      BY <1>0, <2>3, <3>1
    <3>3. item = NoItem => price = 0
      BY <3>1, <3>2 DEF Balanced
    <3>4. Units(item, price) = price /\ Units(item, -price) = -price
      <4>1. CASE item = NoItem
        <5>1. price = 0
          BY <3>3, <4>1
        <5>2. PICK other \in Int : other = -price /\ other + price = 0
          OBVIOUS
        <5>3. other = 0
          BY <5>1, <5>2, OppositeOfZero
        <5>4. Units(item, 0) = 0
          BY DEF Units, Charged
        <5> QED BY <5>1, <5>2, <5>3, <5>4
      <4>2. CASE item # NoItem
        <5>1. InitialArchive[item].department # NoDepartment
          BY <2>3, <4>2 DEF DepartmentsGiven, ItemCodes
        <5> QED BY <5>1 DEF Units, Charged
      <4> QED BY <4>1, <4>2
    <3>5. PICK d : d = tell(t, r)
      OBVIOUS
    <3>6. CASE r.action = "A"
      <4>1. /\ d \in Digests /\ d.items = [t.items EXCEPT ![item] = @ + 1]
            /\ d.number = t.number + 1 /\ d.prices = t.prices /\ d.gross = t.gross + price
        <5>1. d = tellAdd(t, b) /\ ToldPrice(t, b) \in Int
          BY <2>2, <2>4, <3>2, <3>5, <3>6
        <5>2. /\ d \in Digests /\ d.items = [t.items EXCEPT ![decodeBarcode(b)] = @ + 1]
              /\ d.number = t.number + 1 /\ d.prices = t.prices
              /\ d.gross = t.gross + Units(decodeBarcode(b), ToldPrice(t, b))
          BY <1>3, <5>1, TellAddTyped
        <5> QED BY <2>3, <2>4, <3>2, <3>4, <5>2
      <4>2. 1 * price = price /\ 1 \in Int
        OBVIOUS
      <4>3. d.gross = t.gross + 1 * price
        BY <4>1, <4>2
      <4>4. Balanced(d)
        BY <2>3, <3>2, <4>1, <4>2, <4>3, BalancedPiece
      <4> QED BY <3>5, <4>1, <4>4
    <3>7. CASE r.action # "A"
      <4>1. /\ d \in Digests /\ d.items = [t.items EXCEPT ![item] = @ - 1]
            /\ d.number = t.number - 1 /\ d.prices = t.prices /\ d.gross = t.gross + (-price)
        <5>1. /\ d = tellRemove(t, b) /\ ToldPrice(t, b) \in Int
              /\ t.items[decodeBarcode(b)] # 0
          BY <2>2, <2>3, <2>4, <2>6, <3>2, <3>5, <3>7
        <5>2. /\ d \in Digests /\ d.items = [t.items EXCEPT ![decodeBarcode(b)] = @ - 1]
              /\ d.number = t.number - 1 /\ d.prices = t.prices
              /\ d.gross = t.gross + Units(decodeBarcode(b), -ToldPrice(t, b))
          BY <1>3, <5>1, TellRemoveTyped
        <5> QED BY <2>3, <2>4, <3>2, <3>4, <5>2
      <4>2. PICK delta \in Int : delta = -1
        OBVIOUS
      <4>3. /\ d.items = [t.items EXCEPT ![item] = @ + delta]
            /\ d.number = t.number + delta /\ d.gross = t.gross + delta * price
        <5>1. t.items[item] \in Nat /\ t.number \in Int /\ delta * price = -price
          BY <1>0, <2>3, <4>2, DigestFields
        <5> QED BY <4>1, <4>2, <5>1
      <4>4. Balanced(d)
        BY <2>3, <3>2, <4>1, <4>3, BalancedPiece
      <4> QED BY <3>5, <4>1, <4>4
    <3> QED BY <3>6, <3>7
  <2> QED BY <2>5, <2>6
<1> QED BY <1>0, <1>1, <1>2, <1>3

LEMMA BlankBalanced == Balanced(Blank)
<1>1. NoItem \in ItemCodes /\ IsFiniteSet(ItemCodes)
  BY DepartmentZero, FiniteCodes
<1>2. \A i \in ItemCodes : WorthOf(Blank)[i] = 0 /\ Blank.items[i] = 0
  BY BlankFields DEF WorthOf
<1>3. SumFunctionOnSet(WorthOf(Blank), ItemCodes) = 0 /\ SumFunctionOnSet(Blank.items, ItemCodes) = 0
  BY <1>1, <1>2, SumOfZeros
<1> QED BY <1>1, <1>2, <1>3, BlankFields DEF Balanced

\* A customer pays for every piece the price the item had when the session
\* first met it, in every store whose configuration freezes prices
\* (PriceChangesWhileShopping=0), whose items have departments and whose
\* variations leave deposits alone: through any variations of the other
\* prices, voids, deaths and starts, the gross total is the sum over the
\* pieces of the locally copied prices.
THEOREM PricesAreLocked ==
    ASSUME PlainLinks, SteadyBills, DepartmentsGiven, ~PriceChangesWhileShopping
    PROVE  Spec => []PriceLocked
<1>1. ASSUME IInv, TaleInv PROVE PriceLocked
  <2> SUFFICES ASSUME NEW n \in sessions, ~PricedByBarcode(n)
               PROVE  /\ Gross(carts_map[n]) = SumFunction(Worth(carts_map[n]))
                      /\ carts_map[n].items_number = SumFunction(carts_map[n].cart_items_map)
    BY DEF PriceLocked
  <2> DEFINE G == {t \in Digests : Balanced(t)}
  <2>1. PICK c \in Carts : c = carts_map[n] /\ Known(c) /\ journal[n] \in Seq(Rows)
    BY <1>1, SessionInStory
  <2>2. PICK s : \E k \in 0 .. Len(journal[n]) :
            Story(s, journal[n]) /\ s[0] = Blank /\ s[k] = Told(carts_map[n])
    BY <1>1, SessionInStory
  <2>3. PICK k \in 0 .. Len(journal[n]) :
            Story(s, journal[n]) /\ s[0] = Blank /\ s[k] = Told(carts_map[n])
    BY <2>2
  <2>4. Blank \in G
    BY BlankBalanced, BlankTyped
  <2>5. \A t \in G : \A j \in 1 .. Len(journal[n]) :
            Fit(t, journal[n][j]) => tell(t, journal[n][j]) \in G
    <3>1. \A j \in 1 .. Len(journal[n]) : journal[n][j] \in Rows /\ Unpriced(journal[n][j])
      BY <2>1 DEF PricedByBarcode, Unpriced
    <3> QED BY <3>1, TellBalanced
  <2>6. s[k] \in G
    <3> HIDE DEF G
    <3> QED BY <2>1, <2>3, <2>4, <2>5, StoryHolds
  <2>7. PICK t \in Digests : Balanced(t) /\ t = Told(c)
    BY <2>1, <2>3, <2>6
  <2>8. t.items = c.cart_items_map /\ t.number = c.items_number /\ t.gross = Gross(c)
    BY <2>7, ToldFields
  <2>9. \A i \in ItemCodes : c.cart_items_map[i] > 0 => t.prices[i] = c.items_local_copy_map[i]
    BY <2>1, <2>7 DEF Told, Digest, Held, Carts
  <2>10. WorthOf(t) = Worth(c)
    BY <2>8, <2>9 DEF WorthOf, Worth
  <2>11. SumFunctionOnSet(Worth(c), ItemCodes) = SumFunction(Worth(c))
    <3>1. DOMAIN Worth(c) = ItemCodes
      BY DEF Worth
    <3> QED BY <3>1 DEF SumFunction
  <2>12. SumFunctionOnSet(c.cart_items_map, ItemCodes) = SumFunction(c.cart_items_map)
    <3>1. DOMAIN c.cart_items_map = ItemCodes
      BY DEF Carts
    <3> QED BY <3>1 DEF SumFunction
  <2> QED BY <2>1, <2>7, <2>8, <2>10, <2>11, <2>12 DEF Balanced
<1> QED BY <1>1, TaleHolds, Inductive, PTL
==============================================================================
