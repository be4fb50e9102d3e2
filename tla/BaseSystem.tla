----------------------------- MODULE BaseSystem -----------------------------
(***************************************************************************)
(* class BaseSystem: the self-scan sessions of a store, the files that     *)
(* make them survive a restart, and the life of the process itself.        *)
(*                                                                         *)
(* The server handles one request at a time here ([Web] Threads=1), but    *)
(* the process may die between any two rows a request writes, and on its   *)
(* next start loads the carts from their files, in the order the           *)
(* directory lists them.  The thread that applies variation files runs     *)
(* between any two requests.                                               *)
(***************************************************************************)
EXTENDS Cart

CONSTANTS
    CartNumbers,                    \* session ids this instance may reach
    OnlyOneShoppingSessionPerCard,  \* [Loy] OnlyOneShoppingSessionPerCard
    Tills,                          \* pay stations
    NoBasket,                       \* a till without a POSnnn.IN file
    InitialArchive,                 \* ITEMS.CSV before the first start
    Variations,                     \* item rows that variation files may hold
    MaxRows                         \* bound: rows of each journal

NoCart == 0

ASSUME BaseSystemAssumption ==
    /\ CartNumbers \subseteq Nat \ {NoCart}
    /\ OnlyOneShoppingSessionPerCard \in BOOLEAN
    /\ InitialArchive \in [ItemCodes -> ItemRows]
    /\ InitialArchive[NoItem] = DefaultItem
    /\ Variations \subseteq [code : Items, price : Int, department : Departments]
    /\ MaxRows \in [CartNumbers -> Nat]

VARIABLES
    mode,              \* "down", "loading" (the constructor) or "running"
    carts_map,         \* the carts in memory ...
    sessions,          \* ... and the keys of the map
    next_cart_number,  \* the next session id
    all_loy_cards_map, \* the session a loyalty card was last registered for
    items_map,         \* ITEMS.CSV in memory
    load,              \* loadCartsInProgress: files to do, open file, next row
    reply,             \* return code of the last answer
    files,             \* carts that have a transaction_in_progress file
    journal,           \* the rows of those files
    items_csv,         \* ITEMS.CSV on disk
    scan_in            \* POSnnn.IN of each till

memory == <<carts_map, sessions, next_cart_number, all_loy_cards_map, items_map, load, reply>>
disk   == <<files, journal, items_csv, scan_in>>
vars   == <<mode, memory, disk>>

Baskets == [session : CartNumbers, items_number : Int, total_amount : Int,
            lines : [Barcodes -> Nat]]

\* A till that has nothing to read has no basket.
ASSUME NoBasketAssumption == NoBasket \notin Baskets

BlankCarts == [n \in CartNumbers |-> NewCart(CART_STATE_TMPFILE_LOADING)]
NothingToLoad == [todo |-> {}, file |-> NoCart, row |-> 0]

TypeOK ==
    /\ mode \in {"down", "loading", "running"}
    /\ carts_map \in [CartNumbers -> Carts]
    /\ sessions \subseteq CartNumbers
    /\ next_cart_number \in Nat
    /\ all_loy_cards_map \in [Cards -> CartNumbers \cup {NoCart}]
    /\ items_map \in [ItemCodes -> ItemRows]
    /\ load \in [todo : SUBSET CartNumbers, file : CartNumbers \cup {NoCart}, row : Nat]
    /\ reply \in Nat
    /\ files \subseteq CartNumbers
    /\ journal \in [CartNumbers -> Seq(Rows)]
    /\ items_csv \in [ItemCodes -> ItemRows]
    /\ scan_in \in [Tills -> Baskets \cup {NoBasket}]

-----------------------------------------------------------------------------
(* The process: it starts, dies, and finds its memory empty. *)

EmptyMemory ==
    /\ carts_map' = BlankCarts
    /\ sessions' = {}
    /\ next_cart_number' = 1
    /\ all_loy_cards_map' = [card \in Cards |-> NoCart]
    /\ items_map' = items_csv
    /\ reply' = RC_OK

Init ==
    /\ mode = "down"
    /\ carts_map = BlankCarts
    /\ sessions = {}
    /\ next_cart_number = 1
    /\ all_loy_cards_map = [card \in Cards |-> NoCart]
    /\ items_map = InitialArchive
    /\ load = NothingToLoad
    /\ reply = RC_OK
    /\ files = {}
    /\ journal = [n \in CartNumbers |-> << >>]
    /\ items_csv = InitialArchive
    /\ scan_in = [t \in Tills |-> NoBasket]

\* The constructor up to the loop of loadCartsInProgress: archives are read,
\* session ids start again at 1, every file of CARTS is to be loaded.
Start ==
    /\ mode = "down"
    /\ mode' = "loading"
    /\ EmptyMemory
    /\ load' = [NothingToLoad EXCEPT !.todo = files]
    /\ UNCHANGED disk

\* The process ends, by a fault, a kill or a stop signal.
Crash ==
    /\ mode # "down"
    /\ mode' = "down"
    /\ EmptyMemory
    /\ load' = NothingToLoad
    /\ UNCHANGED disk

-----------------------------------------------------------------------------
(* loadCartsInProgress *)

\* (mutant) pieces are replayed at the prices of the archive
replayRowAtNewPrices(c, r) ==
    LET item == decodeBarcode(r.code)
        row  == items_map[item]
    IN  CASE r.object = "I" /\ r.action = "A" ->
                addItemByBarcode(c, item, row, r.code, row.price, 0).cart
          [] r.object = "I" /\ r.action = "V" ->
                removeItemByBarcode(c, item, row, r.code, row.price, 0).cart
          [] r.object = "L" ->
                IF r.action = "A" THEN addLoyCard(c, r.code).cart ELSE removeLoyCard(c, r.code).cart
          [] r.object = "C" -> [c EXCEPT !.state = CART_STATE_VOIDED]
          [] r.object = "K" ->
                IF r.action = "I" /\ ~PriceChangesWhileShopping
                THEN updateLocalItemMap(c, r.code, [items_map[r.code] EXCEPT !.price = r.price]).cart
                ELSE c

\* The effect of one row on the cart being loaded: discounts are not in the
\* journal, and no row is written because the cart is TMPFILE_LOADING.
replayRow(c, r) ==
    CASE r.object = "I" ->
            LET item  == decodeBarcode(r.code)
                row   == items_map[item]
                price == getItemPrice(c, item, row, r.code)
            IN  IF r.action = "A"
                THEN addItemByBarcode(c, item, row, r.code, price, 0).cart
                ELSE removeItemByBarcode(c, item, row, r.code, price, 0).cart
      [] r.object = "L" ->
            IF r.action = "A" THEN addLoyCard(c, r.code).cart ELSE removeLoyCard(c, r.code).cart
      [] r.object = "C" -> [c EXCEPT !.state = CART_STATE_VOIDED]
      [] r.object = "K" ->
            IF r.action = "I" /\ ~PriceChangesWhileShopping
            THEN updateLocalItemMap(c, r.code, [items_map[r.code] EXCEPT !.price = r.price]).cart
            ELSE c

\* (mutant) every loaded cart serves again
reopenedAlways(c) == [c EXCEPT !.state = CART_STATE_READY_FOR_ITEM]

\* Once its rows are replayed a cart serves again, unless it was voided.
reopened(c) ==
    IF c.state \in {CART_STATE_VOIDED, CART_STATE_CLOSED} THEN c
    ELSE [c EXCEPT !.state = CART_STATE_READY_FOR_ITEM]

\* (mutant) the directory iterator is not advanced
OpenSameFile(n) ==
    /\ mode = "loading"
    /\ load.file = NoCart
    /\ n \in load.todo
    /\ load' = [load EXCEPT !.file = n, !.row = 1]
    /\ sessions' = sessions \cup {n}
    /\ carts_map' = [carts_map EXCEPT ![n] = NewCart(CART_STATE_TMPFILE_LOADING)]
    /\ UNCHANGED <<mode, next_cart_number, all_loy_cards_map, items_map, reply, disk>>

OpenFile(n) ==
    /\ mode = "loading"
    /\ load.file = NoCart
    /\ n \in load.todo
    /\ load' = [todo |-> load.todo \ {n}, file |-> n, row |-> 1]
    /\ sessions' = sessions \cup {n}
    /\ carts_map' = [carts_map EXCEPT ![n] = NewCart(CART_STATE_TMPFILE_LOADING)]
    /\ UNCHANGED <<mode, next_cart_number, all_loy_cards_map, items_map, reply, disk>>

LoadRow(n) ==
    /\ mode = "loading"
    /\ n = load.file
    /\ load.row <= Len(journal[n])
    /\ LET r == journal[n][load.row]
       IN  /\ carts_map' = [carts_map EXCEPT ![n] = replayRow(@, r)]
           /\ all_loy_cards_map' =
                IF r.object = "L"
                THEN [all_loy_cards_map EXCEPT ![r.code] = IF r.action = "A" THEN n ELSE NoCart]
                ELSE all_loy_cards_map
    /\ load' = [load EXCEPT !.row = @ + 1]
    /\ UNCHANGED <<mode, sessions, next_cart_number, items_map, reply, disk>>

\* (mutant) the next id follows the file loaded last, not the highest one
CloseFileLastWins(n) ==
    /\ mode = "loading"
    /\ n = load.file
    /\ load.row > Len(journal[n])
    /\ carts_map' = [carts_map EXCEPT ![n] = reopened(@)]
    /\ next_cart_number' = n + 1
    /\ load' = [load EXCEPT !.file = NoCart, !.row = 0]
    /\ UNCHANGED <<mode, sessions, all_loy_cards_map, items_map, reply, disk>>

\* (mutant) the last row of the file is not replayed
CloseFileEarly(n) ==
    /\ mode = "loading"
    /\ n = load.file
    /\ load.row >= Len(journal[n])
    /\ carts_map' = [carts_map EXCEPT ![n] = reopened(@)]
    /\ next_cart_number' = IF n >= next_cart_number THEN n + 1 ELSE next_cart_number
    /\ load' = [load EXCEPT !.file = NoCart, !.row = 0]
    /\ UNCHANGED <<mode, sessions, all_loy_cards_map, items_map, reply, disk>>

CloseFile(n) ==
    /\ mode = "loading"
    /\ n = load.file
    /\ load.row > Len(journal[n])
    /\ carts_map' = [carts_map EXCEPT ![n] = reopened(@)]
    /\ next_cart_number' = IF n >= next_cart_number THEN n + 1 ELSE next_cart_number
    /\ load' = [load EXCEPT !.file = NoCart, !.row = 0]
    /\ UNCHANGED <<mode, sessions, all_loy_cards_map, items_map, reply, disk>>

\* Every file is loaded: the variation thread and the web server start.
StartServing ==
    /\ mode = "loading"
    /\ load.file = NoCart
    /\ load.todo = {}
    /\ mode' = "running"
    /\ UNCHANGED <<memory, disk>>

Loading ==
    \/ \E n \in CartNumbers : OpenFile(n) \/ LoadRow(n) \/ CloseFile(n)
    \/ StartServing

-----------------------------------------------------------------------------
(* The sales actions on a cart, as the Result of the whole request. *)

\* The local copy of an item, kept only if prices may not change.
remember(c, item) ==
    IF PriceChangesWhileShopping THEN Result(c, << >>, RC_OK)
    ELSE updateLocalItemMap(c, item, items_map[item])

addScanned(c, b) ==
    LET item  == decodeBarcode(b)
        known == remember(c, item)
        price == getItemPrice(known.cart, item, items_map[item], b)
        added == addItemByBarcode(known.cart, item, items_map[item], b, price,
                                  promoValue(item, price))
    IN  Result(added.cart, known.rows \o added.rows, added.rc)

\* The linked item is sold at the price of the archive, not of the local copy.
addLinked(c, b) ==
    LET item  == item_of[b]
        known == remember(c, item)
        added == addItemByBarcode(known.cart, item, items_map[item], b, items_map[item].price, 0)
    IN  Result(added.cart, known.rows \o added.rows, added.rc)

\* Two parts of a request; the client is told how the first one went.
andThen(first, second) == Result(second.cart, first.rows \o second.rows, first.rc)

itemAdd(c, b) ==
    LET item   == decodeBarcode(b)
        linked == items_map[item].linked
        main   == addScanned(c, b)
    IN  CASE barcode_type[b] = "NOT_RECOGNIZED" -> Result(c, << >>, BCODE_NOT_RECOGNIZED)
          [] barcode_type[b] # "NOT_RECOGNIZED" /\ item = NoItem ->
                Result(c, << >>, BCODE_ITEM_NOT_FOUND)
          [] barcode_type[b] # "NOT_RECOGNIZED" /\ item # NoItem ->
                IF main.rc = RC_OK /\ linked # NoBarcode
                THEN andThen(main, addLinked(main.cart, linked))
                ELSE main

\* The type of the barcode is not looked at, and an unknown barcode stands for
\* the default item.  No discount is given back.
itemVoid(c, b) ==
    LET item   == decodeBarcode(b)
        row    == items_map[item]
        main   == removeItemByBarcode(c, item, row, b, getItemPrice(c, item, row, b), 0)
        other  == item_of[row.linked]
    IN  IF main.rc = RC_OK /\ row.linked # NoBarcode
        THEN andThen(main, removeItemByBarcode(main.cart, other, items_map[other], row.linked,
                                               items_map[other].price, 0))
        ELSE main

-----------------------------------------------------------------------------
(* Requests.  A request runs to its end, or the process dies when some of  *)
(* the rows it writes are in the file.                                     *)

Serves(n, rows) ==
    /\ mode = "running"
    /\ n \in sessions
    /\ Len(journal[n]) + Len(rows) <= MaxRows[n]

Handle(n, r) ==
    /\ Serves(n, r.rows)
    /\ carts_map' = [carts_map EXCEPT ![n] = r.cart]
    /\ journal' = [journal EXCEPT ![n] = @ \o r.rows]
    /\ reply' = dummyRc(r.rc)
    /\ UNCHANGED <<mode, sessions, next_cart_number, items_map, load, files, items_csv>>

DieWhile(n, r) ==
    /\ Serves(n, r.rows)
    /\ \E k \in 1 .. Len(r.rows) :
          journal' = [journal EXCEPT ![n] = @ \o SubSeq(r.rows, 1, k)]
    /\ mode' = "down"
    /\ EmptyMemory
    /\ load' = NothingToLoad
    /\ UNCHANGED <<files, items_csv, scan_in>>

\* WEBI_SESSION_INIT, newCart: the constructor of the cart creates its file;
\* a session that is in the map already is not replaced.
SessionInit ==
    LET n == next_cart_number
    IN  /\ mode = "running"
        /\ n \in CartNumbers
        /\ files' = files \cup {n}
        /\ sessions' = sessions \cup {n}
        /\ carts_map' = IF n \in sessions THEN carts_map
                        ELSE [carts_map EXCEPT ![n] = NewCart(CART_STATE_READY_FOR_ITEM)]
        /\ next_cart_number' = n + 1
        /\ reply' = RC_OK
        /\ UNCHANGED <<mode, all_loy_cards_map, items_map, load, journal, items_csv, scan_in>>

ItemAdd(n, b) ==
    /\ Handle(n, itemAdd(carts_map[n], b))
    /\ UNCHANGED <<all_loy_cards_map, scan_in>>

ItemVoid(n, b) ==
    /\ Handle(n, itemVoid(carts_map[n], b))
    /\ UNCHANGED <<all_loy_cards_map, scan_in>>

\* The card is looked up in the registry, then registered, then offered to
\* the cart: it stays registered for this session even if the cart refuses it.
cardRegistered(n, card) ==
    CASE all_loy_cards_map[card] = n -> RC_LOY_CARD_ALREADY_PRESENT
      [] /\ all_loy_cards_map[card] \notin {n, NoCart}
         /\ OnlyOneShoppingSessionPerCard -> RC_LOY_CARD_IN_ANOTHER_TRANSACTION
      [] OTHER -> RC_OK

customerAdd(n, card) ==
    IF cardRegistered(n, card) = RC_OK
    THEN addLoyCard(carts_map[n], card)
    ELSE Result(carts_map[n], << >>, cardRegistered(n, card))

CustomerAdd(n, card) ==
    /\ Handle(n, customerAdd(n, card))
    /\ all_loy_cards_map' =
          IF cardRegistered(n, card) = RC_OK
          THEN [all_loy_cards_map EXCEPT ![card] = n]
          ELSE all_loy_cards_map
    /\ UNCHANGED scan_in

CustomerVoid(n, card) ==
    LET r == removeLoyCard(carts_map[n], card)
    IN  /\ Handle(n, r)
        /\ all_loy_cards_map' =
              IF r.rc = RC_OK
              THEN [all_loy_cards_map EXCEPT ![card] = NoCart]
              ELSE all_loy_cards_map
        /\ UNCHANGED scan_in

SessionVoid(n) ==
    /\ Handle(n, voidAllCart(carts_map[n]))
    /\ UNCHANGED <<all_loy_cards_map, scan_in>>

\* WEBI_SESSION_END, sendToPos: the basket replaces the one a till has not
\* read yet; neither the cart nor its file changes.
SessionEnd(n, till) ==
    LET c == carts_map[n]
    IN  IF c.state = CART_STATE_READY_FOR_ITEM
        THEN /\ Handle(n, Result(c, << >>, RC_OK))
             /\ scan_in' = [scan_in EXCEPT ![till] =
                    [session      |-> n,
                     items_number |-> c.items_number,
                     total_amount |-> c.totals_map[0].total_amount,
                     lines        |-> c.barcodes_map]]
             /\ UNCHANGED all_loy_cards_map
        ELSE /\ Handle(n, Result(c, << >>, c.state))
             /\ UNCHANGED <<all_loy_cards_map, scan_in>>

\* A request that is answered 0 in every state of the cart and changes nothing of it.
CartAnswers(n) ==
    /\ Handle(n, Result(carts_map[n], << >>, RC_OK))
    /\ UNCHANGED <<all_loy_cards_map, scan_in>>

ManageRescan(n) == CartAnswers(n)
GetTotals(n) == CartAnswers(n)
\* With barcodes or without.
GetAllCart(n) == CartAnswers(n)

CartQuery(n) == ManageRescan(n) \/ GetTotals(n) \/ GetAllCart(n)

\* Requests that name no cart, or one that does not exist.
StoreQuery(rc) ==
    /\ mode = "running"
    /\ reply' = dummyRc(rc)
    /\ UNCHANGED <<mode, carts_map, sessions, next_cart_number, all_loy_cards_map,
                   items_map, load, disk>>

CartNotFound(n) == n \notin sessions /\ StoreQuery(CART_NOT_FOUND)
NotRecognized == StoreQuery(WEBI_ACTION_NOT_RECOGNIZED)
\* GET_STORE_INFO and GET_CARTS_LIST
StoreInfo == StoreQuery(RC_OK)
ItemInfo(b) ==
    StoreQuery(CASE barcode_type[b] = "NOT_RECOGNIZED" -> BCODE_NOT_RECOGNIZED
                 [] barcode_type[b] # "NOT_RECOGNIZED" ->
                        IF decodeBarcode(b) = NoItem THEN BCODE_ITEM_NOT_FOUND ELSE RC_OK)

\* The process dies inside a request: the rows already written stay.
DieInRequest ==
    \E n \in CartNumbers :
        \/ \E b \in Barcodes : DieWhile(n, itemAdd(carts_map[n], b))
        \/ \E b \in Barcodes : DieWhile(n, itemVoid(carts_map[n], b))
        \/ \E card \in Cards : DieWhile(n, customerAdd(n, card))
        \/ \E card \in Cards : DieWhile(n, removeLoyCard(carts_map[n], card))
        \/ DieWhile(n, voidAllCart(carts_map[n]))

CartRequest(n) ==
    \/ \E b \in Barcodes : ItemAdd(n, b) \/ ItemVoid(n, b)
    \/ \E card \in Cards : CustomerAdd(n, card) \/ CustomerVoid(n, card)
    \/ \E till \in Tills : SessionEnd(n, till)
    \/ SessionVoid(n)
    \/ CartQuery(n)

Request ==
    \/ SessionInit
    \/ \E n \in CartNumbers : CartRequest(n) \/ CartNotFound(n)
    \/ \E b \in Barcodes : ItemInfo(b)
    \/ NotRecognized \/ StoreInfo

-----------------------------------------------------------------------------
(* The variation thread and the tills. *)

\* A row of a variation file replaces the item in memory; the row has no
\* linked barcode, so the item loses the one it had.
Variation(v) ==
    /\ mode = "running"
    /\ items_map' = [items_map EXCEPT ![v.code] =
           [price |-> v.price, department |-> v.department, linked |-> NoBarcode]]
    /\ UNCHANGED <<mode, carts_map, sessions, next_cart_number, all_loy_cards_map,
                   load, reply, disk>>

\* At the end of the pass the items in memory become ITEMS.CSV: in one step here.
\* VariationLoader has the steps, and what a death in between leaves.
DumpItems ==
    /\ mode = "running"
    /\ items_csv # items_map
    /\ items_csv' = items_map
    /\ UNCHANGED <<mode, memory, files, journal, scan_in>>

\* A till takes the basket it finds.
TillReads(till) ==
    /\ scan_in[till] # NoBasket
    /\ scan_in' = [scan_in EXCEPT ![till] = NoBasket]
    /\ UNCHANGED <<mode, memory, files, journal, items_csv>>

Next ==
    \/ Start \/ Crash \/ Loading
    \/ Request \/ DieInRequest
    \/ \E v \in Variations : Variation(v)
    \/ DumpItems
    \/ \E till \in Tills : TillReads(till)

Spec == Init /\ [][Next]_vars

\* The loader runs in the constructor, on the main thread: it goes on.
FairSpec == Spec /\ WF_vars(Loading)

-----------------------------------------------------------------------------
(* Safety *)

\* A session id is never given twice, whatever the crashes and the order in
\* which the directory lists the files: while the server serves, it knows
\* every cart that ever had a file and the next id is above them all.
SessionIdsFresh ==
    mode = "running" =>
        /\ sessions = files
        /\ \A n \in files : n < next_cart_number

HasVoidRow(n) == \E k \in 1 .. Len(journal[n]) : journal[n][k] = VoidRow

\* A voided session stays voided, restarts included: nothing is ever
\* journalled after the void row of SESSION_VOID, and a cart in service is in
\* the voided state exactly when its file holds that row.
VoidedSealed ==
    /\ \A n \in CartNumbers : \A k \in 1 .. Len(journal[n]) :
          journal[n][k] = VoidRow => k = Len(journal[n])
    /\ mode = "running" =>
          \A n \in sessions : carts_map[n].state = CART_STATE_VOIDED <=> HasVoidRow(n)

\* Loyalty cards of a cart (addLoyCard, removeLoyCard): no card is there
\* twice, and loy_cards_number, the count the limit is checked on, is never
\* below the number of cards in the map nor above the limit.
CardsBounded ==
    \A n \in CartNumbers :
        LET c == carts_map[n]
        IN  /\ \A j, k \in CardIndexes :
                  c.loy_cards_map[j] = c.loy_cards_map[k] /\ j # k
                      => c.loy_cards_map[j] = NoCard
            /\ Cardinality({k \in CardIndexes : c.loy_cards_map[k] # NoCard})
                  <= c.loy_cards_number
            /\ c.loy_cards_number <= MaxCards
=============================================================================
