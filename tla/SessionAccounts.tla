--------------------------- MODULE SessionAccounts ---------------------------
(***************************************************************************)
(* What the sessions of BaseSystem owe the customer and the store, stated  *)
(* with sums over a cart and replays of its file.                          *)
(***************************************************************************)
EXTENDS BaseSystem, Functions

\* The cart that loadCartsInProgress makes of rows, and the one a restart would
\* make of the file of n as it is now.
ReplayedFrom(rows) ==
    LET cart[k \in 0 .. Len(rows)] ==
            IF k = 0 THEN NewCart(CART_STATE_TMPFILE_LOADING)
            ELSE replayRow(cart[k - 1], rows[k])
    IN  reopened(cart[Len(rows)])
Replayed(n) == ReplayedFrom(journal[n])

\* What the cart costs before discounts: void and replay apply no discount,
\* so only the sum of the two fields of totals_map is meant to be kept.
Gross(c) == c.totals_map[0].total_amount + c.totals_map[0].total_discount

\* Memory and file tell the same story: a crash between two requests loses
\* nothing.  At any time the file of a session in service replays
\* (loadCartsInProgress) to the cart the requests built: same state, items,
\* barcodes and cards, same pieces and, while it can still change, same
\* locally copied prices.
JournalFaithful ==
    mode = "running" =>
        \A n \in sessions :
            LET live == carts_map[n]
                disc == Replayed(n)
            IN  /\ disc.state = live.state
                /\ disc.cart_items_map = live.cart_items_map
                /\ disc.barcodes_map = live.barcodes_map
                /\ disc.items_number = live.items_number
                /\ disc.loy_cards_map = live.loy_cards_map
                /\ disc.loy_cards_number = live.loy_cards_number
                /\ live.state = CART_STATE_READY_FOR_ITEM =>
                      disc.items_local_copy_map = live.items_local_copy_map

\* The items that are sold with another one, as its deposit.
Deposits ==
    {item_of[InitialArchive[i].linked] :
        i \in {j \in ItemCodes : InitialArchive[j].linked # NoBarcode}}

\* The archive links no item to a barcode that carries a price: such a barcode
\* is sold as the item it names and replayed as the item of its plu.
PlainLinks ==
    \A i \in ItemCodes :
        InitialArchive[i].linked # NoBarcode =>
            barcode_type[InitialArchive[i].linked] # "EAN13_PRICE_REQ"

\* The variations a bill survives: they keep the price of deposits, which are
\* sold at the price of the archive, and every price if prices may change
\* while shopping, when no copy is kept; and no item gets its first department
\* or loses its last, which would count it once or twice in row 0.
SteadyBills ==
    \A v \in Variations :
        /\ v.department = NoDepartment <=> InitialArchive[v.code].department = NoDepartment
        /\ PriceChangesWhileShopping \/ v.code \in Deposits =>
              v.price = InitialArchive[v.code].price

\* Every item of the archive has a department: one without is counted twice
\* in row 0 of the totals.
DepartmentsGiven == \A i \in Items : InitialArchive[i].department # NoDepartment

\* The bill survives too: the file replays to the gross total and to the
\* pieces of the totals the customer was shown, at whatever prices the
\* archive has by then.
BillFaithful ==
    mode = "running" =>
        \A n \in sessions :
            LET live == carts_map[n]
                disc == Replayed(n)
            IN  /\ disc.totals_map[0].items_number = live.totals_map[0].items_number
                /\ Gross(disc) = Gross(live)

\* Barcodes that carry a price of their own were used in the session.
PricedByBarcode(n) ==
    \E k \in 1 .. Len(journal[n]) :
        journal[n][k].object = "I" /\ barcode_type[journal[n][k].code] = "EAN13_PRICE_REQ"

\* What the pieces of each item cost at their locally copied price.
Worth(c) ==
    [i \in ItemCodes |-> IF c.cart_items_map[i] > 0
                        THEN c.cart_items_map[i] * c.items_local_copy_map[i] ELSE 0]

\* A customer pays for every piece the price the item had when the session
\* first met it ([Carts] PriceChangesWhileShopping=0): whatever variations,
\* voids and restarts came in between, the gross total of a cart is the sum
\* over its pieces of the locally copied prices, and its pieces are counted.
PriceLocked ==
    \A n \in {m \in sessions : ~PricedByBarcode(m)} :
        /\ Gross(carts_map[n]) = SumFunction(Worth(carts_map[n]))
        /\ carts_map[n].items_number = SumFunction(carts_map[n].cart_items_map)

\* No piece is hidden from the till: of every item there are at least as many
\* scanned barcodes (the "04" lines of sendToPos) as pieces in the cart, also
\* after a piece was voided through another barcode of the item.
PiecesHaveBarcodes ==
    \A n \in sessions : \A i \in ItemCodes :
        carts_map[n].cart_items_map[i] <=
            SumFunctionOnSet(carts_map[n].barcodes_map, {b \in Barcodes : decodeBarcode(b) = i})

\* A start ends: the loader, which takes one row after the other of finitely
\* many files, reaches service unless the process dies again.
StartEnds == mode = "loading" ~> mode \in {"running", "down"}

-----------------------------------------------------------------------------
(* What the functional tests say of a request. *)

VoidOfAbsentItemRejected ==
    \A n \in CartNumbers : \A b \in Barcodes :
        /\ ItemVoid(n, b)
        /\ carts_map[n].cart_items_map[decodeBarcode(b)] = 0
        => reply' # RC_OK

AcceptedCardIsKept ==
    \A n \in CartNumbers : \A card \in Cards :
        CustomerAdd(n, card) /\ reply' = RC_OK => card \in CardsOf(carts_map'[n])

CardVoidSucceeds ==
    \A n \in CartNumbers : \A card \in Cards :
        /\ CustomerVoid(n, card)
        /\ carts_map[n].state = CART_STATE_READY_FOR_ITEM
        /\ card \in CardsOf(carts_map[n])
        => reply' = RC_OK

\* kStoreMine.feature: voiding an item that is not in the cart is an error; a
\* card beyond the limit is refused, so an accepted card is one of the cart's;
\* voiding a card of the cart succeeds.
FeatureReturnCodes ==
    [][VoidOfAbsentItemRejected /\ AcceptedCardIsKept /\ CardVoidSucceeds]_vars

\* [Loy] OnlyOneShoppingSessionPerCard=1: no card is in two carts that are
\* being filled.
OneSessionPerCard ==
    mode = "running" /\ OnlyOneShoppingSessionPerCard =>
        \A m, n \in sessions :
            /\ m # n
            /\ carts_map[m].state = CART_STATE_READY_FOR_ITEM
            /\ carts_map[n].state = CART_STATE_READY_FOR_ITEM
            => CardsOf(carts_map[m]) \cap CardsOf(carts_map[n]) = {}
=============================================================================
