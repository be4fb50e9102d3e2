--------------------------- MODULE SessionThreads ---------------------------
(***************************************************************************)
(* BaseSystem on several threads ([Web] Threads=10 as shipped): the        *)
(* sections of newCart, WEBI_CUSTOMER_ADD, WEBI_CUSTOMER_VOID and          *)
(* WEBI_SESSION_VOID between two accesses to what the threads share.       *)
(* Nothing takes a lock there (cartnumber_mutex is declared and unused).   *)
(*                                                                         *)
(* A device sends its next request when it has the answer to the last one, *)
(* so there is one thread per device that waits.  Accesses happen in some  *)
(* order; what an optimiser or a torn std::map may do beyond that is the   *)
(* end of the process, which BaseSystem models.                            *)
(*                                                                         *)
(* The accesses to the counter, the registry, the map of carts and the     *)
(* count of cards are cut all.  Neighbouring accesses to one cart are one  *)
(* step where only a second thread of the same session could get in        *)
(* between: its three tests in CheckCard, the search and the erasure in    *)
(* EraseCard, the state and the row in WriteCardRow, the test and the      *)
(* assignment of the state in VoidState.                                   *)
(***************************************************************************)
EXTENDS Cart

CONSTANTS
    Devices,                        \* self-scan devices
    CartNumbers,                    \* bound: session ids this instance may reach
    OnlyOneShoppingSessionPerCard,  \* [Loy] OnlyOneShoppingSessionPerCard
    MaxRows                         \* bound: no request is sent beyond that many rows

NoCart == 0

ASSUME SessionThreadsAssumption ==
    /\ CartNumbers \subseteq Nat \ {NoCart}
    /\ OnlyOneShoppingSessionPerCard \in BOOLEAN
    /\ MaxRows \in Nat

VARIABLES
    next_cart_number,  \* the next session id
    carts_map,         \* what the carts in memory hold of cards, and their state ...
    sessions,          \* ... and the keys of the map
    all_loy_cards_map, \* the session a loyalty card was last registered for
    files,             \* carts that have a transaction_in_progress file
    journal,           \* the rows of those files
    session,           \* the session each device was answered
    pc,                \* where the thread that serves a device is
    local,             \* its local variables
    openings,          \* history: how often an id was answered by newCart
    openings_met,      \* history: two newCart ran at the same time
    cards_met          \* history: two threads looked one card up before
                       \* either registered it

shop    == <<next_cart_number, carts_map, sessions, all_loy_cards_map>>
disk    == <<files, journal>>
history == <<openings, openings_met, cards_met>>
vars    == <<shop, disk, session, pc, local, history>>

\* Of a cart, what these requests touch.  Here loy_cards_map is a set of pairs
\* of an index and a card: two threads may store a card beyond MaxCards.
\* loy_cards_number is unsigned; -k stands for 2^32 - k.
ThreadCarts == [state : {CART_STATE_READY_FOR_ITEM, CART_STATE_VOIDED},
                loy_cards_map : SUBSET (Int \X Cards),
                loy_cards_number : Int]

EmptyCart == [state |-> CART_STATE_READY_FOR_ITEM,
              loy_cards_map |-> {}, loy_cards_number |-> 0]

BelowLimit(c) == c.loy_cards_number \in 0 .. MaxCards - 1
CardsIn(c)    == {entry[2] : entry \in c.loy_cards_map}

\* loy_cards_map[k] = card
Stored(m, k, card) == {entry \in m : entry[1] # k} \cup {<<k, card>>}

Locals == [cart : CartNumbers \cup {NoCart}, row : Rows, number : Int]
Idle == [cart |-> NoCart, row |-> VoidRow, number |-> 0]

Init ==
    /\ next_cart_number = 1
    /\ carts_map = [n \in CartNumbers |-> EmptyCart]
    /\ sessions = {}
    /\ all_loy_cards_map = [card \in Cards |-> NoCart]
    /\ files = {}
    /\ journal = [n \in CartNumbers |-> << >>]
    /\ session = [d \in Devices |-> NoCart]
    /\ pc = [d \in Devices |-> "idle"]
    /\ local = [d \in Devices |-> Idle]
    /\ openings = [n \in CartNumbers |-> 0]
    /\ openings_met = FALSE
    /\ cards_met = FALSE

Goto(d, label) == pc' = [pc EXCEPT ![d] = label]
At(d, label)   == pc[d] = label

\* The request is answered; the locals of the thread are gone.
Return(d) ==
    /\ pc' = [pc EXCEPT ![d] = "idle"]
    /\ local' = [local EXCEPT ![d] = Idle]

-----------------------------------------------------------------------------
(* WEBI_SESSION_INIT: newCart *)

Opening(d) == pc[d] \in {"file", "insert", "increment", "store"}

ReadNumber(d) ==
    /\ At(d, "idle")
    /\ next_cart_number \in CartNumbers
    /\ local' = [local EXCEPT ![d].cart = next_cart_number]
    /\ Goto(d, "file")
    /\ openings_met' = (openings_met \/ \E e \in Devices : Opening(e))
    /\ UNCHANGED <<shop, disk, session, openings, cards_met>>

\* The constructor of the cart opens its file for appending.
CreateFile(d) ==
    /\ At(d, "file")
    /\ files' = files \cup {local[d].cart}
    /\ Goto(d, "insert")
    /\ UNCHANGED <<shop, journal, session, local, history>>

\* map.insert leaves the cart that has this number in its place.
InsertCart(d) ==
    /\ At(d, "insert")
    /\ sessions' = sessions \cup {local[d].cart}
    /\ carts_map' = IF local[d].cart \in sessions THEN carts_map
                    ELSE [carts_map EXCEPT ![local[d].cart] = EmptyCart]
    /\ Goto(d, "increment")
    /\ UNCHANGED <<next_cart_number, all_loy_cards_map, disk, session, local, history>>

\* next_cart_number++ is a load and a store.
LoadNumber(d) ==
    /\ At(d, "increment")
    /\ local' = [local EXCEPT ![d].number = next_cart_number]
    /\ Goto(d, "store")
    /\ UNCHANGED <<shop, disk, session, history>>

\* (mutant) the number is returned after it was incremented
StoreAndReturnNext(d) ==
    /\ At(d, "store")
    /\ next_cart_number' = local[d].number + 1
    /\ session' = [session EXCEPT ![d] = local[d].number + 1]
    /\ openings' = [openings EXCEPT ![local[d].cart] = @ + 1]
    /\ Return(d)
    /\ UNCHANGED <<carts_map, sessions, all_loy_cards_map, disk, openings_met, cards_met>>

\* (mutant) the counter is not incremented
StoreSameNumber(d) ==
    /\ At(d, "store")
    /\ next_cart_number' = local[d].number
    /\ session' = [session EXCEPT ![d] = local[d].cart]
    /\ openings' = [openings EXCEPT ![local[d].cart] = @ + 1]
    /\ Return(d)
    /\ UNCHANGED <<carts_map, sessions, all_loy_cards_map, disk, openings_met, cards_met>>

StoreNumber(d) ==
    /\ At(d, "store")
    /\ next_cart_number' = local[d].number + 1
    /\ session' = [session EXCEPT ![d] = local[d].cart]
    /\ openings' = [openings EXCEPT ![local[d].cart] = @ + 1]
    /\ Return(d)
    /\ UNCHANGED <<carts_map, sessions, all_loy_cards_map, disk, openings_met, cards_met>>

NewCartStep(d) ==
    \/ ReadNumber(d)
    \/ CreateFile(d)
    \/ InsertCart(d)
    \/ LoadNumber(d)
    \/ StoreNumber(d)

-----------------------------------------------------------------------------
(* WEBI_CUSTOMER_ADD, WEBI_CUSTOMER_VOID, WEBI_SESSION_VOID *)

\* The device has a session; one that is not in carts_map is CART_NOT_FOUND.
Asks(d) ==
    /\ At(d, "idle")
    /\ session[d] \in sessions
    /\ Len(journal[session[d]]) < MaxRows

Serve(d, row) ==
    local' = [local EXCEPT ![d] = [cart |-> session[d], row |-> row, number |-> 0]]

\* A request that only reads or is refused before it changed anything: a card
\* the registry has, a card that is not in the cart, a cart that was voided.
AnswerOnly(d) == At(d, "idle") /\ UNCHANGED vars

\* (mutant) only the cards of the same session are refused
LookUpOwnCard(d, card) ==
    /\ Asks(d)
    /\ all_loy_cards_map[card] # session[d]
    /\ Serve(d, CardRow("A", card))
    /\ Goto(d, "register")
    /\ cards_met' = (cards_met \/ \E e \in Devices :
                                     At(e, "register") /\ local[e].row = CardRow("A", card))
    /\ UNCHANGED <<shop, disk, session, openings, openings_met>>

\* The registry is looked up: a card of this session, or of another one if
\* the option says so, is refused there and nothing changes.
LookUpCard(d, card) ==
    /\ Asks(d)
    /\ all_loy_cards_map[card] # session[d]
    /\ OnlyOneShoppingSessionPerCard => all_loy_cards_map[card] = NoCart
    /\ Serve(d, CardRow("A", card))
    /\ Goto(d, "register")
    /\ cards_met' = (cards_met \/ \E e \in Devices :
                                     At(e, "register") /\ local[e].row = CardRow("A", card))
    /\ UNCHANGED <<shop, disk, session, openings, openings_met>>

RegisterCard(d) ==
    /\ At(d, "register")
    /\ all_loy_cards_map' = [all_loy_cards_map EXCEPT ![local[d].row.code] = local[d].cart]
    /\ Goto(d, "check")
    /\ UNCHANGED <<next_cart_number, carts_map, sessions, disk, session, local, history>>

\* addLoyCard: state, limit and the cards of the cart, looked at at once, ...
CheckCard(d) ==
    LET c == carts_map[local[d].cart]
    IN  /\ At(d, "check")
        /\ IF /\ c.state = CART_STATE_READY_FOR_ITEM
              /\ BelowLimit(c)
              /\ local[d].row.code \notin CardsIn(c)
           THEN Goto(d, "put") /\ UNCHANGED local
           ELSE Return(d)
        /\ UNCHANGED <<shop, disk, session, history>>

\* (mutant) card and index are swapped
PutSwapped(d) ==
    /\ At(d, "put")
    /\ carts_map' = [carts_map EXCEPT ![local[d].cart].loy_cards_map =
                        @ \cup {<<local[d].row.code, carts_map[local[d].cart].loy_cards_number>>}]
    /\ Goto(d, "row")
    /\ UNCHANGED <<next_cart_number, sessions, all_loy_cards_map, disk, session, local, history>>

\* ... then the card is stored at the index that loy_cards_number has by now.
PutCard(d) ==
    /\ At(d, "put")
    /\ carts_map' = [carts_map EXCEPT ![local[d].cart].loy_cards_map =
                        Stored(@, carts_map[local[d].cart].loy_cards_number, local[d].row.code)]
    /\ Goto(d, "row")
    /\ UNCHANGED <<next_cart_number, sessions, all_loy_cards_map, disk, session, local, history>>

\* removeLoyCard: a card of the cart is found and erased; any other changes nothing.
\* The code returned is never RC_OK, so the registry is left alone.
EraseCard(d, card) ==
    /\ Asks(d)
    /\ carts_map[session[d]].state = CART_STATE_READY_FOR_ITEM
    /\ card \in CardsIn(carts_map[session[d]])
    /\ carts_map' = [carts_map EXCEPT ![session[d]].loy_cards_map =
                        {entry \in @ : entry[2] # card}]
    /\ Serve(d, CardRow("V", card))
    /\ Goto(d, "row")
    /\ UNCHANGED <<next_cart_number, sessions, all_loy_cards_map, disk, session, history>>

\* writeTransactionRow, unless the cart was voided meanwhile.
WriteCardRow(d) ==
    /\ At(d, "row")
    /\ journal' = IF carts_map[local[d].cart].state = CART_STATE_READY_FOR_ITEM
                  THEN [journal EXCEPT ![local[d].cart] = Append(@, local[d].row)]
                  ELSE journal
    /\ Goto(d, "count")
    /\ UNCHANGED <<shop, files, session, local, history>>

\* loy_cards_number++ and -- are a load and a store.
LoadCount(d) ==
    /\ At(d, "count")
    /\ local' = [local EXCEPT ![d].number = carts_map[local[d].cart].loy_cards_number]
    /\ Goto(d, "counted")
    /\ UNCHANGED <<shop, disk, session, history>>

\* (mutant) a removal does not lower the count
StoreCountOfAdds(d) ==
    /\ At(d, "counted")
    /\ carts_map' = IF local[d].row.action = "A"
                    THEN [carts_map EXCEPT ![local[d].cart].loy_cards_number = local[d].number + 1]
                    ELSE carts_map
    /\ Return(d)
    /\ UNCHANGED <<next_cart_number, sessions, all_loy_cards_map, disk, session, history>>

StoreCount(d) ==
    /\ At(d, "counted")
    /\ carts_map' = [carts_map EXCEPT ![local[d].cart].loy_cards_number =
                        IF local[d].row.action = "A" THEN local[d].number + 1
                                                     ELSE local[d].number - 1]
    /\ Return(d)
    /\ UNCHANGED <<next_cart_number, sessions, all_loy_cards_map, disk, session, history>>

\* voidAllCart: the state, tested and assigned in one step, then the row.
VoidState(d) ==
    /\ Asks(d)
    /\ carts_map[session[d]].state = CART_STATE_READY_FOR_ITEM
    /\ carts_map' = [carts_map EXCEPT ![session[d]].state = CART_STATE_VOIDED]
    /\ Serve(d, VoidRow)
    /\ Goto(d, "void")
    /\ UNCHANGED <<next_cart_number, sessions, all_loy_cards_map, disk, session, history>>

WriteVoidRow(d) ==
    /\ At(d, "void")
    /\ journal' = [journal EXCEPT ![local[d].cart] = Append(@, local[d].row)]
    /\ Return(d)
    /\ UNCHANGED <<shop, files, session, history>>

CartStep(d) ==
    \/ AnswerOnly(d)
    \/ \E card \in Cards : LookUpCard(d, card) \/ EraseCard(d, card)
    \/ RegisterCard(d)
    \/ CheckCard(d)
    \/ PutCard(d)
    \/ WriteCardRow(d)
    \/ LoadCount(d)
    \/ StoreCount(d)
    \/ VoidState(d)
    \/ WriteVoidRow(d)

Next == \E d \in Devices : NewCartStep(d) \/ CartStep(d)

Spec == Init /\ [][Next]_vars

-----------------------------------------------------------------------------
(* Properties *)

Labels == {"idle", "file", "insert", "increment", "store", "register", "check",
           "put", "row", "count", "counted", "void"}

\* The values each variable ranges over.
TypeOK ==
    /\ next_cart_number \in Nat \ {NoCart}
    /\ carts_map \in [CartNumbers -> ThreadCarts]
    /\ sessions \subseteq CartNumbers
    /\ all_loy_cards_map \in [Cards -> CartNumbers \cup {NoCart}]
    /\ files \subseteq CartNumbers
    /\ journal \in [CartNumbers -> Seq(Rows)]
    /\ session \in [Devices -> CartNumbers \cup {NoCart}]
    /\ pc \in [Devices -> Labels]
    /\ local \in [Devices -> Locals]
    /\ openings \in [CartNumbers -> Nat]
    /\ openings_met \in BOOLEAN
    /\ cards_met \in BOOLEAN

\* The id newCart answers is that of a cart that is in memory and on disk,
\* however the threads interleave: a device never hears CART_NOT_FOUND of the
\* session it was given, and a restart finds its file.
AnsweredSessionsExist ==
    \A d \in Devices : session[d] # NoCart => session[d] \in sessions \cap files

\* newCart never gives an id out twice: a request to initialise a session
\* initialises a new one.
NewSessionsAreNew == \A n \in CartNumbers : openings[n] <= 1

\* It does not as long as no two newCart run at the same time, whatever else
\* runs beside them: the counter is the only thing they can collide on.
NewUnlessMet == openings_met \/ NewSessionsAreNew

\* With the option on, a card is in one session.
OneSessionPerCard ==
    OnlyOneShoppingSessionPerCard =>
        \A m, n \in sessions :
            m # n => CardsIn(carts_map[m]) \cap CardsIn(carts_map[n]) = {}

\* It is, as long as no two threads look the same card up before either has
\* registered it: neither the limit, nor voids, nor shared ids get around the
\* registry.
OneSessionUnlessMet == cards_met \/ OneSessionPerCard

\* What the whole requests of module Cart make of a row, and of the rows of a file.
replayCards(c, row) ==
    CASE row = VoidRow -> voidAllCart(c).cart
      [] row.object = "L" /\ row.action = "A" -> addLoyCard(c, row.code).cart
      [] row.object = "L" /\ row.action = "V" -> removeLoyCard(c, row.code).cart

serialCart(rows) ==
    LET cart[k \in 0 .. Len(rows)] ==
            IF k = 0 THEN NewCart(CART_STATE_READY_FOR_ITEM)
            ELSE replayCards(cart[k - 1], rows[k])
    IN  cart[Len(rows)]

\* A session that was given to one device only does not feel the threads that
\* serve others: between its requests its cart is what the requests in its
\* file make when they are done whole and one after the other.
PrivateSessionsAreSerial ==
    \A n \in sessions :
        /\ openings[n] <= 1
        /\ \A d \in Devices : ~At(d, "idle") => local[d].cart # n
        => LET live == carts_map[n]
               serial == serialCart(journal[n])
           IN  /\ live.state = serial.state
               /\ live.loy_cards_number = serial.loy_cards_number
               /\ live.loy_cards_map =
                     {<<k, serial.loy_cards_map[k]>> :
                          k \in {j \in CardIndexes : serial.loy_cards_map[j] # NoCard}}
=============================================================================
