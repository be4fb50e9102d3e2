---------------------------- MODULE ThreadProofs ----------------------------
(***************************************************************************)
(* What SessionThreads keeps for any number of devices, sessions and       *)
(* cards: the inductive invariant and the theorems.                        *)
(***************************************************************************)
EXTENDS SessionThreads, CartLemmas

\* The locals of a request that is under way.
LocalsInv ==
    \A d \in Devices :
        /\ pc[d] # "idle" => local[d].cart \in CartNumbers
        /\ pc[d] \in {"register", "check", "put"} =>
              local[d].row.object = "L" /\ local[d].row.code \in Cards
        /\ pc[d] = "register" => local[d].row = CardRow("A", local[d].row.code)
        /\ pc[d] = "store" => local[d].number \in Nat

\* A cart gets its file, then its place in the map, then its device.
AnsweredInv ==
    /\ AnsweredSessionsExist
    /\ \A d \in Devices :
          /\ pc[d] \in {"insert", "increment", "store"} => local[d].cart \in files
          /\ pc[d] \in {"increment", "store"} => local[d].cart \in sessions

\* One newCart at a time: the ids answered are below the counter, and the one
\* about to be answered is the counter.
OpeningsInv ==
    ~openings_met =>
        /\ NewSessionsAreNew
        /\ \A n \in CartNumbers : openings[n] > 0 => n < next_cart_number
        /\ \A d \in Devices : Opening(d) => local[d].cart = next_cart_number
        /\ \A d \in Devices : At(d, "store") => local[d].number = next_cart_number
        /\ \A d, e \in Devices : Opening(d) /\ Opening(e) => d = e

\* The registry knows the session of every card that is in a cart or about to
\* be; a card being registered is free, and one thread registers it.
RegistryInv ==
    OnlyOneShoppingSessionPerCard /\ ~cards_met =>
        /\ \A n \in sessions : \A card \in CardsIn(carts_map[n]) :
              all_loy_cards_map[card] = n
        /\ \A d \in Devices :
              /\ pc[d] \in {"check", "put"} =>
                    all_loy_cards_map[local[d].row.code] = local[d].cart
              /\ At(d, "register") => all_loy_cards_map[local[d].row.code] = NoCart
        /\ \A d, e \in Devices :
              /\ At(d, "register")
              /\ At(e, "register")
              /\ local[d].row = local[e].row
              => d = e

IInv == TypeOK /\ LocalsInv /\ AnsweredInv /\ OpeningsInv /\ RegistryInv

-----------------------------------------------------------------------------
(* Operators *)

\* The rows these requests write are rows of the journal.
LEMMA ThreadRows ==
    /\ VoidRow \in Rows
    /\ \A card \in Cards : \A action \in {"A", "V"} : CardRow(action, card) \in Rows
BY DEF Rows, VoidRow, CardRow

\* Storing a card adds at most that card to those of the cart.
LEMMA StoredCards ==
    ASSUME NEW m \in SUBSET (Int \X Cards), NEW k \in Int, NEW card \in Cards
    PROVE  /\ Stored(m, k, card) \in SUBSET (Int \X Cards)
           /\ \A entry \in Stored(m, k, card) : entry \in m \/ entry[2] = card
BY DEF Stored
\* Assigning a local variable.
LEMMA LocalAssigned ==
    ASSUME NEW l \in Locals
    PROVE  /\ \A n \in CartNumbers : [l EXCEPT !.cart = n] \in Locals
           /\ \A k \in Int : [l EXCEPT !.number = k] \in Locals
           /\ Idle \in Locals
           /\ \A n \in CartNumbers : \A row \in Rows :
                 [cart |-> n, row |-> row, number |-> 0] \in Locals
BY ThreadRows DEF Locals, Idle

\* Assigning a member of a cart.
LEMMA CartAssigned ==
    ASSUME NEW c \in ThreadCarts
    PROVE  /\ EmptyCart \in ThreadCarts
           /\ [c EXCEPT !.state = CART_STATE_VOIDED] \in ThreadCarts
           /\ \A k \in Int : [c EXCEPT !.loy_cards_number = k] \in ThreadCarts
           /\ \A m \in SUBSET (Int \X Cards) : [c EXCEPT !.loy_cards_map = m] \in ThreadCarts
           /\ c.loy_cards_map \in SUBSET (Int \X Cards)
           /\ c.loy_cards_number \in Int
BY DEF ThreadCarts, EmptyCart

-----------------------------------------------------------------------------
(* Steps *)

\* Every step keeps the types.
LEMMA ThreadTypes ==
    ASSUME IInv, NEW d \in Devices, NewCartStep(d) \/ CartStep(d)
    PROVE  TypeOK'
<1> USE DEF IInv, TypeOK, LocalsInv, Labels, shop, disk, history, vars, Goto, At, Return
<1>1. CASE ReadNumber(d)
  BY LocalAssigned, <1>1 DEF ReadNumber
<1>2. CASE CreateFile(d)
  BY <1>2 DEF CreateFile
<1>3. CASE InsertCart(d)
  BY LocalAssigned, CartAssigned, ThreadRows, <1>3 DEF InsertCart
<1>4. CASE LoadNumber(d)
  BY LocalAssigned, <1>4 DEF LoadNumber
<1>5. CASE StoreNumber(d)
  <2>1. local[d].cart \in CartNumbers /\ local[d].number \in Nat
    BY <1>5 DEF StoreNumber
  <2>2. next_cart_number' \in Nat \ {NoCart}
    BY <1>5, <2>1 DEF StoreNumber, NoCart
  <2>3. local' \in [Devices -> Locals]
    BY LocalAssigned, <1>5 DEF StoreNumber
  <2> QED BY <1>5, <2>1, <2>2, <2>3 DEF StoreNumber
<1>6. CASE AnswerOnly(d)
  BY <1>6 DEF AnswerOnly
<1>7. CASE \E card \in Cards : LookUpCard(d, card)
  BY LocalAssigned, CartAssigned, ThreadRows, <1>7 DEF LookUpCard, Asks, Serve
<1>8. CASE \E card \in Cards : EraseCard(d, card)
  <2> PICK card \in Cards : EraseCard(d, card)
    BY <1>8
  <2>1. session[d] \in CartNumbers
    BY DEF EraseCard, Asks
  <2>2. {entry \in carts_map[session[d]].loy_cards_map : entry[2] # card}
            \in SUBSET (Int \X Cards)
    BY CartAssigned, <2>1
  <2>3. carts_map' \in [CartNumbers -> ThreadCarts]
    BY CartAssigned, <2>1, <2>2 DEF EraseCard
  <2>4. local' \in [Devices -> Locals]
    BY LocalAssigned, ThreadRows, <2>1 DEF EraseCard, Serve
  <2> QED BY <2>3, <2>4 DEF EraseCard
<1>9. CASE RegisterCard(d)
  BY <1>9 DEF RegisterCard
<1>10. CASE CheckCard(d)
  BY LocalAssigned, <1>10 DEF CheckCard
<1>11. CASE PutCard(d)
  BY LocalAssigned, CartAssigned, ThreadRows, StoredCards, <1>11 DEF PutCard
<1>12. CASE WriteCardRow(d)
  BY <1>12 DEF WriteCardRow, Locals
<1>13. CASE LoadCount(d)
  BY LocalAssigned, CartAssigned, ThreadRows, <1>13 DEF LoadCount
<1>14. CASE StoreCount(d)
  <2>1. local[d].cart \in CartNumbers /\ local[d].number \in Int
    BY <1>14 DEF StoreCount, Locals
  <2> DEFINE k == IF local[d].row.action = "A" THEN local[d].number + 1
                                               ELSE local[d].number - 1
  <2>2. [carts_map[local[d].cart] EXCEPT !.loy_cards_number = k] \in ThreadCarts
    <3>1. k \in Int
      BY <2>1
    <3>2. carts_map[local[d].cart] \in ThreadCarts
      BY <2>1
    <3> HIDE DEF k
    <3> QED BY CartAssigned, <3>1, <3>2
  <2>3. carts_map' = [carts_map EXCEPT ![local[d].cart] =
                        [carts_map[local[d].cart] EXCEPT !.loy_cards_number = k]]
    BY <1>14 DEF StoreCount
  <2>4. carts_map' \in [CartNumbers -> ThreadCarts]
    <3> HIDE DEF k
    <3> QED BY <2>2, <2>3
  <2> QED BY LocalAssigned, <1>14, <2>4 DEF StoreCount
<1>15. CASE VoidState(d)
  BY LocalAssigned, CartAssigned, ThreadRows, <1>15 DEF VoidState, Asks, Serve
<1>16. CASE WriteVoidRow(d)
  <2>1. local[d].cart \in CartNumbers /\ local[d].row \in Rows
    BY <1>16 DEF WriteVoidRow, Locals
  <2>2. journal' \in [CartNumbers -> Seq(Rows)]
    BY <1>16, <2>1 DEF WriteVoidRow
  <2> QED BY LocalAssigned, <1>16, <2>2 DEF WriteVoidRow
<1> QED BY <1>1, <1>2, <1>3, <1>4, <1>5, <1>6, <1>7, <1>8, <1>9, <1>10, <1>11, <1>12, <1>13, <1>14, <1>15, <1>16 DEF NewCartStep, CartStep

\* Every step leaves the locals of a request what it needs.
LEMMA ThreadLocals ==
    ASSUME IInv, NEW d \in Devices, NewCartStep(d) \/ CartStep(d)
    PROVE  LocalsInv'
<1> USE DEF IInv, TypeOK, LocalsInv, CardRow, CardsIn, ThreadCarts, Locals, shop, disk, history, vars, Goto, At, Return, Idle
<1>1. CASE ReadNumber(d)
  BY <1>1 DEF ReadNumber
<1>2. CASE CreateFile(d)
  BY <1>2 DEF CreateFile
<1>3. CASE InsertCart(d)
  BY <1>3 DEF InsertCart
<1>4. CASE LoadNumber(d)
  BY <1>4 DEF LoadNumber
<1>5. CASE StoreNumber(d)
  BY <1>5 DEF StoreNumber
<1>6. CASE AnswerOnly(d)
  BY <1>6 DEF AnswerOnly
<1>7. CASE \E card \in Cards : LookUpCard(d, card)
  BY <1>7 DEF LookUpCard, Asks, Serve
<1>8. CASE \E card \in Cards : EraseCard(d, card)
  BY <1>8 DEF EraseCard, Asks, Serve
<1>9. CASE RegisterCard(d)
  BY <1>9 DEF RegisterCard
<1>10. CASE CheckCard(d)
  BY <1>10 DEF CheckCard
<1>11. CASE PutCard(d)
  BY <1>11 DEF PutCard
<1>12. CASE WriteCardRow(d)
  BY <1>12 DEF WriteCardRow
<1>13. CASE LoadCount(d)
  BY <1>13 DEF LoadCount
<1>14. CASE StoreCount(d)
  BY <1>14 DEF StoreCount
<1>15. CASE VoidState(d)
  BY <1>15 DEF VoidState, Asks, Serve
<1>16. CASE WriteVoidRow(d)
  BY <1>16 DEF WriteVoidRow
<1> QED BY <1>1, <1>2, <1>3, <1>4, <1>5, <1>6, <1>7, <1>8, <1>9, <1>10, <1>11, <1>12, <1>13, <1>14, <1>15, <1>16 DEF NewCartStep, CartStep

\* Every step keeps files and carts ahead of the answers.
LEMMA ThreadAnswers ==
    ASSUME IInv, NEW d \in Devices, NewCartStep(d) \/ CartStep(d)
    PROVE  AnsweredInv'
<1> USE DEF IInv, TypeOK, AnsweredInv, AnsweredSessionsExist, Locals, shop, disk, history, vars, Goto, At, Return, Idle
<1>1. CASE ReadNumber(d)
  BY <1>1 DEF ReadNumber
<1>2. CASE CreateFile(d)
  BY <1>2 DEF CreateFile
<1>3. CASE InsertCart(d)
  BY <1>3 DEF InsertCart
<1>4. CASE LoadNumber(d)
  BY <1>4 DEF LoadNumber
<1>5. CASE StoreNumber(d)
  BY <1>5 DEF StoreNumber
<1>6. CASE AnswerOnly(d)
  BY <1>6 DEF AnswerOnly
<1>7. CASE \E card \in Cards : LookUpCard(d, card)
  BY <1>7 DEF LookUpCard, Asks, Serve
<1>8. CASE \E card \in Cards : EraseCard(d, card)
  BY <1>8 DEF EraseCard, Asks, Serve
<1>9. CASE RegisterCard(d)
  BY <1>9 DEF RegisterCard
<1>10. CASE CheckCard(d)
  BY <1>10 DEF CheckCard
<1>11. CASE PutCard(d)
  BY <1>11 DEF PutCard
<1>12. CASE WriteCardRow(d)
  BY <1>12 DEF WriteCardRow
<1>13. CASE LoadCount(d)
  BY <1>13 DEF LoadCount
<1>14. CASE StoreCount(d)
  BY <1>14 DEF StoreCount
<1>15. CASE VoidState(d)
  BY <1>15 DEF VoidState, Asks, Serve
<1>16. CASE WriteVoidRow(d)
  BY <1>16 DEF WriteVoidRow
<1> QED BY <1>1, <1>2, <1>3, <1>4, <1>5, <1>6, <1>7, <1>8, <1>9, <1>10, <1>11, <1>12, <1>13, <1>14, <1>15, <1>16 DEF NewCartStep, CartStep

\* Every step keeps the counter ahead of the ids answered.
LEMMA ThreadOpenings ==
    ASSUME IInv, NEW d \in Devices, NewCartStep(d) \/ CartStep(d)
    PROVE  OpeningsInv'
<1> USE DEF IInv, TypeOK, LocalsInv, OpeningsInv, NewSessionsAreNew, Opening, Locals, shop, disk, history, vars, Goto, At, Return, Idle
<1>1. CASE ReadNumber(d)
  BY <1>1 DEF ReadNumber
<1>2. CASE CreateFile(d)
  BY <1>2 DEF CreateFile
<1>3. CASE InsertCart(d)
  BY <1>3 DEF InsertCart
<1>4. CASE LoadNumber(d)
  BY <1>4 DEF LoadNumber
<1>5. CASE StoreNumber(d)
  <2> SUFFICES ASSUME ~openings_met
               PROVE  /\ NewSessionsAreNew'
                      /\ \A n \in CartNumbers : openings'[n] > 0 => n < next_cart_number'
                      /\ \A e \in Devices : ~Opening(e)'
    BY <1>5 DEF StoreNumber
  <2>1. local[d].cart = next_cart_number /\ local[d].number = next_cart_number
    BY <1>5 DEF StoreNumber
  <2>2. next_cart_number \in CartNumbers /\ next_cart_number \in Nat
    BY <1>5, <2>1 DEF StoreNumber
  <2>3. openings' = [openings EXCEPT ![next_cart_number] = openings[next_cart_number] + 1]
    BY <1>5, <2>1 DEF StoreNumber
  <2>4. openings[next_cart_number] = 0
    BY <2>2
  <2>5. next_cart_number' = next_cart_number + 1
    BY <1>5, <2>1 DEF StoreNumber
  <2>6. \A n \in CartNumbers : n \in Nat
    BY SessionThreadsAssumption
  <2>7. \A e \in Devices : ~Opening(e)'
    BY <1>5 DEF StoreNumber
  <2> QED BY <2>2, <2>3, <2>4, <2>5, <2>6, <2>7
<1>6. CASE AnswerOnly(d)
  BY <1>6 DEF AnswerOnly
<1>7. CASE \E card \in Cards : LookUpCard(d, card)
  BY <1>7 DEF LookUpCard, Asks, Serve
<1>8. CASE \E card \in Cards : EraseCard(d, card)
  BY <1>8 DEF EraseCard, Asks, Serve
<1>9. CASE RegisterCard(d)
  BY <1>9 DEF RegisterCard
<1>10. CASE CheckCard(d)
  <2>1. CASE Goto(d, "put") /\ UNCHANGED local
    BY <1>10, <2>1 DEF CheckCard
  <2>2. CASE Return(d)
    BY <1>10, <2>2 DEF CheckCard
  <2> QED BY <1>10, <2>1, <2>2 DEF CheckCard
<1>11. CASE PutCard(d)
  BY <1>11 DEF PutCard
<1>12. CASE WriteCardRow(d)
  BY <1>12 DEF WriteCardRow
<1>13. CASE LoadCount(d)
  BY <1>13 DEF LoadCount
<1>14. CASE StoreCount(d)
  BY <1>14 DEF StoreCount
<1>15. CASE VoidState(d)
  BY <1>15 DEF VoidState, Asks, Serve
<1>16. CASE WriteVoidRow(d)
  BY <1>16 DEF WriteVoidRow
<1> QED BY <1>1, <1>2, <1>3, <1>4, <1>5, <1>6, <1>7, <1>8, <1>9, <1>10, <1>11, <1>12, <1>13, <1>14, <1>15, <1>16 DEF NewCartStep, CartStep

\* Every step keeps the registry ahead of the carts.
LEMMA ThreadRegistry ==
    ASSUME IInv, NEW d \in Devices, NewCartStep(d) \/ CartStep(d)
    PROVE  RegistryInv'
<1> USE DEF IInv, TypeOK, LocalsInv, RegistryInv, Locals, CardsIn, ThreadCarts, SessionThreadsAssumption, CardRow, shop, disk, history, vars, Goto, At, Return, Idle
<1>1. CASE ReadNumber(d)
  BY <1>1 DEF ReadNumber
<1>2. CASE CreateFile(d)
  BY <1>2 DEF CreateFile
<1>3. CASE InsertCart(d)
  BY <1>3 DEF InsertCart, EmptyCart
<1>4. CASE LoadNumber(d)
  BY <1>4 DEF LoadNumber
<1>5. CASE StoreNumber(d)
  BY <1>5 DEF StoreNumber
<1>6. CASE AnswerOnly(d)
  BY <1>6 DEF AnswerOnly
<1>7. CASE \E card \in Cards : LookUpCard(d, card)
  <2> PICK card \in Cards : LookUpCard(d, card)
    BY <1>7
  <2> SUFFICES ASSUME OnlyOneShoppingSessionPerCard, ~cards_met'
               PROVE  RegistryInv'
    OBVIOUS
  <2>1. /\ pc' = [pc EXCEPT ![d] = "register"]
        /\ local' = [local EXCEPT ![d] =
                        [cart |-> session[d], row |-> CardRow("A", card), number |-> 0]]
        /\ all_loy_cards_map[card] = NoCart
        /\ ~cards_met
        /\ \A e \in Devices : At(e, "register") => local[e].row # CardRow("A", card)
        /\ UNCHANGED <<carts_map, sessions, all_loy_cards_map>>
    BY DEF LookUpCard, Asks, Serve
  <2>2. local'[d].row = CardRow("A", card) /\ local'[d].row.code = card
    BY <2>1
  <2>3. \A e \in Devices : e # d => local'[e] = local[e] /\ pc'[e] = pc[e]
    BY <2>1
  <2>4. pc'[d] = "register"
    BY <2>1
  <2> QED BY <2>1, <2>2, <2>3, <2>4
<1>8. CASE \E card \in Cards : EraseCard(d, card)
  BY <1>8 DEF EraseCard, Asks, Serve
<1>9. CASE RegisterCard(d)
  <2> SUFFICES ASSUME OnlyOneShoppingSessionPerCard, ~cards_met
               PROVE  RegistryInv'
    BY <1>9 DEF RegisterCard
  <2> DEFINE card == local[d].row.code
  <2>1. /\ pc[d] = "register" /\ card \in Cards
        /\ all_loy_cards_map[card] = NoCart
        /\ local[d].row = CardRow("A", card)
    BY <1>9 DEF RegisterCard
  <2>2. /\ pc' = [pc EXCEPT ![d] = "check"]
        /\ all_loy_cards_map' = [all_loy_cards_map EXCEPT ![card] = local[d].cart]
        /\ UNCHANGED <<carts_map, sessions, local, cards_met>>
    BY <1>9 DEF RegisterCard
  <2>3. \A n \in sessions : \A c \in CardsIn(carts_map[n]) :
            c # card /\ all_loy_cards_map'[c] = n
    <3> SUFFICES ASSUME NEW n \in sessions, NEW c \in CardsIn(carts_map[n])
                 PROVE  c # card /\ all_loy_cards_map'[c] = n
      OBVIOUS
    <3>1. all_loy_cards_map[c] = n /\ c \in Cards
      BY <2>2
    <3>2. n # NoCart
      BY SessionThreadsAssumption
    <3> QED BY <2>1, <2>2, <3>1, <3>2
  <2>4. \A e \in Devices \ {d} : pc[e] \in {"check", "put"} =>
            local[e].row.code # card
    <3>1. \A e \in Devices : pc[e] \in {"check", "put"} =>
              all_loy_cards_map[local[e].row.code] \in CartNumbers
      BY <2>2
    <3>2. NoCart \notin CartNumbers
      BY SessionThreadsAssumption
    <3> QED BY <2>1, <3>1, <3>2
  <2>5. \A e \in Devices \ {d} : pc[e] = "register" => local[e].row.code # card
    BY <2>1
  <2> QED BY <2>1, <2>2, <2>3, <2>4, <2>5
<1>10. CASE CheckCard(d)
  <2>1. CASE Goto(d, "put") /\ UNCHANGED local
    BY <1>10, <2>1 DEF CheckCard
  <2>2. CASE Return(d)
    BY <1>10, <2>2 DEF CheckCard
  <2> QED BY <1>10, <2>1, <2>2 DEF CheckCard
<1>11. CASE PutCard(d)
  <2> SUFFICES ASSUME OnlyOneShoppingSessionPerCard, ~cards_met
               PROVE  RegistryInv'
    BY <1>11 DEF PutCard
  <2> DEFINE n == local[d].cart
             card == local[d].row.code
             k == carts_map[n].loy_cards_number
             m == Stored(carts_map[n].loy_cards_map, k, card)
  <2>1. /\ n \in CartNumbers /\ card \in Cards
        /\ k \in Int /\ carts_map[n].loy_cards_map \in SUBSET (Int \X Cards)
        /\ all_loy_cards_map[card] = n
    BY <1>11 DEF PutCard
  <2>2. /\ carts_map' = [carts_map EXCEPT ![n] = [carts_map[n] EXCEPT !.loy_cards_map = m]]
        /\ pc' = [pc EXCEPT ![d] = "row"]
        /\ UNCHANGED <<sessions, all_loy_cards_map, local, cards_met>>
    BY <1>11 DEF PutCard
  <2>3. \A entry \in m : entry \in carts_map[n].loy_cards_map \/ entry[2] = card
    BY <2>1, StoredCards
  <2>4. \A i \in sessions : \A c \in CardsIn(carts_map'[i]) :
            c \in CardsIn(carts_map[i]) \/ (i = n /\ c = card)
    <3> HIDE DEF m
    <3> QED BY <2>1, <2>2, <2>3
  <2>5. \A i \in sessions : \A c \in CardsIn(carts_map'[i]) : all_loy_cards_map'[c] = i
    BY <2>1, <2>2, <2>4
  <2> HIDE DEF n, card, k, m
  <2> QED BY <2>2, <2>5
<1>12. CASE WriteCardRow(d)
  BY <1>12 DEF WriteCardRow
<1>13. CASE LoadCount(d)
  BY <1>13 DEF LoadCount
<1>14. CASE StoreCount(d)
  BY <1>14 DEF StoreCount
<1>15. CASE VoidState(d)
  BY <1>15 DEF VoidState, Asks, Serve
<1>16. CASE WriteVoidRow(d)
  BY <1>16 DEF WriteVoidRow
<1> QED BY <1>1, <1>2, <1>3, <1>4, <1>5, <1>6, <1>7, <1>8, <1>9, <1>10, <1>11, <1>12, <1>13, <1>14, <1>15, <1>16 DEF NewCartStep, CartStep

-----------------------------------------------------------------------------
(* Theorems *)

LEMMA ThreadInductive ==
    /\ Init => IInv
    /\ IInv /\ [Next]_vars => IInv'
<1>1. Init => IInv
  <2> SUFFICES ASSUME Init PROVE IInv
    OBVIOUS
  <2> USE DEF Init, Idle, EmptyCart
  <2>1. TypeOK
    <3>1. carts_map \in [CartNumbers -> ThreadCarts]
      BY DEF ThreadCarts
    <3>2. local \in [Devices -> Locals]
      BY ThreadRows DEF Locals
    <3>3. journal \in [CartNumbers -> Seq(Rows)]
      OBVIOUS
    <3>4. pc \in [Devices -> Labels]
      BY DEF Labels
    <3>5. next_cart_number \in Nat \ {NoCart}
      BY DEF NoCart
    <3> HIDE DEF Init
    <3>6. /\ sessions = {} /\ files = {}
          /\ all_loy_cards_map \in [Cards -> CartNumbers \cup {NoCart}]
          /\ session \in [Devices -> CartNumbers \cup {NoCart}]
          /\ openings \in [CartNumbers -> Nat]
          /\ openings_met \in BOOLEAN
          /\ cards_met \in BOOLEAN
      BY DEF Init
    <3> QED BY <3>1, <3>2, <3>3, <3>4, <3>5, <3>6 DEF TypeOK
  <2>2. LocalsInv /\ AnsweredInv
    BY DEF LocalsInv, AnsweredInv, AnsweredSessionsExist
  <2>3. OpeningsInv /\ RegistryInv
    BY DEF OpeningsInv, RegistryInv, NewSessionsAreNew, Opening, At
  <2> QED BY <2>1, <2>2, <2>3 DEF IInv
<1>2. IInv /\ [Next]_vars => IInv'
  <2> SUFFICES ASSUME IInv, [Next]_vars PROVE IInv'
    OBVIOUS
  <2>1. ASSUME NEW d \in Devices, NewCartStep(d) \/ CartStep(d) PROVE IInv'
    BY <2>1, ThreadTypes, ThreadLocals, ThreadAnswers, ThreadOpenings, ThreadRegistry DEF IInv
  <2>2. CASE UNCHANGED vars
    BY <2>2 DEF vars, shop, disk, history, IInv, TypeOK, LocalsInv, AnsweredInv, OpeningsInv,
                RegistryInv, AnsweredSessionsExist, NewSessionsAreNew, Opening, At
  <2> QED BY <2>1, <2>2 DEF Next
<1> QED BY <1>1, <1>2

LEMMA ThreadInvariant == Spec => []IInv
BY ThreadInductive, PTL DEF Spec

\* Whatever the number of devices served at once, and however their threads
\* interleave in newCart and in the requests on cards, the variables keep
\* their types: no thread works on a cart that is not there.
THEOREM ThreadsTyped == Spec => []TypeOK
<1>1. IInv => TypeOK
  BY DEF IInv
<1> QED BY <1>1, ThreadInvariant, PTL

\* The id newCart answers is always that of a cart in memory with its file on
\* disk, although no step of newCart takes a lock.
THEOREM AnsweredAlwaysExist == Spec => []AnsweredSessionsExist
<1>1. IInv => AnsweredSessionsExist
  BY DEF IInv, AnsweredInv
<1> QED BY <1>1, ThreadInvariant, PTL

\* Two devices are given the same id only if two newCart overlapped: the
\* requests on cards of any number of threads cannot cause it.
THEOREM OnlyMeetingsRepeatIds == Spec => []NewUnlessMet
<1>1. IInv => NewUnlessMet
  BY DEF IInv, OpeningsInv, NewUnlessMet
<1> QED BY <1>1, ThreadInvariant, PTL

\* A card gets into two sessions only if two look-ups of the card overlapped.
THEOREM OnlyMeetingsShareCards == Spec => []OneSessionUnlessMet
<1>1. IInv => OneSessionUnlessMet
  <2> SUFFICES ASSUME IInv, ~cards_met, OnlyOneShoppingSessionPerCard,
                      NEW m \in sessions, NEW n \in sessions,
                      NEW card \in CardsIn(carts_map[m]) \cap CardsIn(carts_map[n])
               PROVE  m = n
    BY DEF OneSessionUnlessMet, OneSessionPerCard
  <2>1. all_loy_cards_map[card] = m /\ all_loy_cards_map[card] = n
    BY DEF IInv, RegistryInv
  <2> QED BY <2>1
<1> QED BY <1>1, ThreadInvariant, PTL

-----------------------------------------------------------------------------
(* Sessions of one device *)

\* The rows that the requests of this module write.
Requests == {VoidRow} \cup {CardRow(action, card) : action \in {"A", "V"}, card \in Cards}

\* The cards of a cart in the form of ThreadCarts.
Entries(s) == {<<k, s.loy_cards_map[k]>> : k \in {j \in CardIndexes : s.loy_cards_map[j] # NoCard}}

\* The live cart is s, but that by cards are still to be counted.
Matches(live, s, by) ==
    /\ live.state = s.state
    /\ live.loy_cards_map = Entries(s)
    /\ s.loy_cards_number = live.loy_cards_number + by

By(row) == IF row.action = "A" THEN 1 ELSE -1

Working(d) == pc[d] \in {"register", "check", "put", "row", "count", "counted", "void"}
WorksOn(d, n) == Working(d) /\ local[d].cart = n

\* How far the thread of d has got with its row in the cart live, whose file
\* replays to s.
Progress(d, live, s) ==
    LET row == local[d].row
    IN  /\ pc[d] \in {"register", "check", "put"} => Matches(live, s, 0)
        /\ pc[d] = "put" =>
              /\ live.state = CART_STATE_READY_FOR_ITEM
              /\ BelowLimit(live)
              /\ row.code \notin CardsIn(live)
        /\ pc[d] = "row" =>
              /\ live.state = CART_STATE_READY_FOR_ITEM
              /\ Matches(live, replayCards(s, row), By(row))
        /\ pc[d] \in {"count", "counted"} => Matches(live, s, By(row))
        /\ pc[d] = "counted" => local[d].number = live.loy_cards_number
        /\ pc[d] = "void" => Matches(live, replayCards(s, row), 0)

\* A session that was given to at most one device: nobody else works on its
\* cart, which is what its file replays to when its thread is idle.
AloneInv(n) ==
    LET s == serialCart(journal[n])
    IN  /\ \A d, e \in Devices : session[d] = n /\ session[e] = n => d = e
        /\ (\A d \in Devices : ~WorksOn(d, n)) => Matches(carts_map[n], s, 0)
        /\ \A d \in Devices : WorksOn(d, n) => Progress(d, carts_map[n], s)

WorkersInv ==
    \A d \in Devices :
        Working(d) =>
            /\ local[d].cart = session[d]
            /\ pc[d] = "void" <=> local[d].row = VoidRow
            /\ local[d].row \in Requests
            /\ pc[d] \in {"register", "check", "put"} => local[d].row.action = "A"

SessionsInv ==
    /\ \A n \in CartNumbers : journal[n] \in Seq(Requests)
    /\ \A n \in CartNumbers :
          openings[n] = 0 =>
              /\ carts_map[n] = EmptyCart /\ journal[n] = << >>
              /\ \A d \in Devices : session[d] # n
    /\ \A n \in CartNumbers : openings[n] > 0 => n \in sessions

SerialInv ==
    /\ WorkersInv
    /\ SessionsInv
    /\ \A n \in CartNumbers : openings[n] <= 1 => AloneInv(n)

-----------------------------------------------------------------------------
(* The replay of a file *)

\* The carts a replay goes through.
Served == {c \in Carts : c.state \in {CART_STATE_READY_FOR_ITEM, CART_STATE_VOIDED} /\ CardsOK(c)}

\* One row in a cart: what it does to the state and to the cards.
LEMMA ReplayedRow ==
    ASSUME NEW c \in Served, NEW row \in Requests
    PROVE  replayCards(c, row) \in Served
<1>1. CASE row = VoidRow
  <2>1. replayCards(c, row) = voidAllCart(c).cart
    BY <1>1 DEF replayCards, VoidRow
  <2>2. voidAllCart(c).cart \in Carts /\ CardsKept(c, voidAllCart(c).cart)
    BY DEF voidAllCart, Result, Served, Carts, CardsKept, CartStates
  <2>3. voidAllCart(c).cart.state = CART_STATE_VOIDED
    BY DEF voidAllCart, Result, Served, Carts, CART_STATE_READY_FOR_ITEM, CART_STATE_VOIDED, CART_STATE_CLOSED
  <2> QED BY <2>1, <2>2, <2>3, KeptCardsOK DEF Served
<1>2. ASSUME NEW card \in Cards, row = CardRow("A", card) PROVE replayCards(c, row) \in Served
  <2>1. replayCards(c, row) = addLoyCard(c, card).cart
    BY <1>2 DEF replayCards, CardRow, VoidRow
  <2>2. addLoyCard(c, card).cart \in Carts /\ addLoyCard(c, card).cart.state = c.state
    BY AddLoyCardResult DEF ResultTyped, Quiet, Served
  <2> QED BY <2>1, <2>2, AddedCards DEF Served
<1>3. ASSUME NEW card \in Cards, row = CardRow("V", card) PROVE replayCards(c, row) \in Served
  <2>1. replayCards(c, row) = removeLoyCard(c, card).cart
    BY <1>3 DEF replayCards, CardRow, VoidRow
  <2>2. removeLoyCard(c, card).cart \in Carts /\ removeLoyCard(c, card).cart.state = c.state
    BY RemoveLoyCardResult DEF ResultTyped, Quiet, Served
  <2> QED BY <2>1, <2>2, RemovedCards DEF Served
<1> QED BY <1>1, <1>2, <1>3 DEF Requests

LEMMA NewServed == NewCart(CART_STATE_READY_FOR_ITEM) \in Served
BY NewCartTyped, NewCartCards DEF Served, CartStates

\* The recursive function behind serialCart, and its equation.
SerialStep(rows, g, k) == IF k = 0 THEN NewCart(CART_STATE_READY_FOR_ITEM)
                          ELSE replayCards(g[k - 1], rows[k])
IsSerial(rows, g) == g = [k \in 0 .. Len(rows) |-> SerialStep(rows, g, k)]
Serial(rows) == CHOOSE g : IsSerial(rows, g)

LEMMA SerialIsLast ==
    ASSUME NEW rows
    PROVE  serialCart(rows) = Serial(rows)[Len(rows)]
BY DEF serialCart, Serial, IsSerial, SerialStep

LEMMA SerialExists ==
    ASSUME NEW rows \in Seq(Requests)
    PROVE  /\ IsSerial(rows, Serial(rows))
           /\ \E g \in [0 .. Len(rows) -> Served] : IsSerial(rows, g)
<1>1. PICK n \in Nat : n = Len(rows) /\ \A k \in 1 .. n : rows[k] \in Requests
  OBVIOUS
<1>2. PICK F : F = [k \in 1 .. n |-> [c \in Served |-> replayCards(c, rows[k])]]
  OBVIOUS
<1>3. F \in [1 .. n -> [Served -> Served]]
  BY <1>1, <1>2, ReplayedRow
<1>4. PICK g \in [0 .. n -> Served] :
          /\ g[0] = NewCart(CART_STATE_READY_FOR_ITEM)
          /\ \A k \in 1 .. n : g[k] = F[k][g[k - 1]]
  <2>1. PICK base \in Served : base = NewCart(CART_STATE_READY_FOR_ITEM)
    BY NewServed
  <2>2. \E g \in [0 .. n -> Served] : g[0] = base /\ \A k \in 1 .. n : g[k] = F[k][g[k - 1]]
    BY <1>3, StepByStep
  <2> QED BY <2>1, <2>2
<1>5. ASSUME NEW k \in 0 .. n PROVE g[k] = SerialStep(rows, g, k)
  <2>1. CASE k = 0
    BY <1>4, <2>1 DEF SerialStep
  <2>2. CASE k # 0
    <3>1. k \in 1 .. n /\ k - 1 \in 0 .. n
      BY <1>1, <2>2
    <3> QED BY <1>2, <1>4, <2>2, <3>1 DEF SerialStep
  <2> QED BY <2>1, <2>2
<1>6. g = [k \in 0 .. n |-> SerialStep(rows, g, k)]
  <2>1. g = [k \in 0 .. n |-> g[k]]
    BY <1>4
  <2> QED BY <1>5, <2>1
<1> QED BY <1>1, <1>4, <1>6 DEF Serial, IsSerial

\* The cart of no rows, and that of one row more.
LEMMA SerialOfNone == serialCart(<< >>) = NewCart(CART_STATE_READY_FOR_ITEM)
<1>1. IsSerial(<< >>, Serial(<< >>))
  <2>1. << >> \in Seq(Requests)
    OBVIOUS
  <2> QED BY <2>1, SerialExists
<1>2. Len(<< >>) = 0 /\ 0 \in 0 .. Len(<< >>)
  OBVIOUS
<1>3. Serial(<< >>)[0] = NewCart(CART_STATE_READY_FOR_ITEM)
  BY <1>1, <1>2 DEF IsSerial, SerialStep
<1> QED BY <1>2, <1>3, SerialIsLast

LEMMA SerialOfMore ==
    ASSUME NEW rows \in Seq(Requests), NEW row \in Requests
    PROVE  serialCart(Append(rows, row)) = replayCards(serialCart(rows), row)
<1> DEFINE n == Len(rows)
<1>0. Append(rows, row) \in Seq(Requests)
  BY AppendProperties
<1>1. PICK more \in Seq(Requests) : more = Append(rows, row)
  BY <1>0
<1>2. /\ n \in Nat /\ Len(more) = n + 1 /\ more[n + 1] = row
      /\ \A k \in 1 .. n : more[k] = rows[k]
  BY <1>1
<1>3. PICK f : f = Serial(rows)
  OBVIOUS
<1>4. PICK g : g = Serial(more)
  OBVIOUS
<1>5. /\ \A k \in 0 .. n : f[k] = SerialStep(rows, f, k)
      /\ \A k \in 0 .. n + 1 : g[k] = SerialStep(more, g, k)
  BY <1>2, <1>3, <1>4, SerialExists DEF IsSerial
<1>6. 0 .. n \subseteq {k \in 0 .. n : g[k] = f[k]}
  <2> DEFINE S == {k \in 0 .. n : g[k] = f[k]}
  <2>1. 0 \in S
    BY <1>2, <1>5 DEF SerialStep
  <2>2. ASSUME NEW k \in 1 .. n, k - 1 \in S PROVE k \in S
    <3>1. k \in 0 .. n /\ k \in 0 .. n + 1 /\ k # 0 /\ g[k - 1] = f[k - 1]
      BY <1>2, <2>2
    <3> QED BY <1>2, <1>5, <3>1 DEF SerialStep
  <2> HIDE DEF S
  <2>3. 0 .. n \subseteq S
    BY <1>2, <2>1, <2>2, CountingTo
  <2> QED BY <2>3 DEF S
<1>7. n \in 0 .. n /\ n + 1 \in 0 .. n + 1 /\ n + 1 # 0 /\ (n + 1) - 1 = n
  BY <1>2
<1>8. g[n] = f[n]
  BY <1>6, <1>7
<1>9. g[n + 1] = replayCards(f[n], row)
  BY <1>2, <1>5, <1>7, <1>8 DEF SerialStep
<1> QED BY <1>1, <1>2, <1>3, <1>4, <1>9, SerialIsLast

LEMMA SerialServed ==
    ASSUME NEW rows \in Seq(Requests)
    PROVE  serialCart(rows) \in Served
<1>1. PICK g \in [0 .. Len(rows) -> Served] : IsSerial(rows, g)
  BY SerialExists
<1>2. IsSerial(rows, Serial(rows))
  BY SerialExists
<1> DEFINE S == {k \in 0 .. Len(rows) : Serial(rows)[k] \in Served}
<1>3. Len(rows) \in Nat /\ \A k \in 1 .. Len(rows) : rows[k] \in Requests
  OBVIOUS
<1>4. \A k \in 0 .. Len(rows) : Serial(rows)[k] = SerialStep(rows, Serial(rows), k)
  BY <1>2 DEF IsSerial
<1>5. 0 \in S
  BY <1>3, <1>4, NewServed DEF SerialStep
<1>6. ASSUME NEW k \in 1 .. Len(rows), k - 1 \in S PROVE k \in S
  <2>1. k \in 0 .. Len(rows) /\ k # 0 /\ Serial(rows)[k - 1] \in Served
    BY <1>3, <1>6
  <2>2. Serial(rows)[k] = replayCards(Serial(rows)[k - 1], rows[k])
    BY <1>4, <2>1 DEF SerialStep
  <2> QED BY <1>3, <2>1, <2>2, ReplayedRow
<1> HIDE DEF S
<1>7. 0 .. Len(rows) \subseteq S
  BY <1>3, <1>5, <1>6, CountingTo
<1> QED BY <1>3, <1>7, SerialIsLast DEF S

-----------------------------------------------------------------------------
(* What the requests do to a cart and to its replay *)

LEMMA MatchedCards ==
    ASSUME NEW s \in Served, NEW live, NEW by, Matches(live, s, by)
    PROVE  CardsIn(live) = CardsOf(s)
<1>1. live.loy_cards_map = Entries(s)
  BY DEF Matches
<1>2. PICK m : m = s.loy_cards_map
  OBVIOUS
<1>3. CardsOf(s) = {m[k] : k \in CardIndexes} \ {NoCard}
  BY <1>2 DEF CardsOf
<1>4. Entries(s) = {<<k, m[k]>> : k \in {j \in CardIndexes : m[j] # NoCard}}
  BY <1>2 DEF Entries
<1>5. ASSUME NEW card \in CardsOf(s) PROVE card \in CardsIn(live)
  <2>1. PICK k \in CardIndexes : m[k] = card /\ card # NoCard
    BY <1>3
  <2>2. <<k, card>> \in live.loy_cards_map
    BY <1>1, <1>4, <2>1
  <2> QED BY <2>2 DEF CardsIn
<1>6. ASSUME NEW card \in CardsIn(live) PROVE card \in CardsOf(s)
  <2>1. PICK entry \in Entries(s) : card = entry[2]
    BY <1>1 DEF CardsIn
  <2>2. PICK k \in CardIndexes : entry = <<k, m[k]>> /\ m[k] # NoCard
    BY <1>4, <2>1
  <2> QED BY <1>3, <2>1, <2>2
<1> QED BY <1>5, <1>6

\* The entries after a card was stored, and after one was erased.
LEMMA EntriesStored ==
    ASSUME NEW s, s.loy_cards_map \in [CardIndexes -> Cards \cup {NoCard}],
           NEW k \in CardIndexes, NEW card \in Cards,
           NEW t, t.loy_cards_map = [s.loy_cards_map EXCEPT ![k] = card]
    PROVE  Entries(t) = Stored(Entries(s), k, card)
<1>0. PICK m \in [CardIndexes -> Cards \cup {NoCard}] : m = s.loy_cards_map
  OBVIOUS
<1>1. card # NoCard
  BY CardsAssumption
<1>2. PICK m2 : m2 = [m EXCEPT ![k] = card]
  OBVIOUS
<1>3. \A j \in CardIndexes : m2[j] = IF j = k THEN card ELSE m[j]
  BY <1>2
<1>4. Entries(t) = {<<j, m2[j]>> : j \in {i \in CardIndexes : m2[i] # NoCard}}
  BY <1>0, <1>2 DEF Entries
<1>5. Entries(s) = {<<j, m[j]>> : j \in {i \in CardIndexes : m[i] # NoCard}}
  BY <1>0 DEF Entries
<1> QED BY <1>1, <1>3, <1>4, <1>5 DEF Stored

LEMMA EntriesErased ==
    ASSUME NEW s, s.loy_cards_map \in [CardIndexes -> Cards \cup {NoCard}], NEW card \in Cards,
           NEW t, t.loy_cards_map = [k \in CardIndexes |->
                      IF s.loy_cards_map[k] = card THEN NoCard ELSE s.loy_cards_map[k]]
    PROVE  Entries(t) = {entry \in Entries(s) : entry[2] # card}
<1>0. PICK m \in [CardIndexes -> Cards \cup {NoCard}] : m = s.loy_cards_map
  OBVIOUS
<1>1. card # NoCard
  BY CardsAssumption
<1>2. PICK m2 : m2 = [k \in CardIndexes |-> IF m[k] = card THEN NoCard ELSE m[k]]
  OBVIOUS
<1>3. \A j \in CardIndexes : m2[j] = IF m[j] = card THEN NoCard ELSE m[j]
  BY <1>2
<1>4. Entries(t) = {<<j, m2[j]>> : j \in {i \in CardIndexes : m2[i] # NoCard}}
  BY <1>0, <1>2 DEF Entries
<1>5. Entries(s) = {<<j, m[j]>> : j \in {i \in CardIndexes : m[i] # NoCard}}
  BY <1>0 DEF Entries
<1> QED BY <1>1, <1>3, <1>4, <1>5

LEMMA MatchedAdd ==
    ASSUME NEW live \in ThreadCarts, NEW s \in Served, NEW card \in Cards, Matches(live, s, 0),
           live.state = CART_STATE_READY_FOR_ITEM, BelowLimit(live), card \notin CardsIn(live),
           NEW row, row = CardRow("A", card)
    PROVE  Matches([live EXCEPT !.loy_cards_map = Stored(@, live.loy_cards_number, card)],
                   replayCards(s, row), By(row))
<1> DEFINE t == [s EXCEPT !.loy_cards_map[s.loy_cards_number] = card, !.loy_cards_number = @ + 1]
<1>1. /\ s.loy_cards_number = live.loy_cards_number /\ s.loy_cards_number \in 0 .. MaxCards - 1
      /\ s.state = CART_STATE_READY_FOR_ITEM /\ card \notin CardsOf(s)
      /\ MaxCards \in Nat /\ live.loy_cards_number \in Int
  <2>1. live.loy_cards_number \in Int /\ MaxCards \in Nat
    BY CardsAssumption DEF ThreadCarts
  <2>2. s.loy_cards_number = live.loy_cards_number /\ s.state = CART_STATE_READY_FOR_ITEM
    BY <2>1 DEF Matches
  <2>3. card \notin CardsOf(s)
    BY MatchedCards
  <2> QED BY <2>1, <2>2, <2>3 DEF BelowLimit
<1>2. replayCards(s, row) = addLoyCard(s, card).cart
  BY DEF replayCards, CardRow, VoidRow
<1>3. addLoyCard(s, card) = Result(t, Journalled(s, <<CardRow("A", card)>>), RC_OK)
  <2>1. AcceptsChanges(s) /\ s.loy_cards_number < MaxCards /\ ~(s.loy_cards_number >= MaxCards)
    BY <1>1 DEF AcceptsChanges
  <2> QED BY <1>1, <2>1 DEF addLoyCard
<1>4. /\ t.state = s.state /\ t.loy_cards_number = s.loy_cards_number + 1
      /\ t.loy_cards_map = [s.loy_cards_map EXCEPT ![s.loy_cards_number] = card]
      /\ s.loy_cards_map \in [CardIndexes -> Cards \cup {NoCard}]
  BY DEF Served, Carts
<1> HIDE DEF t
<1>5. replayCards(s, row) = t
  BY <1>2, <1>3 DEF Result
<1>6. Entries(t) = Stored(Entries(s), s.loy_cards_number, card)
  <2>1. PICK k \in CardIndexes : k = s.loy_cards_number
    BY <1>1 DEF CardIndexes
  <2>2. t.loy_cards_map = [s.loy_cards_map EXCEPT ![k] = card]
    BY <1>4, <2>1
  <2>3. Entries(t) = Stored(Entries(s), k, card)
    BY <1>4, <2>2, EntriesStored
  <2> QED BY <2>1, <2>3
<1>7. By(row) = 1
  BY DEF By, CardRow
<1>8. PICK new : new = [live EXCEPT !.loy_cards_map = Stored(@, live.loy_cards_number, card)]
  OBVIOUS
<1>9. /\ new.state = live.state /\ new.loy_cards_number = live.loy_cards_number
      /\ new.loy_cards_map = Stored(live.loy_cards_map, live.loy_cards_number, card)
  BY <1>8 DEF ThreadCarts
<1>10. Matches(new, t, 1)
  BY <1>1, <1>4, <1>6, <1>9 DEF Matches
<1> QED BY <1>5, <1>7, <1>8, <1>10

LEMMA MatchedErase ==
    ASSUME NEW live \in ThreadCarts, NEW s \in Served, NEW card \in Cards, Matches(live, s, 0),
           live.state = CART_STATE_READY_FOR_ITEM, card \in CardsIn(live),
           NEW row, row = CardRow("V", card)
    PROVE  Matches([live EXCEPT !.loy_cards_map = {entry \in @ : entry[2] # card}],
                   replayCards(s, row), By(row))
<1> DEFINE t == [s EXCEPT !.loy_cards_map = [k \in CardIndexes |-> IF @[k] = card THEN NoCard ELSE @[k]],
                          !.loy_cards_number = @ - 1]
<1>1. /\ s.loy_cards_number = live.loy_cards_number /\ live.loy_cards_number \in Int
      /\ s.state = CART_STATE_READY_FOR_ITEM /\ card \in CardsOf(s)
  <2>1. live.loy_cards_number \in Int
    BY DEF ThreadCarts
  <2>2. s.loy_cards_number = live.loy_cards_number /\ s.state = CART_STATE_READY_FOR_ITEM
    BY <2>1 DEF Matches
  <2>3. card \in CardsOf(s)
    BY MatchedCards
  <2> QED BY <2>1, <2>2, <2>3
<1>2. replayCards(s, row) = removeLoyCard(s, card).cart
  BY DEF replayCards, CardRow, VoidRow
<1>3. removeLoyCard(s, card) = Result(t, Journalled(s, <<CardRow("V", card)>>), RC_LOY_CARD_NOT_PRESENT)
  <2>1. AcceptsChanges(s)
    BY <1>1 DEF AcceptsChanges
  <2> QED BY <1>1, <2>1 DEF removeLoyCard
<1>4. /\ t.state = s.state /\ t.loy_cards_number = s.loy_cards_number - 1
      /\ t.loy_cards_map = [k \in CardIndexes |->
             IF s.loy_cards_map[k] = card THEN NoCard ELSE s.loy_cards_map[k]]
      /\ s.loy_cards_map \in [CardIndexes -> Cards \cup {NoCard}]
  BY DEF Served, Carts
<1> HIDE DEF t
<1>5. replayCards(s, row) = t
  BY <1>2, <1>3 DEF Result
<1>6. Entries(t) = {entry \in Entries(s) : entry[2] # card}
  BY <1>4, EntriesErased
<1>7. By(row) = -1
  BY DEF By, CardRow
<1>8. PICK new : new = [live EXCEPT !.loy_cards_map = {entry \in @ : entry[2] # card}]
  OBVIOUS
<1>9. /\ new.state = live.state /\ new.loy_cards_number = live.loy_cards_number
      /\ new.loy_cards_map = {entry \in live.loy_cards_map : entry[2] # card}
  BY <1>8 DEF ThreadCarts
<1>10. Matches(new, t, -1)
  BY <1>1, <1>4, <1>6, <1>9 DEF Matches
<1> QED BY <1>5, <1>7, <1>8, <1>10

LEMMA MatchedVoid ==
    ASSUME NEW live \in ThreadCarts, NEW s \in Served, Matches(live, s, 0),
           live.state = CART_STATE_READY_FOR_ITEM
    PROVE  Matches([live EXCEPT !.state = CART_STATE_VOIDED], replayCards(s, VoidRow), 0)
<1>1. replayCards(s, VoidRow) = [s EXCEPT !.state = CART_STATE_VOIDED]
  <2>1. s.state \notin {CART_STATE_VOIDED, CART_STATE_CLOSED}
    BY DEF Matches, CART_STATE_READY_FOR_ITEM, CART_STATE_VOIDED, CART_STATE_CLOSED
  <2> QED BY <2>1 DEF replayCards, VoidRow, voidAllCart, Result
<1>2. PICK t : t = [s EXCEPT !.state = CART_STATE_VOIDED]
  OBVIOUS
<1>3. /\ t.state = CART_STATE_VOIDED /\ t.loy_cards_map = s.loy_cards_map
      /\ t.loy_cards_number = s.loy_cards_number
  BY <1>2 DEF Served, Carts
<1>4. PICK new : new = [live EXCEPT !.state = CART_STATE_VOIDED]
  OBVIOUS
<1>5. /\ new.state = CART_STATE_VOIDED /\ new.loy_cards_map = live.loy_cards_map
      /\ new.loy_cards_number = live.loy_cards_number
  BY <1>4 DEF ThreadCarts
<1>6. Matches(new, t, 0)
  BY <1>3, <1>5 DEF Matches, Entries
<1> QED BY <1>1, <1>2, <1>4, <1>6

-----------------------------------------------------------------------------
(* Every step keeps what the threads do alone *)

\* Where device d is with its session: in a request, or between two.
Own(d) ==
    LET live == carts_map[session[d]]
        s    == serialCart(journal[session[d]])
    IN  /\ Working(d) => Progress(d, live, s)
        /\ ~Working(d) => Matches(live, s, 0)

\* Nobody but d has the session: what is known of it is what d is doing.
LEMMA OwnOfAlone ==
    ASSUME SerialInv, NEW d \in Devices, session[d] \in CartNumbers,
           openings[session[d]] <= 1
    PROVE  Own(d)
<1>1. PICK n \in CartNumbers : n = session[d]
  OBVIOUS
<1>2. AloneInv(n)
  BY <1>1 DEF SerialInv
<1>3. \A e \in Devices : WorksOn(e, n) => e = d
  BY <1>1, <1>2 DEF AloneInv, SerialInv, WorkersInv, WorksOn
<1>4. WorksOn(d, n) <=> Working(d)
  BY <1>1 DEF SerialInv, WorkersInv, WorksOn
<1> QED BY <1>1, <1>2, <1>3, <1>4 DEF AloneInv, Own

\* What a step of a request of device d leaves alone.
CartFrame(d) ==
    /\ UNCHANGED <<session, openings>>
    /\ \A e \in Devices \ {d} : pc'[e] = pc[e] /\ local'[e] = local[e]
    /\ \A n \in CartNumbers \ {session[d]} :
          carts_map'[n] = carts_map[n] /\ journal'[n] = journal[n]

LEMMA AloneOfOwn ==
    ASSUME SerialInv, WorkersInv', NEW d \in Devices, session[d] \in CartNumbers,
           CartFrame(d), openings[session[d]] <= 1 => Own(d)',
           NEW n \in CartNumbers, openings'[n] <= 1
    PROVE  AloneInv(n)'
<1>0. AloneInv(n) /\ openings[n] <= 1
  BY DEF SerialInv, CartFrame
<1>1. \A e \in Devices \ {d} : WorksOn(e, n)' <=> WorksOn(e, n)
  BY DEF CartFrame, WorksOn, Working
<1>2. \A e, f \in Devices : session'[e] = n /\ session'[f] = n => e = f
  BY <1>0 DEF CartFrame, AloneInv
<1>3. CASE n = session[d]
  <2>1. \A e \in Devices \ {d} : ~WorksOn(e, n)'
    BY <1>0, <1>1, <1>3 DEF AloneInv, SerialInv, WorkersInv, WorksOn
  <2>2. WorksOn(d, n)' <=> Working(d)'
    BY <1>3 DEF CartFrame, WorkersInv, WorksOn
  <2>3. session'[d] = n
    BY <1>3 DEF CartFrame
  <2> QED BY <1>0, <1>2, <1>3, <2>1, <2>2, <2>3 DEF AloneInv, Own
<1>4. CASE n # session[d]
  <2>1. ~WorksOn(d, n)' /\ ~WorksOn(d, n)
    BY <1>4 DEF CartFrame, SerialInv, WorkersInv, WorksOn
  <2>2. carts_map'[n] = carts_map[n] /\ journal'[n] = journal[n]
    BY <1>4 DEF CartFrame
  <2>3. \A e \in Devices \ {d} : Progress(e, carts_map[n], serialCart(journal[n]))
                                     => Progress(e, carts_map[n], serialCart(journal[n]))'
    BY <2>2 DEF CartFrame, Progress
  <2> QED BY <1>0, <1>1, <1>2, <2>1, <2>2, <2>3 DEF AloneInv
<1> QED BY <1>3, <1>4

\* The two kinds of row are told apart.
LEMMA RequestRows ==
    /\ VoidRow \in Requests
    /\ \A card \in Cards : \A action \in {"A", "V"} :
          /\ CardRow(action, card) \in Requests
          /\ CardRow(action, card) # VoidRow
          /\ CardRow(action, card).action = action
<1>1. ASSUME NEW card \in Cards, NEW action \in {"A", "V"}
      PROVE  /\ CardRow(action, card) \in Requests
             /\ CardRow(action, card) # VoidRow
             /\ CardRow(action, card).action = action
  <2>1. CardRow(action, card).object = "L" /\ VoidRow.object = "C"
    BY DEF CardRow, VoidRow
  <2>2. CardRow(action, card) # VoidRow
    BY <2>1
  <2>3. CardRow(action, card) \in Requests
    BY DEF Requests
  <2>4. CardRow(action, card).action = action
    BY DEF CardRow
  <2> QED BY <2>2, <2>3, <2>4
<1>2. VoidRow \in Requests
  BY DEF Requests
<1> QED BY <1>1, <1>2

\* Every step keeps what a thread knows of its request.
LEMMA ThreadWorkers ==
    ASSUME IInv, SerialInv, NEW d \in Devices, NewCartStep(d) \/ CartStep(d)
    PROVE  WorkersInv'
<1> USE DEF IInv, TypeOK, SerialInv, WorkersInv, Working, Locals, shop, disk, history, vars, Goto, At, Return, Idle
<1>1. CASE ReadNumber(d)
  BY <1>1 DEF ReadNumber
<1>2. CASE CreateFile(d)
  BY <1>2 DEF CreateFile
<1>3. CASE InsertCart(d)
  BY <1>3 DEF InsertCart
<1>4. CASE LoadNumber(d)
  BY <1>4 DEF LoadNumber
<1>5. CASE StoreNumber(d)
  BY <1>5 DEF StoreNumber
<1>6. CASE AnswerOnly(d)
  BY <1>6 DEF AnswerOnly
<1>7. CASE \E card \in Cards : LookUpCard(d, card)
  BY RequestRows, <1>7 DEF LookUpCard, Asks, Serve
<1>8. CASE \E card \in Cards : EraseCard(d, card)
  BY RequestRows, <1>8 DEF EraseCard, Asks, Serve
<1>9. CASE RegisterCard(d)
  BY <1>9 DEF RegisterCard
<1>10. CASE CheckCard(d)
  BY <1>10 DEF CheckCard
<1>11. CASE PutCard(d)
  BY <1>11 DEF PutCard
<1>12. CASE WriteCardRow(d)
  BY <1>12 DEF WriteCardRow
<1>13. CASE LoadCount(d)
  BY <1>13 DEF LoadCount
<1>14. CASE StoreCount(d)
  BY <1>14 DEF StoreCount
<1>15. CASE VoidState(d)
  BY RequestRows, <1>15 DEF VoidState, Asks, Serve
<1>16. CASE WriteVoidRow(d)
  BY <1>16 DEF WriteVoidRow
<1> QED BY <1>1, <1>2, <1>3, <1>4, <1>5, <1>6, <1>7, <1>8, <1>9, <1>10, <1>11, <1>12, <1>13, <1>14, <1>15, <1>16 DEF NewCartStep, CartStep

\* A step of a request stays with the session of its device.
LEMMA CartStepFrame ==
    ASSUME IInv, SerialInv, NEW d \in Devices, CartStep(d)
    PROVE  AnswerOnly(d) \/ (session[d] \in CartNumbers /\ CartFrame(d))
<1> USE DEF IInv, TypeOK, LocalsInv, SerialInv, WorkersInv, Working, CartFrame, shop, disk, history, Goto, At, Return
<1>1. CASE AnswerOnly(d)
  BY <1>1
<1>2. CASE \E card \in Cards : LookUpCard(d, card)
  BY <1>2 DEF LookUpCard, Asks, Serve
<1>3. CASE \E card \in Cards : EraseCard(d, card)
  BY <1>3 DEF EraseCard, Asks, Serve
<1>4. CASE RegisterCard(d)
  BY <1>4 DEF RegisterCard
<1>5. CASE CheckCard(d)
  BY <1>5 DEF CheckCard
<1>6. CASE PutCard(d)
  BY <1>6 DEF PutCard
<1>7. CASE WriteCardRow(d)
  BY <1>7 DEF WriteCardRow
<1>8. CASE LoadCount(d)
  BY <1>8 DEF LoadCount
<1>9. CASE StoreCount(d)
  BY <1>9 DEF StoreCount
<1>10. CASE VoidState(d)
  BY <1>10 DEF VoidState, Asks, Serve
<1>11. CASE WriteVoidRow(d)
  BY <1>11 DEF WriteVoidRow
<1> QED BY <1>1, <1>2, <1>3, <1>4, <1>5, <1>6, <1>7, <1>8, <1>9, <1>10, <1>11 DEF CartStep

\* Between its requests, and step by step within one, a device that is alone
\* with its session finds there what its own rows say.
LEMMA OwnKept ==
    ASSUME IInv, SerialInv, NEW d \in Devices, CartStep(d), session[d] \in CartNumbers,
           openings[session[d]] <= 1
    PROVE  Own(d)'
<1>1. PICK n \in CartNumbers : n = session[d]
  OBVIOUS
<1>2. PICK s \in Served : s = serialCart(journal[n])
  BY SerialServed DEF SerialInv, SessionsInv
<1>3. PICK live \in ThreadCarts : live = carts_map[n]
  BY DEF IInv, TypeOK
<1>4. /\ Working(d) => Progress(d, live, s) /\ local[d].cart = n
      /\ ~Working(d) => Matches(live, s, 0)
  BY <1>1, <1>2, <1>3, OwnOfAlone DEF Own, SerialInv, WorkersInv
<1>5. ASSUME NEW live2, NEW s2, carts_map'[n] = live2, serialCart(journal'[n]) = s2,
             session' = session,
             Working(d)' => Progress(d, live2, s2)', ~Working(d)' => Matches(live2, s2, 0)
      PROVE  Own(d)'
  BY <1>1, <1>5 DEF Own
<1>6. ASSUME UNCHANGED <<carts_map, journal, session>>,
             Working(d)' => Progress(d, live, s)', ~Working(d)' => Matches(live, s, 0)
      PROVE  Own(d)'
  BY <1>2, <1>3, <1>5, <1>6
<1> USE DEF IInv, TypeOK, Working, shop, disk, history, vars, Goto, At, Return
<1>7. CASE AnswerOnly(d)
  BY <1>4, <1>6, <1>7 DEF AnswerOnly, Progress
<1>8. CASE \E card \in Cards : LookUpCard(d, card)
  BY <1>4, <1>6, <1>8 DEF LookUpCard, Asks, Serve, Progress
<1>9. CASE RegisterCard(d)
  BY <1>4, <1>6, <1>9 DEF RegisterCard, Progress
<1>10. CASE CheckCard(d)
  BY <1>3, <1>4, <1>6, <1>10 DEF CheckCard, Progress
<1>11. CASE LoadCount(d)
  BY <1>3, <1>4, <1>6, <1>11 DEF LoadCount, Progress, Locals
<1>12. CASE PutCard(d)
  <2>1. PICK card \in Cards : card = local[d].row.code
    BY <1>12 DEF PutCard, LocalsInv
  <2>2. PICK row \in Requests : row = local[d].row
    BY <1>12 DEF PutCard, SerialInv, WorkersInv
  <2>3. row = CardRow("A", card)
    BY <1>12, <2>1, <2>2, RequestRows DEF PutCard, SerialInv, WorkersInv, Requests, CardRow, VoidRow
  <2>4. /\ Matches(live, s, 0) /\ live.state = CART_STATE_READY_FOR_ITEM
        /\ BelowLimit(live) /\ card \notin CardsIn(live) /\ local[d].cart = n
    BY <1>4, <1>12, <2>1 DEF PutCard, Progress
  <2>5. PICK new : new = [live EXCEPT !.loy_cards_map = Stored(@, live.loy_cards_number, card)]
    OBVIOUS
  <2>6. Matches(new, replayCards(s, row), By(row))
    BY <2>3, <2>4, <2>5, MatchedAdd
  <2>7. new.state = CART_STATE_READY_FOR_ITEM
    BY <2>4, <2>5 DEF ThreadCarts
  <2>8. /\ carts_map'[n] = new /\ journal' = journal /\ session' = session
        /\ pc'[d] = "row" /\ local'[d].row = row
    BY <1>3, <1>12, <2>1, <2>2, <2>4, <2>5 DEF PutCard
  <2>9. Progress(d, new, s)'
    BY <2>6, <2>7, <2>8 DEF Progress
  <2> QED BY <1>2, <1>5, <2>8, <2>9
<1>13. CASE \E card \in Cards : EraseCard(d, card)
  <2>1. PICK card \in Cards : EraseCard(d, card)
    BY <1>13
  <2>2. PICK row \in Requests : row = CardRow("V", card)
    BY RequestRows
  <2>3. /\ Matches(live, s, 0) /\ live.state = CART_STATE_READY_FOR_ITEM
        /\ card \in CardsIn(live)
    BY <1>1, <1>3, <1>4, <2>1 DEF EraseCard, Asks
  <2>4. PICK new : new = [live EXCEPT !.loy_cards_map = {entry \in @ : entry[2] # card}]
    OBVIOUS
  <2>5. Matches(new, replayCards(s, row), By(row))
    BY <2>2, <2>3, <2>4, MatchedErase
  <2>6. new.state = CART_STATE_READY_FOR_ITEM
    BY <2>3, <2>4 DEF ThreadCarts
  <2>7. /\ carts_map'[n] = new /\ journal' = journal /\ session' = session
        /\ pc'[d] = "row" /\ local'[d].row = row
    BY <1>1, <1>3, <2>1, <2>2, <2>4 DEF EraseCard, Serve
  <2>8. Progress(d, new, s)'
    BY <2>5, <2>6, <2>7 DEF Progress
  <2> QED BY <1>2, <1>5, <2>7, <2>8
<1>14. CASE WriteCardRow(d)
  <2>1. PICK row \in Requests : row = local[d].row
    BY <1>14 DEF WriteCardRow, SerialInv, WorkersInv
  <2>2. /\ live.state = CART_STATE_READY_FOR_ITEM
        /\ Matches(live, replayCards(s, row), By(row)) /\ local[d].cart = n
    BY <1>4, <1>14, <2>1 DEF WriteCardRow, Progress
  <2>3. serialCart(Append(journal[n], row)) = replayCards(s, row)
    BY <1>2, SerialOfMore DEF SerialInv, SessionsInv
  <2>4. /\ carts_map'[n] = live /\ journal'[n] = Append(journal[n], row) /\ session' = session
        /\ pc'[d] = "count" /\ local'[d].row = row
    BY <1>3, <1>14, <2>1, <2>2 DEF WriteCardRow
  <2>5. Progress(d, live, replayCards(s, row))'
    BY <2>2, <2>4 DEF Progress
  <2> QED BY <1>5, <2>3, <2>4, <2>5
<1>15. CASE StoreCount(d)
  <2>1. PICK row \in Requests : row = local[d].row
    BY <1>15 DEF StoreCount, SerialInv, WorkersInv
  <2>2. /\ Matches(live, s, By(row)) /\ local[d].number = live.loy_cards_number
        /\ local[d].cart = n
    BY <1>4, <1>15, <2>1 DEF StoreCount, Progress
  <2>3. PICK k \in Int : k = live.loy_cards_number + By(row)
    <3>1. live.loy_cards_number \in Int
      BY DEF ThreadCarts
    <3>2. By(row) \in Int
      BY DEF By
    <3> QED BY <3>1, <3>2
  <2>4. PICK new : new = [live EXCEPT !.loy_cards_number = k]
    OBVIOUS
  <2>5. Matches(new, s, 0)
    <3>1. /\ new.state = live.state /\ new.loy_cards_map = live.loy_cards_map
          /\ new.loy_cards_number = k
      BY <2>4 DEF ThreadCarts
    <3>2. s.loy_cards_number = k
      BY <2>2, <2>3 DEF Matches
    <3> QED BY <2>2, <3>1, <3>2 DEF Matches
  <2>6. k = IF row.action = "A" THEN local[d].number + 1 ELSE local[d].number - 1
    BY <2>2, <2>3, CartAssigned DEF By
  <2>7. carts_map' = [carts_map EXCEPT ![n] = [live EXCEPT !.loy_cards_number = k]]
    BY <1>3, <1>15, <2>1, <2>2, <2>6 DEF StoreCount
  <2>8. /\ carts_map'[n] = new /\ journal' = journal /\ session' = session /\ pc'[d] = "idle"
    BY <1>15, <2>4, <2>7 DEF StoreCount
  <2> QED BY <1>2, <1>5, <2>5, <2>8
<1>16. CASE VoidState(d)
  <2>1. Matches(live, s, 0) /\ live.state = CART_STATE_READY_FOR_ITEM
    BY <1>1, <1>3, <1>4, <1>16 DEF VoidState, Asks
  <2>2. PICK new : new = [live EXCEPT !.state = CART_STATE_VOIDED]
    OBVIOUS
  <2>3. Matches(new, replayCards(s, VoidRow), 0)
    BY <2>1, <2>2, MatchedVoid
  <2>4. /\ carts_map'[n] = new /\ journal' = journal /\ session' = session
        /\ pc'[d] = "void" /\ local'[d].row = VoidRow
    BY <1>1, <1>3, <1>16, <2>2 DEF VoidState, Serve
  <2>5. Progress(d, new, s)'
    BY <2>3, <2>4 DEF Progress
  <2> QED BY <1>2, <1>5, <2>4, <2>5
<1>17. CASE WriteVoidRow(d)
  <2>1. local[d].row = VoidRow
    BY <1>17 DEF WriteVoidRow, SerialInv, WorkersInv
  <2>2. Matches(live, replayCards(s, VoidRow), 0) /\ local[d].cart = n
    BY <1>4, <1>17, <2>1 DEF WriteVoidRow, Progress
  <2>3. serialCart(Append(journal[n], VoidRow)) = replayCards(s, VoidRow)
    BY <1>2, SerialOfMore, RequestRows DEF SerialInv, SessionsInv
  <2>4. /\ carts_map'[n] = live /\ journal'[n] = Append(journal[n], VoidRow) /\ session' = session
        /\ pc'[d] = "idle"
    BY <1>3, <1>17, <2>1, <2>2 DEF WriteVoidRow
  <2> QED BY <1>5, <2>2, <2>3, <2>4
<1> QED BY <1>7, <1>8, <1>9, <1>10, <1>11, <1>12, <1>13, <1>14, <1>15, <1>16, <1>17 DEF CartStep

\* A cart that was not answered to anybody is empty still, and is its replay.
LEMMA UntouchedMatches ==
    ASSUME SerialInv, NEW n \in CartNumbers, openings[n] = 0
    PROVE  Matches(carts_map[n], serialCart(journal[n]), 0)
<1>1. carts_map[n] = EmptyCart /\ journal[n] = << >>
  BY DEF SerialInv, SessionsInv
<1>2. PICK s : s = NewCart(CART_STATE_READY_FOR_ITEM)
  OBVIOUS
<1>3. /\ s.state = CART_STATE_READY_FOR_ITEM /\ s.loy_cards_number = 0
      /\ s.loy_cards_map = [k \in CardIndexes |-> NoCard]
  BY <1>2 DEF NewCart
<1>4. Entries(s) = {}
  <2>1. PICK m : m = s.loy_cards_map
    OBVIOUS
  <2>2. \A j \in CardIndexes : m[j] = NoCard
    BY <1>3, <2>1
  <2>3. Entries(s) = {<<k, m[k]>> : k \in {j \in CardIndexes : m[j] # NoCard}}
    BY <2>1 DEF Entries
  <2> QED BY <2>2, <2>3
<1>5. Matches(EmptyCart, s, 0)
  BY <1>3, <1>4 DEF Matches, EmptyCart
<1> QED BY <1>1, <1>2, <1>5, SerialOfNone

\* A step of newCart before its last changes no cart, and no thread that
\* works on one.
LEMMA NewCartFrame ==
    ASSUME IInv, SerialInv, NEW d \in Devices,
           \/ ReadNumber(d) \/ CreateFile(d) \/ InsertCart(d) \/ LoadNumber(d) \/ AnswerOnly(d)
    PROVE  /\ UNCHANGED <<carts_map, journal, session, openings>>
           /\ sessions \subseteq sessions'
           /\ \A e \in Devices : Working(e)' <=> Working(e)
           /\ \A e \in Devices : Working(e) => pc'[e] = pc[e] /\ local'[e] = local[e]
<1> USE DEF IInv, TypeOK, Working, shop, disk, history, vars, Goto, At
<1>1. CASE ReadNumber(d)
  BY <1>1 DEF ReadNumber
<1>2. CASE CreateFile(d)
  BY <1>2 DEF CreateFile
<1>3. CASE InsertCart(d)
  <2>1. PICK n \in CartNumbers : n = local[d].cart
    BY <1>3 DEF InsertCart, LocalsInv
  <2>2. n \in sessions \/ carts_map[n] = EmptyCart
    BY DEF SerialInv, SessionsInv
  <2>3. carts_map' = carts_map
    BY <1>3, <2>1, <2>2 DEF InsertCart
  <2> QED BY <1>3, <2>3 DEF InsertCart
<1>4. CASE LoadNumber(d)
  BY <1>4 DEF LoadNumber
<1>5. CASE AnswerOnly(d)
  BY <1>5 DEF AnswerOnly
<1> QED BY <1>1, <1>2, <1>3, <1>4, <1>5

LEMMA AloneOfFrame ==
    ASSUME SerialInv, NEW n \in CartNumbers, AloneInv(n),
           carts_map'[n] = carts_map[n], journal'[n] = journal[n],
           \A e \in Devices : session'[e] = n => session[e] = n,
           \A e \in Devices : Working(e)' <=> Working(e),
           \A e \in Devices : Working(e) => pc'[e] = pc[e] /\ local'[e] = local[e]
    PROVE  AloneInv(n)'
<1>1. \A e \in Devices : WorksOn(e, n)' <=> WorksOn(e, n)
  BY DEF WorksOn
<1>2. \A e \in Devices : WorksOn(e, n) /\ Progress(e, carts_map[n], serialCart(journal[n]))
                             => Progress(e, carts_map[n], serialCart(journal[n]))'
  BY DEF Progress, WorksOn
<1> QED BY <1>1, <1>2 DEF AloneInv

\* The last step of newCart: a session that was answered once only has the
\* cart that the constructor made.
LEMMA StoreSerial ==
    ASSUME IInv, SerialInv, WorkersInv', NEW d \in Devices, StoreNumber(d)
    PROVE  SerialInv'
<1>1. PICK n \in CartNumbers : n = local[d].cart
  BY DEF StoreNumber, At, IInv, LocalsInv
<1>2. /\ pc[d] = "store"
      /\ session' = [session EXCEPT ![d] = n]
      /\ openings' = [openings EXCEPT ![n] = openings[n] + 1]
      /\ pc' = [pc EXCEPT ![d] = "idle"] /\ local' = [local EXCEPT ![d] = Idle]
      /\ UNCHANGED <<carts_map, sessions, journal>>
  BY <1>1 DEF StoreNumber, Return, At, disk
<1>3. \A e \in Devices : Working(e)' <=> Working(e)
  BY <1>2 DEF Working, IInv, TypeOK
<1>4. \A e \in Devices : Working(e) => pc'[e] = pc[e] /\ local'[e] = local[e]
  BY <1>2 DEF Working, IInv, TypeOK
<1>5. \A m \in CartNumbers : openings[m] \in Nat
  BY DEF IInv, TypeOK
<1>6. \A m \in CartNumbers : openings'[m] = IF m = n THEN openings[m] + 1 ELSE openings[m]
  BY <1>2 DEF IInv, TypeOK
<1>7. \A e \in Devices : session'[e] = IF e = d THEN n ELSE session[e]
  BY <1>2 DEF IInv, TypeOK
<1>8. SessionsInv'
  <2>1. n \in sessions
    BY <1>1, <1>2 DEF IInv, AnsweredInv
  <2>2. \A m \in CartNumbers : openings'[m] = 0 => m # n /\ openings[m] = 0
    BY <1>5, <1>6
  <2>3. \A m \in CartNumbers : openings'[m] > 0 => m \in sessions'
    BY <1>2, <1>5, <1>6, <2>1 DEF SerialInv, SessionsInv
  <2> QED BY <1>2, <1>7, <2>2, <2>3 DEF SerialInv, SessionsInv
<1>9. ASSUME NEW m \in CartNumbers, openings'[m] <= 1 PROVE AloneInv(m)'
  <2>1. CASE m # n
    BY <1>2, <1>3, <1>4, <1>6, <1>7, <1>9, <2>1, AloneOfFrame DEF SerialInv
  <2>2. CASE m = n
    <3>1. openings[n] = 0
      BY <1>5, <1>6, <1>9, <2>2
    <3>2. \A e \in Devices : session[e] # n
      BY <3>1 DEF SerialInv, SessionsInv
    <3>3. \A e \in Devices : ~WorksOn(e, n)'
      BY <1>3, <1>4, <3>2 DEF WorksOn, SerialInv, WorkersInv
    <3>4. Matches(carts_map[n], serialCart(journal[n]), 0)
      BY <3>1, UntouchedMatches
    <3> QED BY <1>2, <1>7, <2>2, <3>2, <3>3, <3>4 DEF AloneInv
  <2> QED BY <2>1, <2>2
<1> QED BY <1>8, <1>9 DEF SerialInv

\* A step of a request appends nothing but its row, and only to the file of a
\* session that was answered.
LEMMA StepSessions ==
    ASSUME IInv, SerialInv, NEW d \in Devices, CartStep(d), session[d] \in CartNumbers,
           CartFrame(d)
    PROVE  SessionsInv'
<1>1. PICK n \in CartNumbers : n = session[d]
  OBVIOUS
<1>2. /\ journal'[n] = journal[n] \/ \E row \in Requests : journal'[n] = Append(journal[n], row)
      /\ UNCHANGED sessions
  <2> USE DEF IInv, TypeOK, SerialInv, WorkersInv, Working, shop, disk, history, vars, At
  <2>1. CASE WriteCardRow(d)
    <3>1. local[d].row \in Requests /\ local[d].cart = n
      BY <1>1, <2>1 DEF WriteCardRow
    <3>2. journal'[n] = journal[n] \/ journal'[n] = Append(journal[n], local[d].row)
      BY <2>1, <3>1 DEF WriteCardRow
    <3> QED BY <2>1, <3>1, <3>2 DEF WriteCardRow
  <2>2. CASE WriteVoidRow(d)
    <3>1. local[d].row \in Requests /\ local[d].cart = n
      BY <1>1, <2>2 DEF WriteVoidRow
    <3>2. journal'[n] = Append(journal[n], local[d].row)
      BY <2>2, <3>1 DEF WriteVoidRow
    <3> QED BY <2>2, <3>1, <3>2 DEF WriteVoidRow
  <2>3. CASE ~WriteCardRow(d) /\ ~WriteVoidRow(d)
    BY <2>3 DEF CartStep, AnswerOnly, LookUpCard, EraseCard, RegisterCard, CheckCard, PutCard,
                LoadCount, StoreCount, VoidState
  <2> QED BY <2>1, <2>2, <2>3
<1>3. journal[n] \in Seq(Requests)
  BY DEF SerialInv, SessionsInv
<1>4. journal'[n] \in Seq(Requests)
  BY <1>2, <1>3, AppendProperties
<1>5. openings[n] # 0
  BY <1>1 DEF SerialInv, SessionsInv
<1>6. \A m \in CartNumbers \ {n} : carts_map'[m] = carts_map[m] /\ journal'[m] = journal[m]
  BY <1>1 DEF CartFrame
<1>7. session' = session /\ openings' = openings /\ sessions' = sessions
  BY <1>2 DEF CartFrame
<1> QED BY <1>4, <1>5, <1>6, <1>7 DEF SerialInv, SessionsInv

LEMMA SerialInductive ==
    /\ Init => SerialInv
    /\ IInv /\ SerialInv /\ [Next]_vars => SerialInv'
<1>1. Init => SerialInv
  <2> SUFFICES ASSUME Init PROVE SerialInv
    OBVIOUS
  <2>1. WorkersInv
    BY DEF Init, WorkersInv, Working
  <2>2. SessionsInv
    <3>1. \A n \in CartNumbers : n # NoCart
      BY SessionThreadsAssumption
    <3> QED BY <3>1 DEF Init, SessionsInv
  <2>3. ASSUME NEW n \in CartNumbers PROVE AloneInv(n)
    <3>1. session = [d \in Devices |-> NoCart] /\ n # NoCart
      BY SessionThreadsAssumption DEF Init
    <3>2. \A d \in Devices : ~WorksOn(d, n)
      BY DEF Init, WorksOn, Working
    <3>3. Matches(EmptyCart, serialCart(<< >>), 0)
      <4>1. PICK s : s = NewCart(CART_STATE_READY_FOR_ITEM)
        OBVIOUS
      <4>2. /\ s.state = CART_STATE_READY_FOR_ITEM /\ s.loy_cards_number = 0
            /\ s.loy_cards_map = [k \in CardIndexes |-> NoCard]
        BY <4>1 DEF NewCart
      <4>3. Entries(s) = {}
        <5>1. PICK m : m = s.loy_cards_map
          OBVIOUS
        <5>2. \A j \in CardIndexes : m[j] = NoCard
          BY <4>2, <5>1
        <5> QED BY <5>1, <5>2 DEF Entries
      <4> QED BY <4>1, <4>2, <4>3, SerialOfNone DEF Matches, EmptyCart
    <3>4. carts_map[n] = EmptyCart /\ journal[n] = << >>
      BY DEF Init
    <3> QED BY <3>1, <3>2, <3>3, <3>4 DEF AloneInv
  <2> QED BY <2>1, <2>2, <2>3 DEF SerialInv
<1>2. IInv /\ SerialInv /\ [Next]_vars => SerialInv'
  <2> SUFFICES ASSUME IInv, SerialInv, [Next]_vars PROVE SerialInv'
    OBVIOUS
  <2>1. CASE UNCHANGED vars
    <3>1. UNCHANGED <<carts_map, journal, session, openings, sessions, pc, local>>
      BY <2>1 DEF vars, shop, disk, history
    <3>2. \A n \in CartNumbers : AloneInv(n) => AloneInv(n)'
      BY <3>1, AloneOfFrame DEF Working
    <3> QED BY <3>1, <3>2 DEF SerialInv, WorkersInv, SessionsInv, Working
  <2>2. ASSUME NEW d \in Devices, NewCartStep(d) \/ CartStep(d) PROVE SerialInv'
    <3>1. WorkersInv'
      BY <2>2, ThreadWorkers
    <3>2. CASE StoreNumber(d)
      BY <3>1, <3>2, StoreSerial
    <3>3. CASE \/ ReadNumber(d) \/ CreateFile(d) \/ InsertCart(d) \/ LoadNumber(d)
               \/ AnswerOnly(d)
      <4>1. /\ UNCHANGED <<carts_map, journal, session, openings>>
            /\ sessions \subseteq sessions'
            /\ \A e \in Devices : Working(e)' <=> Working(e)
            /\ \A e \in Devices : Working(e) => pc'[e] = pc[e] /\ local'[e] = local[e]
        BY <3>3, NewCartFrame
      <4>2. \A n \in CartNumbers : AloneInv(n) => AloneInv(n)'
        BY <4>1, AloneOfFrame
      <4>3. SessionsInv'
        BY <4>1 DEF SerialInv, SessionsInv
      <4> QED BY <3>1, <4>1, <4>2, <4>3 DEF SerialInv
    <3>4. CASE CartStep(d) /\ ~AnswerOnly(d)
      <4>1. session[d] \in CartNumbers /\ CartFrame(d)
        BY <3>4, CartStepFrame
      <4>2. ASSUME NEW n \in CartNumbers, openings'[n] <= 1 PROVE AloneInv(n)'
        BY <3>1, <3>4, <4>1, <4>2, AloneOfOwn, OwnKept
      <4>3. SessionsInv'
        BY <3>4, <4>1, StepSessions
      <4> QED BY <3>1, <4>2, <4>3 DEF SerialInv
    <3> QED BY <2>2, <3>2, <3>3, <3>4 DEF NewCartStep
  <2> QED BY <2>1, <2>2 DEF Next
<1> QED BY <1>1, <1>2

\* A session that newCart answered once only has, whenever no thread is at it,
\* the state, the cards and the count of cards that its file replays to, with
\* the requests done whole and one after the other: the threads of other
\* sessions cannot reach into it, however many there are and however they
\* interleave.
THEOREM AloneIsSerial == Spec => []PrivateSessionsAreSerial
<1>1. IInv /\ SerialInv => PrivateSessionsAreSerial
  <2> SUFFICES ASSUME IInv, SerialInv, NEW n \in sessions, openings[n] <= 1,
                      \A d \in Devices : ~At(d, "idle") => local[d].cart # n
               PROVE  /\ carts_map[n].state = serialCart(journal[n]).state
                      /\ carts_map[n].loy_cards_number = serialCart(journal[n]).loy_cards_number
                      /\ carts_map[n].loy_cards_map = Entries(serialCart(journal[n]))
    BY DEF PrivateSessionsAreSerial, Entries
  <2>1. n \in CartNumbers /\ carts_map[n] \in ThreadCarts
    BY DEF IInv, TypeOK
  <2>2. \A d \in Devices : ~WorksOn(d, n)
    BY DEF WorksOn, Working, At
  <2>3. Matches(carts_map[n], serialCart(journal[n]), 0)
    BY <2>1, <2>2 DEF SerialInv, AloneInv
  <2>4. carts_map[n].loy_cards_number \in Int
    BY <2>1, CartAssigned
  <2> QED BY <2>3, <2>4 DEF Matches
<1> QED BY <1>1, ThreadInductive, SerialInductive, PTL DEF Spec
=============================================================================
