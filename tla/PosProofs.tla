------------------------------ MODULE PosProofs ------------------------------
(***************************************************************************)
(* What PosTransfer keeps for any number of threads, sessions, tills and   *)
(* barcodes: the inductive invariant and the theorems.                     *)
(***************************************************************************)
EXTENDS PosTransfer, TLAPS

\* cart_sendtopos_mutex is held by the thread that is between lock and unlock.
LockInv == \A t \in Threads : pc[t] \in {"header", "lines", "unlock"} <=> mutex = t

Serves(t, s) == pc[t] # "idle" /\ local[t].session = s

\* Requests of one session are alone and find the session open, or have met.
AloneInv ==
    \A s \in Sessions \ met :
        /\ \A t, u \in Threads : Serves(t, s) /\ Serves(u, s) => t = u
        /\ \A t \in Threads : Serves(t, s) => cart[s].open

\* The file tells the cart, but for the piece that is being counted.
FileInv ==
    \A s \in Sessions \ met :
        /\ (\A t \in Threads : ~(Serves(t, s) /\ pc[t] = "put")) => cart[s] = file[s]
        /\ \A t \in Threads : Serves(t, s) /\ pc[t] \in {"count", "put"} =>
              LET r == local[t]
              IN  /\ r.by = -1 => file[s].barcodes_map[r.barcode] > 0
                  /\ r.qty = Changed(file[s].barcodes_map[r.barcode], r.by)
        /\ \A t \in Threads : Serves(t, s) /\ pc[t] = "put" =>
              cart[s] = [file[s] EXCEPT !.items_number = @ + local[t].by]

\* The basket under the lock is the session's, as far as it is written.
BasketInv ==
    \A t \in Threads : pc[t] = "lines" =>
        LET s == local[t].session
            basket == tmp[local[t].till]
        IN  IF local[t].failed THEN local[t].todo = {}
            ELSE /\ basket \in Baskets
                 /\ basket.session = s
                 /\ s \notin met =>
                       /\ basket.items_number = file[s].items_number
                       /\ card_of[s] # NoCard => basket.customer = card_of[s]
                       /\ \A b \in Barcodes \ local[t].todo :
                             basket.lines[b] = file[s].barcodes_map[b]

IInv == TypeOK /\ LockInv /\ AloneInv /\ FileInv /\ BasketInv

-----------------------------------------------------------------------------
(* Counts *)

LEMMA ChangedCounts ==
    /\ \A n \in Nat, by \in {-1, 1} : Changed(n, by) \in Nat
    /\ \A n \in Nat : n > 0 => Changed(n, -1) = n - 1
    /\ \A n \in Nat : Changed(n, 1) = n + 1
BY DEF Changed, OneLess

LEMMA ChangedCart ==
    ASSUME NEW c \in Carts, NEW n \in Int, NEW m \in Counts
    PROVE  [c EXCEPT !.items_number = n, !.barcodes_map = m] \in Carts
BY DEF Carts

\* One more row makes of a cart another cart.
LEMMA ReplayedCarts ==
    ASSUME NEW c \in Carts, NEW b \in Barcodes, NEW by \in {-1, 1}
    PROVE  replayChange(c, b, by) \in Carts
<1>1. Changed(c.barcodes_map[b], by) \in Nat
    BY ChangedCounts DEF Carts, Counts
<1> DEFINE counts == [c.barcodes_map EXCEPT ![b] = Changed(@, by)]
<1>2. counts \in Counts
    BY <1>1 DEF Carts, Counts
<1> HIDE DEF counts
<1>3. c.items_number + by \in Int
    BY DEF Carts
<1>4. [c EXCEPT !.items_number = @ + by, !.barcodes_map = counts] \in Carts
    BY <1>2, <1>3, ChangedCart
<1>. QED
    BY <1>4 DEF replayChange, counts

-----------------------------------------------------------------------------
(* The inductive invariant *)

LEMMA InitInv == Init => IInv
BY PosTransferAssumption DEF Init, IInv, TypeOK, LockInv, AloneInv, FileInv, BasketInv, Serves,
       Carts, Counts, EmptyCart, NoPieces

\* A request begins: its session is open, and met if it is served elsewhere.
LEMMA BeginStep ==
    ASSUME IInv, NEW t \in Threads, NEW place \in {"count", "lock"}, NEW request,
           request.session \in Sessions, Begin(t, place, request),
           place = "count" => /\ request \in Changes
                              /\ LET c == cart[request.session]
                                 IN  /\ request.by = -1 => c.barcodes_map[request.barcode] > 0
                                     /\ request.qty = Changed(c.barcodes_map[request.barcode], request.by),
           place = "lock" => request \in Sends,
           UNCHANGED <<cart, file, mutex, tmp>>
    PROVE  IInv'
<1>1. TypeOK'
    BY DEF Begin, IInv, TypeOK
<1>2. LockInv'
    BY DEF Begin, IInv, TypeOK, LockInv
<1>3. \A s \in Sessions \ met' : s \notin met /\ \A u \in Threads : Serves(u, s)' =>
          IF u = t THEN s = request.session /\ \A v \in Threads : ~Serves(v, s) ELSE Serves(u, s)
    BY DEF Begin, IInv, TypeOK, ServedElsewhere, Serves
<1>4. AloneInv'
    BY <1>3 DEF Begin, IInv, TypeOK, AloneInv
<1>5. FileInv'
  <2>1. ASSUME NEW s \in Sessions \ met', NEW u \in Threads, ~(Serves(u, s)' /\ pc'[u] = "put")
        PROVE  ~(Serves(u, s) /\ pc[u] = "put")
      BY <2>1 DEF Begin, IInv, TypeOK, Serves
  <2>2. ASSUME NEW s \in Sessions \ met', \A u \in Threads : ~(Serves(u, s)' /\ pc'[u] = "put")
        PROVE  cart[s] = file[s]
      BY <1>3, <2>1, <2>2 DEF IInv, FileInv
  <2>3. ASSUME NEW s \in Sessions \ met', Serves(t, s)'
        PROVE  cart[s] = file[s] /\ s = request.session
      BY <1>3, <2>3 DEF IInv, FileInv
  <2>. QED
      BY <1>3, <2>2, <2>3 DEF Begin, IInv, TypeOK, FileInv
<1>6. BasketInv'
    BY DEF Begin, IInv, TypeOK, BasketInv
<1>. QED
    BY <1>1, <1>2, <1>4, <1>5, <1>6 DEF IInv

LEMMA ReadCountStep ==
    ASSUME IInv, NEW t \in Threads, NEW s \in Sessions, NEW b \in Barcodes, NEW by \in {-1, 1},
           ReadCount(t, s, b, by)
    PROVE  IInv'
<1> DEFINE request == [session |-> s, barcode |-> b, by |-> by,
                       qty |-> Changed(cart[s].barcodes_map[b], by)]
<1>1. request \in Changes
    BY ChangedCounts DEF Changes, IInv, TypeOK, Carts, Counts
<1>. QED
    BY <1>1, BeginStep DEF ReadCount

LEMMA CheckStateStep ==
    ASSUME IInv, NEW t \in Threads, NEW s \in Sessions, NEW k \in Tills, CheckState(t, s, k)
    PROVE  IInv'
BY BeginStep DEF CheckState, Sends

\* A request goes on at its own place; what it keeps of the session, the till
\* and the change is the same.
LEMMA CountPieceStep ==
    ASSUME IInv, NEW t \in Threads, CountPiece(t)
    PROVE  IInv'
<1> DEFINE r == local[t]
           s == r.session
<1>1. /\ pc[t] = "count" /\ r \in Changes
      /\ pc' = [pc EXCEPT ![t] = "put"] /\ local' = [local EXCEPT ![t] = r]
      /\ cart' = [cart EXCEPT ![s].items_number = @ + r.by]
      /\ UNCHANGED <<met, file, mutex, tmp>>
    BY DEF CountPiece, GoOn, IInv, TypeOK
<1>2. local' = local
    BY <1>1 DEF IInv, TypeOK
<1>3. TypeOK'
    BY <1>1, <1>2 DEF IInv, TypeOK, Carts, Changes
<1>4. LockInv'
    BY <1>1 DEF IInv, TypeOK, LockInv
<1>5. \A u \in Threads, q \in Sessions : Serves(u, q)' <=> Serves(u, q)
    BY <1>1, <1>2 DEF IInv, TypeOK, Serves
<1>6. AloneInv'
    BY <1>1, <1>5 DEF IInv, TypeOK, AloneInv, Carts, Changes
<1>7. FileInv'
  <2>1. ASSUME NEW q \in Sessions \ met, q # s, NEW u \in Threads
        PROVE  Serves(u, q) => u # t
      BY <2>1 DEF Serves
  <2>2. ASSUME s \notin met
        PROVE  cart[s] = file[s] /\ \A u \in Threads : Serves(u, s) => u = t
      BY <1>1, <2>2 DEF IInv, AloneInv, FileInv, Serves, Changes
  <2>. QED
      BY <1>1, <1>2, <1>5, <2>1, <2>2 DEF IInv, TypeOK, FileInv, Serves, Changes
<1>8. BasketInv'
    BY <1>1, <1>2 DEF IInv, TypeOK, BasketInv
<1>. QED
    BY <1>3, <1>4, <1>6, <1>7, <1>8 DEF IInv

LEMMA PutCarts ==
    ASSUME NEW c \in Carts, NEW b \in Barcodes, NEW n \in Nat
    PROVE  [c EXCEPT !.barcodes_map[b] = n] \in Carts
<1>1. [c.barcodes_map EXCEPT ![b] = n] \in Counts
    BY DEF Carts, Counts
<1>. QED
    BY <1>1 DEF Carts

LEMMA PutBarcodeStep ==
    ASSUME IInv, NEW t \in Threads, PutBarcode(t)
    PROVE  IInv'
<1> PICK r \in Changes : r = local[t] /\ pc[t] = "put"
    BY DEF PutBarcode, Answer, GoOn, IInv, TypeOK
<1> DEFINE s == r.session
<1>1. /\ pc' = [pc EXCEPT ![t] = "idle"] /\ local' = [local EXCEPT ![t] = NoRequest]
      /\ cart' = [cart EXCEPT ![s].barcodes_map[r.barcode] = r.qty]
      /\ file' = IF cart[s].open THEN [file EXCEPT ![s] = replayChange(@, r.barcode, r.by)]
                 ELSE file
      /\ UNCHANGED <<met, mutex, tmp>>
    BY DEF PutBarcode, Answer, GoOn, IInv, TypeOK
<1>2. r.session \in Sessions /\ r.barcode \in Barcodes /\ r.by \in {-1, 1} /\ r.qty \in Nat
    BY <1>1 DEF Changes
<1>3. replayChange(file[s], r.barcode, r.by) \in Carts
    BY <1>2, ReplayedCarts DEF IInv, TypeOK
<1>4. [cart[s] EXCEPT !.barcodes_map[r.barcode] = r.qty] \in Carts
    BY <1>2, PutCarts DEF IInv, TypeOK
<1>5. TypeOK'
    BY <1>1, <1>2, <1>3, <1>4 DEF IInv, TypeOK
<1>6. LockInv'
    BY <1>1 DEF IInv, TypeOK, LockInv
<1>7. \A u \in Threads, q \in Sessions :
          Serves(u, q)' => u # t /\ Serves(u, q) /\ pc'[u] = pc[u] /\ local'[u] = local[u]
    BY <1>1 DEF IInv, TypeOK, Serves
<1>8. \A q \in Sessions : cart'[q].open = cart[q].open
    BY <1>1, <1>2 DEF IInv, TypeOK, Carts
<1>9. AloneInv'
    BY <1>1, <1>7, <1>8 DEF IInv, AloneInv
<1>10. ASSUME s \notin met
       PROVE  /\ cart'[s] = file'[s]
              /\ \A u \in Threads : ~Serves(u, s)'
  <2>1. Serves(t, s)
      BY <1>1 DEF Serves
  <2>2. cart[s].open
      BY <1>2, <1>10, <2>1 DEF IInv, AloneInv
  <2>3. \A u \in Threads : ~Serves(u, s)'
      BY <1>2, <1>7, <1>10, <2>1 DEF IInv, AloneInv
  <2>4. /\ cart[s] = [file[s] EXCEPT !.items_number = @ + r.by]
        /\ r.by = -1 => file[s].barcodes_map[r.barcode] > 0
        /\ r.qty = Changed(file[s].barcodes_map[r.barcode], r.by)
      BY <1>1, <1>2, <1>10, <2>1 DEF IInv, FileInv
  <2>5. replayChange(file[s], r.barcode, r.by)
            = [file[s] EXCEPT !.items_number = @ + r.by, !.barcodes_map[r.barcode] = r.qty]
      BY <1>2, <2>4 DEF replayChange, IInv, TypeOK, Carts
  <2>6. cart'[s] = [cart[s] EXCEPT !.barcodes_map[r.barcode] = r.qty]
      BY <1>1, <1>2 DEF IInv, TypeOK
  <2>7. file'[s] = replayChange(file[s], r.barcode, r.by)
      BY <1>1, <1>2, <2>2 DEF IInv, TypeOK
  <2>8. file[s] \in Carts
      BY <1>2 DEF IInv, TypeOK
  <2>9. cart'[s] = file'[s]
      BY <2>4, <2>5, <2>6, <2>7, <2>8 DEF Carts
  <2>. QED
      BY <2>3, <2>9
<1>11. \A q \in Sessions : q # s => cart'[q] = cart[q] /\ file'[q] = file[q]
    BY <1>1 DEF IInv, TypeOK
<1>12. FileInv'
  <2>1. ASSUME NEW q \in Sessions \ met, q # s, NEW u \in Threads, Serves(u, q) /\ pc[u] = "put"
        PROVE  Serves(u, q)' /\ pc'[u] = "put"
      BY <1>1, <2>1 DEF IInv, TypeOK, Serves
  <2>2. ASSUME NEW q \in Sessions \ met, q # s
        PROVE  (\A u \in Threads : ~(Serves(u, q)' /\ pc'[u] = "put")) => cart'[q] = file'[q]
      BY <1>11, <2>1, <2>2 DEF IInv, FileInv
  <2>. QED
      BY <1>1, <1>7, <1>10, <1>11, <2>2 DEF IInv, FileInv
<1>13. BasketInv'
  <2>1. ASSUME NEW u \in Threads, pc'[u] = "lines"
        PROVE  /\ u # t /\ pc[u] = "lines" /\ local'[u] = local[u]
               /\ local[u].session \in Sessions
      BY <1>1, <2>1 DEF IInv, TypeOK, Sends
  <2>2. ASSUME NEW u \in Threads, pc'[u] = "lines", local[u].session \notin met
        PROVE  local[u].session # s
      BY <1>1, <1>2, <2>1, <2>2 DEF IInv, AloneInv, Serves
  <2>. QED
      BY <1>1, <1>11, <2>1, <2>2 DEF IInv, BasketInv
<1>. QED
    BY <1>5, <1>6, <1>9, <1>12, <1>13 DEF IInv

\* A session that is voided while it is served elsewhere has met.
LEMMA SessionVoidStep ==
    ASSUME IInv, NEW t \in Threads, NEW s \in Sessions, SessionVoid(t, s)
    PROVE  IInv'
<1>1. TypeOK'
    BY DEF SessionVoid, IInv, TypeOK, Carts
<1>2. LockInv'
    BY DEF SessionVoid, IInv, LockInv
<1>3. \A u \in Threads, q \in Sessions : Serves(u, q)' <=> Serves(u, q)
    BY DEF SessionVoid, Serves
<1>4. \A q \in Sessions \ met' : q \notin met /\ (q = s => \A u \in Threads : ~Serves(u, q))
    BY DEF SessionVoid, ServedElsewhere, Serves
<1>5. \A q \in Sessions : q # s => cart'[q] = cart[q] /\ file'[q] = file[q]
    BY DEF SessionVoid, IInv, TypeOK
<1>6. cart[s] = file[s] => cart'[s] = file'[s]
    BY DEF SessionVoid, IInv, TypeOK
<1>7. AloneInv'
    BY <1>3, <1>4, <1>5 DEF IInv, AloneInv
<1>8. FileInv'
  <2>1. ASSUME NEW q \in Sessions \ met', q # s, NEW u \in Threads, Serves(u, q) /\ pc[u] = "put"
        PROVE  Serves(u, q)' /\ pc'[u] = "put"
      BY <1>3, <2>1 DEF SessionVoid
  <2>2. ASSUME NEW q \in Sessions \ met'
        PROVE  (\A u \in Threads : ~(Serves(u, q)' /\ pc'[u] = "put")) => cart'[q] = file'[q]
      BY <1>3, <1>4, <1>5, <1>6, <2>1, <2>2 DEF IInv, FileInv
  <2>3. ASSUME NEW q \in Sessions \ met', NEW u \in Threads, Serves(u, q)'
        PROVE  q # s /\ q \in Sessions \ met /\ Serves(u, q) /\ local' = local /\ pc' = pc
      BY <1>3, <1>4, <2>3 DEF SessionVoid
  <2>. QED
      BY <1>5, <2>2, <2>3 DEF IInv, FileInv
<1>9. BasketInv'
  <2>1. ASSUME NEW u \in Threads, pc[u] = "lines", local[u].session \notin met'
        PROVE  local[u].session \in Sessions \ {s}
      BY <1>4, <2>1 DEF IInv, TypeOK, Sends, Serves
  <2>. QED
      BY <1>4, <1>5, <2>1 DEF SessionVoid, IInv, BasketInv
<1>. QED
    BY <1>1, <1>2, <1>7, <1>8, <1>9 DEF IInv

\* The steps of sendToPos: the request goes on with the same session, and only
\* a basket that the thread writes under the lock changes.
LEMMA SendStep ==
    ASSUME IInv, NEW t \in Threads, NEW from, NEW to \in {"header", "lines", "unlock"}, NEW request,
           GoOn(t, from, to, request), from \in {"lock", "header", "lines"},
           request \in Sends, request.session = local[t].session, UNCHANGED <<cart, file>>
    PROVE  AloneInv' /\ FileInv'
<1>1. \A u \in Threads, q \in Sessions : Serves(u, q)' <=> Serves(u, q)
    BY DEF GoOn, IInv, TypeOK, Serves
<1>2. \A u \in Threads : pc'[u] \in {"count", "put"} \/ pc[u] \in {"count", "put"}
          => u # t /\ pc'[u] = pc[u] /\ local'[u] = local[u]
    BY DEF GoOn, IInv, TypeOK
<1>3. AloneInv'
    BY <1>1 DEF GoOn, IInv, AloneInv
<1>4. FileInv'
    BY <1>1, <1>2 DEF GoOn, IInv, FileInv
<1>. QED
    BY <1>3, <1>4

LEMMA LockStep ==
    ASSUME IInv, NEW t \in Threads, Lock(t)
    PROVE  IInv'
<1>1. /\ pc[t] = "lock" /\ local[t] \in Sends
      /\ GoOn(t, "lock", "header", local[t]) /\ UNCHANGED <<cart, file, tmp>>
    BY DEF Lock, GoOn, IInv, TypeOK
<1>2. TypeOK'
    BY <1>1 DEF Lock, GoOn, IInv, TypeOK
<1>3. LockInv'
    BY <1>1, PosTransferAssumption DEF Lock, GoOn, IInv, TypeOK, LockInv
<1>4. AloneInv' /\ FileInv'
    BY <1>1, SendStep
<1>5. BasketInv'
    BY <1>1 DEF GoOn, IInv, TypeOK, BasketInv
<1>. QED
    BY <1>2, <1>3, <1>4, <1>5 DEF IInv

\* Only the thread that holds the lock is between header and unlock.
LEMMA OneWriter ==
    ASSUME IInv, NEW t \in Threads, NEW u \in Threads,
           pc[t] \in {"header", "lines", "unlock"}, pc[u] \in {"header", "lines", "unlock"}
    PROVE  t = u
BY DEF IInv, LockInv

\* A session that has not met and waits for its basket is as its file tells.
LEMMA QuietSession ==
    ASSUME IInv, NEW t \in Threads, pc[t] \in {"lock", "header", "lines"},
           local[t].session \in Sessions \ met
    PROVE  cart[local[t].session] = file[local[t].session]
<1>1. \A u \in Threads : ~(Serves(u, local[t].session) /\ pc[u] = "put")
    BY DEF IInv, AloneInv, Serves
<1>. QED
    BY <1>1 DEF IInv, FileInv

LEMMA WriteHeaderStep ==
    ASSUME IInv, NEW t \in Threads, WriteHeader(t)
    PROVE  IInv'
<1> PICK r \in Sends : r = local[t] /\ pc[t] = "header"
    BY DEF WriteHeader, GoOn, IInv, TypeOK
<1> DEFINE s == r.session
           next == [r EXCEPT !.todo = Barcodes, !.failed = FALSE]
<1>1. GoOn(t, "header", "lines", next) /\ UNCHANGED <<cart, file, mutex>>
    BY DEF WriteHeader
<1>2. /\ next \in Sends /\ s \in Sessions /\ r.till \in Tills
      /\ next.session = s /\ next.till = r.till /\ next.todo = Barcodes /\ ~next.failed
    BY DEF Sends
<1>3. PICK customer \in Cards \cup {NoCard} :
          /\ card_of[s] # NoCard => customer = card_of[s]
          /\ tmp' = [tmp EXCEPT ![r.till] =
                        [session |-> s, customer |-> customer,
                         items_number |-> cart[s].items_number, lines |-> NoPieces]]
    BY <1>2, PosTransferAssumption DEF WriteHeader
<1>4. [session |-> s, customer |-> customer, items_number |-> cart[s].items_number,
       lines |-> NoPieces] \in Baskets
    BY <1>2 DEF IInv, TypeOK, Baskets, Carts, Counts, NoPieces
<1> HIDE DEF next
<1>5. TypeOK'
    BY <1>1, <1>2, <1>3, <1>4 DEF GoOn, IInv, TypeOK
<1>6. LockInv'
    BY <1>1 DEF GoOn, IInv, TypeOK, LockInv
<1>7. AloneInv' /\ FileInv'
    BY <1>1, <1>2, SendStep
<1>8. BasketInv'
  <2>1. \A u \in Threads : pc'[u] = "lines" => u = t
      BY <1>1, OneWriter DEF GoOn, IInv, TypeOK
  <2>2. local'[t] = next /\ met' = met
      BY <1>1 DEF GoOn, IInv, TypeOK
  <2>3. s \notin met => cart[s] = file[s]
      BY <1>2, QuietSession
  <2>4. tmp'[r.till] = [session |-> s, customer |-> customer,
                        items_number |-> cart[s].items_number, lines |-> NoPieces]
      BY <1>2, <1>3 DEF IInv, TypeOK
  <2>. QED
      BY <1>1, <1>2, <1>3, <1>4, <2>1, <2>2, <2>3, <2>4 DEF BasketInv
<1>. QED
    BY <1>5, <1>6, <1>7, <1>8 DEF IInv

LEMMA OpenFailsStep ==
    ASSUME IInv, NEW t \in Threads, OpenFails(t)
    PROVE  IInv'
<1> PICK r \in Sends : r = local[t] /\ pc[t] = "header"
    BY DEF OpenFails, GoOn, IInv, TypeOK
<1> DEFINE next == [r EXCEPT !.todo = {}, !.failed = TRUE]
<1>1. next \in Sends /\ next.session = r.session /\ next.todo = {} /\ next.failed = TRUE
    BY DEF Sends
<1>2. GoOn(t, "header", "lines", next) /\ UNCHANGED <<cart, file, mutex, tmp>>
    BY DEF OpenFails
<1> HIDE DEF next
<1>3. TypeOK'
    BY <1>1, <1>2 DEF GoOn, IInv, TypeOK
<1>4. LockInv'
    BY <1>2 DEF GoOn, IInv, TypeOK, LockInv
<1>5. AloneInv' /\ FileInv'
    BY <1>1, <1>2, SendStep
<1>6. BasketInv'
  <2>1. \A u \in Threads : pc'[u] = "lines" => u = t
      BY <1>2, OneWriter DEF GoOn, IInv, TypeOK
  <2>2. local'[t] = next
      BY <1>2 DEF GoOn, IInv, TypeOK
  <2>. QED
      BY <1>1, <2>1, <2>2 DEF BasketInv
<1>. QED
    BY <1>3, <1>4, <1>5, <1>6 DEF IInv

LEMMA WriteLinesStep ==
    ASSUME IInv, NEW t \in Threads, NEW b \in Barcodes, WriteLines(t, b)
    PROVE  IInv'
<1> PICK r \in Sends : r = local[t] /\ pc[t] = "lines" /\ b \in r.todo
    BY DEF WriteLines, GoOn, IInv, TypeOK
<1> DEFINE s == r.session
           basket == tmp[r.till]
<1>1. s \in Sessions /\ r.till \in Tills /\ basket \in Baskets /\ ~r.failed
    BY DEF Sends, IInv, BasketInv
<1>2. CASE /\ GoOn(t, "lines", "lines", [r EXCEPT !.todo = @ \ {b}])
           /\ tmp' = [tmp EXCEPT ![r.till].lines[b] = cart[s].barcodes_map[b]]
           /\ UNCHANGED <<cart, file, mutex>>
  <2> DEFINE next == [r EXCEPT !.todo = @ \ {b}]
  <2>1. /\ next \in Sends /\ next.session = s /\ next.till = r.till
        /\ next.todo = r.todo \ {b} /\ next.failed = r.failed
      BY DEF Sends
  <2> HIDE DEF next
  <2>2. GoOn(t, "lines", "lines", next)
      BY <1>2 DEF next
  <2>3. [basket.lines EXCEPT ![b] = cart[s].barcodes_map[b]] \in Counts
      BY <1>1 DEF IInv, TypeOK, Baskets, Carts, Counts
  <2>4. /\ tmp'[r.till] \in Baskets
        /\ tmp'[r.till].session = basket.session
        /\ tmp'[r.till].customer = basket.customer
        /\ tmp'[r.till].items_number = basket.items_number
        /\ \A c \in Barcodes : tmp'[r.till].lines[c] =
              IF c = b THEN cart[s].barcodes_map[b] ELSE basket.lines[c]
      BY <1>1, <1>2, <2>3 DEF IInv, TypeOK, Baskets, Counts
  <2>5. tmp' \in [Tills -> Baskets \cup {NoFile}]
      BY <1>1, <1>2, <2>4 DEF IInv, TypeOK
  <2>6. TypeOK'
    <3>1. UNCHANGED <<cart, file, mutex>>
        BY <1>2
    <3>. QED
        BY <2>1, <2>2, <2>5, <3>1 DEF GoOn, IInv, TypeOK
  <2>7. LockInv'
      BY <1>2, <2>2 DEF GoOn, IInv, TypeOK, LockInv
  <2>8. AloneInv' /\ FileInv'
      BY <1>2, <2>1, <2>2, SendStep
  <2>9. BasketInv'
    <3>1. \A u \in Threads : pc'[u] = "lines" => u = t
        BY <2>2, OneWriter DEF GoOn, IInv, TypeOK
    <3>2. local'[t] = next /\ met' = met
        BY <2>2 DEF GoOn, IInv, TypeOK
    <3>3. s \notin met => cart[s] = file[s]
        BY <1>1, QuietSession
    <3>. QED
        BY <1>1, <1>2, <2>1, <2>4, <3>1, <3>2, <3>3 DEF IInv, BasketInv
  <2>. QED
      BY <2>6, <2>7, <2>8, <2>9 DEF IInv
<1>3. CASE /\ GoOn(t, "lines", "lines", [r EXCEPT !.todo = {}, !.failed = TRUE])
           /\ UNCHANGED <<tmp, cart, file, mutex>>
  <2> DEFINE next == [r EXCEPT !.todo = {}, !.failed = TRUE]
  <2>1. next \in Sends /\ next.session = s /\ next.todo = {} /\ next.failed = TRUE
      BY DEF Sends
  <2> HIDE DEF next
  <2>2. GoOn(t, "lines", "lines", next)
      BY <1>3 DEF next
  <2>3. TypeOK'
      BY <1>3, <2>1, <2>2 DEF GoOn, IInv, TypeOK
  <2>4. LockInv'
      BY <1>3, <2>2 DEF GoOn, IInv, TypeOK, LockInv
  <2>5. AloneInv' /\ FileInv'
      BY <1>3, <2>1, <2>2, SendStep
  <2>6. BasketInv'
    <3>1. \A u \in Threads : pc'[u] = "lines" => u = t
        BY <2>2, OneWriter DEF GoOn, IInv, TypeOK
    <3>2. local'[t] = next /\ met' = met
        BY <2>2 DEF GoOn, IInv, TypeOK
    <3>. QED
        BY <1>1, <1>3, <2>1, <3>1, <3>2 DEF IInv, BasketInv
  <2>. QED
      BY <2>3, <2>4, <2>5, <2>6 DEF IInv
<1>. QED
    BY <1>2, <1>3 DEF WriteLines

LEMMA RenameStep ==
    ASSUME IInv, NEW t \in Threads, Rename(t)
    PROVE  IInv'
<1>1. /\ pc[t] = "lines" /\ local[t] \in Sends
      /\ GoOn(t, "lines", "unlock", local[t]) /\ UNCHANGED <<cart, file, mutex>>
      /\ tmp' = [tmp EXCEPT ![local[t].till] = NoFile]
    BY DEF Rename, GoOn, IInv, TypeOK
<1>2. TypeOK'
    BY <1>1 DEF GoOn, IInv, TypeOK
<1>3. LockInv'
    BY <1>1 DEF GoOn, IInv, TypeOK, LockInv
<1>4. AloneInv' /\ FileInv'
    BY <1>1, SendStep
<1>5. BasketInv'
    BY <1>1, OneWriter DEF GoOn, IInv, TypeOK, BasketInv
<1>. QED
    BY <1>2, <1>3, <1>4, <1>5 DEF IInv

LEMMA UnlockStep ==
    ASSUME IInv, NEW t \in Threads, Unlock(t)
    PROVE  IInv'
<1>1. /\ pc[t] = "unlock" /\ pc' = [pc EXCEPT ![t] = "idle"]
      /\ local' = [local EXCEPT ![t] = NoRequest]
      /\ mutex' = NoThread /\ UNCHANGED <<met, cart, file, tmp>>
    BY DEF Unlock, Answer, GoOn
<1>2. TypeOK'
    BY <1>1 DEF IInv, TypeOK
<1>3. LockInv'
    BY <1>1, PosTransferAssumption DEF IInv, TypeOK, LockInv
<1>4. \A u \in Threads, q \in Sessions :
          /\ Serves(u, q)' => u # t /\ Serves(u, q) /\ pc'[u] = pc[u] /\ local'[u] = local[u]
          /\ Serves(u, q) /\ pc[u] = "put" => Serves(u, q)' /\ pc'[u] = "put"
    BY <1>1 DEF IInv, TypeOK, Serves
<1>5. AloneInv'
    BY <1>1, <1>4 DEF IInv, AloneInv
<1>6. FileInv'
    BY <1>1, <1>4 DEF IInv, FileInv
<1>7. BasketInv'
    BY <1>1 DEF IInv, TypeOK, BasketInv
<1>. QED
    BY <1>2, <1>3, <1>5, <1>6, <1>7 DEF IInv

LEMMA RestartStep ==
    ASSUME IInv, Restart
    PROVE  IInv'
<1>1. TypeOK'
    BY DEF Restart, IInv, TypeOK
<1>2. LockInv'
    BY PosTransferAssumption DEF Restart, LockInv
<1>3. AloneInv' /\ FileInv' /\ BasketInv'
    BY DEF Restart, AloneInv, FileInv, BasketInv, Serves
<1>. QED
    BY <1>1, <1>2, <1>3 DEF IInv

LEMMA StepInv == IInv /\ [Next]_vars => IInv'
<1> SUFFICES ASSUME IInv, [Next]_vars PROVE IInv'
    OBVIOUS
<1>1. ASSUME NEW t \in Threads, Request(t) PROVE IInv'
    BY <1>1, ReadCountStep, CheckStateStep, SessionVoidStep DEF Request
<1>2. ASSUME NEW t \in Threads, Step(t) PROVE IInv'
    BY <1>2, CountPieceStep, PutBarcodeStep, LockStep, WriteHeaderStep, OpenFailsStep,
       WriteLinesStep, RenameStep, RestartStep, UnlockStep DEF Step, RenameThrows
<1>3. CASE UNCHANGED vars
    BY <1>3 DEF vars, IInv, TypeOK, LockInv, AloneInv, FileInv, BasketInv, Serves
<1>. QED
    BY <1>1, <1>2, <1>3, RestartStep DEF Next

LEMMA Invariant == Spec => []IInv
BY InitInv, StepInv, PTL DEF Spec

-----------------------------------------------------------------------------
(* Theorems *)

\* Type correctness: no interleaving, no void and no restart makes a count, a
\* basket or a request that is none.
THEOREM TransferTyped == Spec => []TypeOK
<1>1. IInv => TypeOK
    BY DEF IInv
<1>. QED
    BY <1>1, Invariant, PTL

\* A basket that reaches a till is the session's, however many threads send
\* and change however many sessions.
THEOREM BasketArrives == Spec => BasketIsTheSession
<1>1. IInv /\ [Next]_vars =>
        \A t \in Threads : pc[t] = "lines" /\ pc'[t] = "unlock" =>
          LET s == local[t].session
              basket == tmp[local[t].till]
          IN  s \notin met /\ ~local[t].failed =>
                  /\ basket.session = s
                  /\ basket.lines = file[s].barcodes_map
                  /\ basket.items_number = file[s].items_number
                  /\ card_of[s] # NoCard => basket.customer = card_of[s]
                  /\ cart[s].open
  <2> SUFFICES ASSUME IInv, [Next]_vars, NEW t \in Threads, pc[t] = "lines", pc'[t] = "unlock",
                      local[t].session \notin met, ~local[t].failed
               PROVE  LET s == local[t].session
                          basket == tmp[local[t].till]
                      IN  /\ basket.session = s
                          /\ basket.lines = file[s].barcodes_map
                          /\ basket.items_number = file[s].items_number
                          /\ card_of[s] # NoCard => basket.customer = card_of[s]
                          /\ cart[s].open
      OBVIOUS
  <2>1. Rename(t)
    <3>1. ASSUME NEW u \in Threads, Request(u) PROVE pc'[t] # "unlock"
        BY <3>1 DEF Request, ReadCount, CheckState, Begin, SessionVoid, IInv, TypeOK
    <3>2. ASSUME NEW u \in Threads, Step(u), u # t PROVE pc'[t] # "unlock"
        BY <3>2 DEF Step, CountPiece, PutBarcode, Lock, WriteHeader, OpenFails, WriteLines,
                    Rename, RenameThrows, Restart, Unlock, Answer, GoOn, IInv, TypeOK
    <3>3. Step(t) => Rename(t)
        BY DEF Step, CountPiece, PutBarcode, Lock, WriteHeader, OpenFails, WriteLines,
               RenameThrows, Restart, Unlock, Answer, GoOn, IInv, TypeOK
    <3>4. ~Restart /\ ~UNCHANGED vars
        BY DEF Restart, vars
    <3>. QED
        BY <3>1, <3>2, <3>3, <3>4 DEF Next
  <2>2. local[t].todo = {} /\ local[t].session \in Sessions
      BY <2>1 DEF Rename, IInv, TypeOK, Sends
  <2>3. cart[local[t].session].open
      BY <2>2 DEF IInv, AloneInv, Serves
  <2>4. tmp[local[t].till].lines = file[local[t].session].barcodes_map
    <3>1. /\ tmp[local[t].till].lines \in Counts
          /\ \A b \in Barcodes :
                tmp[local[t].till].lines[b] = file[local[t].session].barcodes_map[b]
        BY <2>2 DEF IInv, BasketInv, Baskets
    <3>2. file[local[t].session].barcodes_map \in Counts
        BY <2>2 DEF IInv, TypeOK, Carts
    <3>. QED
        BY <3>1, <3>2 DEF Counts
  <2>. QED
      BY <2>2, <2>3, <2>4 DEF IInv, BasketInv
<1>. QED
    BY <1>1, Invariant, PTL DEF Spec, BasketIsTheSession
=============================================================================
