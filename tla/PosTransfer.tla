----------------------------- MODULE PosTransfer -----------------------------
(***************************************************************************)
(* ITEM_ADD, ITEM_VOID, SESSION_VOID and SESSION_END of carts served by    *)
(* several threads, and the way of a basket to the till: Cart::sendToPos   *)
(* writes POSnnn.TMP line by line and renames it to POSnnn.IN, under the   *)
(* one lock of the program; the cart it reads meanwhile has no lock.       *)
(*                                                                         *)
(* A step is the code from one access to what threads share to the next.   *)
(* Accesses between which only a second request of the same session could  *)
(* get in are one step: the load and the store of items_number             *)
(* (CountPiece), the count, the test of the state and the row              *)
(* (PutBarcode), all of voidAllCart (SessionVoid), the fields of a header  *)
(* (WriteHeader).  Prices are left out, and an item has one barcode:       *)
(* cart_items_map and barcodes_map hold the same counts.                   *)
(***************************************************************************)
EXTENDS Integers

CONSTANTS
    Threads,     \* threads of the server
    Sessions,    \* sessions being filled
    Tills,       \* pay stations
    Barcodes,    \* numbers: a std::map is walked in their order
    Cards,       \* loyalty cards
    card_of,     \* the card of each session, or NoCard
    NoCard, NoThread, NoFile, NoRequest,
    MaxPieces    \* bound: pieces of a session

ASSUME PosTransferAssumption ==
    /\ Barcodes \subseteq Nat
    /\ card_of \in [Sessions -> Cards \cup {NoCard}]
    /\ NoThread \notin Threads
    /\ MaxPieces \in Nat

VARIABLES
    cart,      \* the cart of each session
    file,      \* what its transaction_in_progress file replays to
    mutex,     \* the thread that holds cart_sendtopos_mutex
    tmp,       \* POSnnn.TMP of each till, until it becomes its POSnnn.IN
    pc,        \* the step each thread is to make
    local,     \* the locals of its request
    met        \* history: sessions of which two requests ran at once

vars == <<cart, file, mutex, tmp, pc, local, met>>

Counts == [Barcodes -> Nat]
NoPieces == [b \in Barcodes |-> 0]
\* open: in the state READY_FOR_ITEM, not VOIDED
Carts == [items_number : Int, barcodes_map : Counts, open : BOOLEAN]
EmptyCart == [items_number |-> 0, barcodes_map |-> NoPieces, open |-> TRUE]
Baskets == [session : Sessions, customer : Cards \cup {NoCard}, items_number : Int, lines : Counts]

\* One piece of a barcode more or less: the count computed at the beginning
\* and the number of pieces read later.
Changes == [session : Sessions, barcode : Barcodes, by : {-1, 1}, qty : Nat]
\* A basket on its way: the barcodes still to be written, and whether the
\* stream has failed, which nobody asks.
Sends == [session : Sessions, till : Tills, todo : SUBSET Barcodes, failed : BOOLEAN]

TypeOK ==
    /\ cart \in [Sessions -> Carts]
    /\ file \in [Sessions -> Carts]
    /\ mutex \in Threads \cup {NoThread}
    /\ tmp \in [Tills -> Baskets \cup {NoFile}]
    /\ pc \in [Threads -> {"idle", "count", "put", "lock", "header", "lines", "unlock"}]
    /\ local \in [Threads -> Changes \cup Sends \cup {NoRequest}]
    /\ \A t \in Threads :
          /\ pc[t] \in {"count", "put"} => local[t] \in Changes
          /\ pc[t] \in {"lock", "header", "lines", "unlock"} => local[t] \in Sends
    /\ met \subseteq Sessions

Init ==
    /\ cart = [s \in Sessions |-> EmptyCart]
    /\ file = [s \in Sessions |-> EmptyCart]
    /\ mutex = NoThread
    /\ tmp = [k \in Tills |-> NoFile]
    /\ pc = [t \in Threads |-> "idle"]
    /\ local = [t \in Threads |-> NoRequest]
    /\ met = {}

-----------------------------------------------------------------------------
(* Requests begin and end. *)

ServedElsewhere(t, s) ==
    \E u \in Threads \ {t} : pc[u] # "idle" /\ local[u].session = s

\* Only a session that is not voided is changed or sent.  (The bound: a session
\* of which two requests met is left alone until the next start.)
Begin(t, place, request) ==
    /\ pc[t] = "idle"
    /\ request.session \notin met
    /\ cart[request.session].open
    /\ pc' = [pc EXCEPT ![t] = place]
    /\ local' = [local EXCEPT ![t] = request]
    /\ met' = IF ServedElsewhere(t, request.session) THEN met \cup {request.session} ELSE met

GoOn(t, from, to, request) ==
    /\ pc[t] = from
    /\ pc' = [pc EXCEPT ![t] = to]
    /\ local' = [local EXCEPT ![t] = request]
    /\ UNCHANGED met

Answer(t, from) == GoOn(t, from, "idle", NoRequest)

-----------------------------------------------------------------------------
(* addItemByBarcode and removeItemByBarcode *)

OneLess(n) == IF n > 1 THEN n - 1 ELSE 0
Changed(n, by) == IF by = 1 THEN n + 1 ELSE OneLess(n)

\* The bound: counts that races let drift apart are not driven further.
WithinBound(s, by) ==
    IF by = 1 THEN cart[s].items_number < MaxPieces /\ file[s].items_number < MaxPieces
    ELSE cart[s].items_number > 0

\* The new count is computed first; a piece that is not there is not voided.
ReadCount(t, s, b, by) ==
    /\ WithinBound(s, by)
    /\ by = -1 => cart[s].barcodes_map[b] > 0
    /\ Begin(t, "count", [session |-> s, barcode |-> b, by |-> by,
                         qty |-> Changed(cart[s].barcodes_map[b], by)])
    /\ UNCHANGED <<cart, file, mutex, tmp>>

\* (The load and the store of items_number are one step here.)
CountPiece(t) ==
    LET r == local[t]
    IN  /\ GoOn(t, "count", "put", r)
        /\ cart' = [cart EXCEPT ![r.session].items_number = @ + r.by]
        /\ UNCHANGED <<file, mutex, tmp>>

\* What one more row makes of the cart that the file replays to.
replayChange(c, b, by) ==
    IF by = 1 \/ c.barcodes_map[b] > 0
    THEN [c EXCEPT !.items_number = @ + by, !.barcodes_map[b] = Changed(@, by)]
    ELSE c

\* The count is stored, and the row is written unless the session was voided
\* meanwhile: one step.
PutBarcode(t) ==
    LET r == local[t]
    IN  /\ Answer(t, "put")
        /\ cart' = [cart EXCEPT ![r.session].barcodes_map[r.barcode] = r.qty]
        /\ file' = IF cart[r.session].open
                   THEN [file EXCEPT ![r.session] = replayChange(@, r.barcode, r.by)]
                   ELSE file
        /\ UNCHANGED <<mutex, tmp>>

\* voidAllCart: test, state and row in one step.
SessionVoid(t, s) ==
    /\ pc[t] = "idle"
    /\ s \notin met
    /\ cart[s].open
    /\ cart' = [cart EXCEPT ![s].open = FALSE]
    /\ file' = [file EXCEPT ![s].open = FALSE]
    /\ met' = IF ServedElsewhere(t, s) THEN met \cup {s} ELSE met
    /\ UNCHANGED <<mutex, tmp, pc, local>>

-----------------------------------------------------------------------------
(* sendToPos *)

CheckState(t, s, k) ==
    /\ Begin(t, "lock", [session |-> s, till |-> k, todo |-> {}, failed |-> FALSE])
    /\ UNCHANGED <<cart, file, mutex, tmp>>

\* (mutant) the lock is not taken
LockNot(t) ==
    /\ GoOn(t, "lock", "header", local[t])
    /\ UNCHANGED <<cart, file, mutex, tmp>>

Lock(t) ==
    /\ mutex = NoThread
    /\ mutex' = t
    /\ GoOn(t, "lock", "header", local[t])
    /\ UNCHANGED <<cart, file, tmp>>

\* (mutant) the session and the customer change places
WriteHeaderSwapped(t) ==
    LET r == local[t]
    IN  /\ GoOn(t, "header", "lines", [r EXCEPT !.todo = Barcodes, !.failed = FALSE])
        /\ tmp' = [tmp EXCEPT ![r.till] =
                      [session |-> card_of[r.session], customer |-> r.session,
                       items_number |-> cart[r.session].items_number, lines |-> NoPieces]]
        /\ UNCHANGED <<cart, file, mutex>>

\* The stream truncates what an earlier process left.  The customer is read at
\* begin() of loy_cards_map: with no card there, whatever is found.
WriteHeader(t) ==
    LET r == local[t]
    IN  /\ GoOn(t, "header", "lines", [r EXCEPT !.todo = Barcodes, !.failed = FALSE])
        /\ \E customer \in (IF card_of[r.session] = NoCard THEN Cards \cup {NoCard}
                            ELSE {card_of[r.session]}) :
              tmp' = [tmp EXCEPT ![r.till] =
                        [session |-> r.session, customer |-> customer,
                         items_number |-> cart[r.session].items_number, lines |-> NoPieces]]
        /\ UNCHANGED <<cart, file, mutex>>

\* The stream cannot be opened: POSnnn.TMP is what it was, and nobody asks.
OpenFails(t) ==
    /\ GoOn(t, "header", "lines", [local[t] EXCEPT !.todo = {}, !.failed = TRUE])
    /\ UNCHANGED <<cart, file, mutex, tmp>>

\* One barcode, a line for each of its pieces.  Nothing is written any more
\* once the stream has failed (a full disk), and nobody asks it.
WriteLines(t, b) ==
    LET r == local[t]
    IN  /\ pc[t] = "lines"
        /\ b \in r.todo
        /\ \A c \in r.todo : b <= c
        /\ \/ /\ GoOn(t, "lines", "lines", [r EXCEPT !.todo = @ \ {b}])
              /\ tmp' = [tmp EXCEPT ![r.till].lines[b] = cart[r.session].barcodes_map[b]]
           \/ /\ GoOn(t, "lines", "lines", [r EXCEPT !.todo = {}, !.failed = TRUE])
              /\ UNCHANGED tmp
        /\ UNCHANGED <<cart, file, mutex>>

\* (mutant) a failing rename is answered, and the lock is kept
RenameOrReturn(t) ==
    LET r == local[t]
    IN  /\ pc[t] = "lines" /\ r.todo = {}
        /\ \/ /\ GoOn(t, "lines", "unlock", r)
              /\ tmp' = [tmp EXCEPT ![r.till] = NoFile]
           \/ /\ Answer(t, "lines")
              /\ UNCHANGED tmp
        /\ UNCHANGED <<cart, file, mutex>>

Rename(t) ==
    LET r == local[t]
    IN  /\ GoOn(t, "lines", "unlock", r)
        /\ r.todo = {}
        /\ tmp[r.till] # NoFile
        /\ tmp' = [tmp EXCEPT ![r.till] = NoFile]
        /\ UNCHANGED <<cart, file, mutex>>

Unlock(t) ==
    /\ mutex' = NoThread
    /\ Answer(t, "unlock")
    /\ UNCHANGED <<cart, file, tmp>>

-----------------------------------------------------------------------------
\* The process ends anywhere; the next one has the carts of the files and finds
\* POSnnn.TMP as it is.
Restart ==
    /\ cart' = file
    /\ mutex' = NoThread
    /\ pc' = [t \in Threads |-> "idle"]
    /\ local' = [t \in Threads |-> NoRequest]
    /\ met' = {}
    /\ UNCHANGED <<file, tmp>>

\* A rename that fails, at once when there is no POSnnn.TMP, throws; nothing
\* catches it, and the process ends with the lock held.
RenameThrows(t) ==
    /\ pc[t] = "lines"
    /\ local[t].todo = {}
    /\ Restart

\* A thread that is in a request goes on with it.
Step(t) ==
    \/ CountPiece(t) \/ PutBarcode(t)
    \/ Lock(t) \/ WriteHeader(t) \/ OpenFails(t) \/ Rename(t) \/ RenameThrows(t) \/ Unlock(t)
    \/ \E b \in Barcodes : WriteLines(t, b)

Request(t) ==
    \E s \in Sessions :
        \/ \E b \in Barcodes, by \in {-1, 1} : ReadCount(t, s, b, by)
        \/ \E k \in Tills : CheckState(t, s, k)
        \/ SessionVoid(t, s)

Next ==
    \/ \E t \in Threads : Request(t) \/ Step(t)
    \/ Restart

Spec == Init /\ [][Next]_vars

\* The system schedules every thread that can go on.
FairSpec == Spec /\ \A t \in Threads : WF_vars(Step(t))

-----------------------------------------------------------------------------
(* Properties *)

\* A basket that reaches the till is the session's: its lines are the pieces
\* the file of the session tells of, its header announces their number and
\* names the session's card, and the session is not voided; unless another
\* request of the session ran during one of its requests, or the stream
\* failed.  What other sessions send to the same till at the same time, and
\* the POSnnn.TMP a dead process left, never gets in.
BasketIsTheSession ==
    [][\A t \in Threads : pc[t] = "lines" /\ pc'[t] = "unlock" =>
          LET s == local[t].session
              basket == tmp[local[t].till]
          IN  s \notin met /\ ~local[t].failed =>
                  /\ basket.session = s
                  /\ basket.lines = file[s].barcodes_map
                  /\ basket.items_number = file[s].items_number
                  /\ card_of[s] # NoCard => basket.customer = card_of[s]
                  /\ cart[s].open]_vars

\* cart_sendtopos_mutex is always given back: every thread that waits for it
\* finds it free again and again.
MutexIsReleased == \A t \in Threads : mutex = t ~> mutex # t
=============================================================================
