# PromoCalculator: a TLA+ development of the self-scan store server

PromoCalculator is the server of a store's self-scan devices. A client opens a
session (a *cart*), scans barcodes and loyalty cards into it over HTTP, voids
some of them, and finally sends the basket to a till (a *pay station*). Every
accepted operation is appended to a file of the session, and after a restart the
server rebuilds all sessions from those files. This directory states what the
server promises, models what it does, checks the one against the other with TLC
on small stores, and proves part of it with TLAPS for every store.

Paths below are relative to the repository; `cart.cpp` and `base_system.cpp` are
in `src/PromoCalculator/src`.

## 1. Inventory

| component | state | operations | interacts with |
|---|---|---|---|
| **Archives** (`archive_map.h`, `item.cpp`, `barcodes.cpp`, `department.cpp`, `promotion.cpp`, `base_system.cpp:164-459`) | `items_map`, `barcodes_map`, `departments_map`, `promotions_map` | read at start; `decodeBarcode`; `operator[]`, which inserts what it does not find; dump of the items | read by every request, written by the variation thread |
| **Cart** (`cart.cpp`) | items, barcodes, totals per department, local copies of items, loyalty cards, state, request counter | `addItemByBarcode`, `removeItemByBarcode`, `updateLocalItemMap`, `getItemPrice`, `addLoyCard`, `removeLoyCard`, `voidAllCart`, `sendToPos` | called by BaseSystem; appends rows to `CARTS/<id>.transaction_in_progress` |
| **BaseSystem, sessions** (`base_system.cpp:866-1293`) | `carts_map`, `next_cart_number`, `all_loy_cards_map` | the `WEBI_*` actions, `newCart` | called by the threads of the HTTP server |
| **BaseSystem, recovery** (`base_system.cpp:610-832`) | position in the directory and in the open file | `loadCartsInProgress` | runs in the constructor, before the server exists |
| **Variation thread** (`base_system.cpp:461-608`) | flags of what changed | reads `VARS/*.VAR`, updates items, renames the file, renames and rewrites `ITEMS.CSV` | shares `items_map` with the requests, without a lock |
| **Transfer to the till** (`cart.cpp:422-484`) | a global mutex; `POSnnn.TMP`, `POSnnn.IN` | write, rename | the till takes `POSnnn.IN` |
| **HTTP**: server, connection, request parser, request handler, reply, mime types | sockets, parser automaton, accept loop | accept, read, parse, dispatch, write | Boost.Asio; calls `salesActionsFromWebInterface` |
| **Program** (`main.cpp`, the constructor of `BaseSystem`) | signal mask; the configuration | start, wait for a signal, stop | creates all of the above; does not wait for the variation thread |
| **Tests** (`src/functional-tests`, `src/tests`) | - | Cucumber scenarios over HTTP; an empty unit test | the documented return codes |

What is hard here: the process may die between any two rows of one request and
must come back with the same sessions; the catalogue changes under the running
sessions; sessions, barcodes, items and cards are counted in several maps that
must agree; codes of failed operations are overwritten; and, with the ten
threads of the shipped configuration, nothing but `sendToPos` takes a lock; the
variation thread rewrites the archive the next start depends on, and the process
may end in the middle of it.

What makes each part correct:

* **Cart** - counts never disagree: pieces, barcodes, totals and cards tell the
  same story after any sequence of adds, voids and refusals.
* **Sessions** - an id is given once; a voided session stays voided; a card is in
  one session if the option says so; the client is told what happened.
* **Recovery** - what is rebuilt is what was there.
* **Prices** - without `PriceChangesWhileShopping` a customer pays the price at
  which the item was first met.
* **All of it, to a customer** - sessions behave as if the server had no files
  and were never restarted.
* **Till** - a basket is its session, and everyone gets the lock.
* **Variations** - a pass is saved whole or not at all, the archive survives a
  crash, every file is taken.
* **Program** - a stop signal ends the process, whenever it comes.
* **HTTP** - the parser accepts what the grammar says however the bytes arrive,
  the server goes on accepting.

The hazards, each at its line, are in `PROJECT.json`; section 5 says which are
covered.

## 2. Modules

| module | models |
|---|---|
| `Archives` | constants of the catalogue, return codes, `decodeBarcode`, the promotion of `ITEM_ADD`, `DummyRCS` |
| `Cart` | a cart as a record of the members of the class; each member function maps a cart to a `Result`: the cart it leaves, the rows it appends, its return code |
| `BaseSystem` | the process: start, recovery, requests, death in or between requests, variations, tills; type invariant, session ids, voided sessions, cards |
| `SessionAccounts` | properties that sum over a cart or replay a file, and what the functional tests say |
| `SessionThreads` | `newCart`, `CUSTOMER_ADD`, `CUSTOMER_VOID` and `SESSION_VOID` cut at the accesses to the counter, the registry, the carts and the files, served on several threads; a few neighbouring accesses to one cart are one step, named in its header |
| `RequestParser` | the automaton of `request_parser::consume`, and the grammar it is meant to accept |
| `RequestHandler` | `url_decode`, the checks of the path, the regular expressions, the parameters, the table of actions |
| `UrlHandling` | a client that writes a path character by character, and what the handler makes of it |
| `HttpServer` | the accept loop, the handlers of each connection, the pool of threads, errors and stop |
| `SelfScan` | abstract: what self-scanning promises customers; sessions with pieces and cards, tills with baskets, a store that opens and closes |
| `SessionView` | what a customer would find in a state of `BaseSystem`, and that `BaseSystem` implements `SelfScan` |
| `PosTransfer` | scans, voids and `sendToPos` of several threads at the grain of shared accesses (a few merged, named in its header), `POSnnn.TMP`, the mutex, failing streams and renames, restarts |
| `Catalogue` | abstract: what the catalogue promises the sales logic; variations, saves that are whole, a process that goes back to what was saved |
| `VariationLoader` | the variation thread, `ITEMS.CSV`, `ITEMS.OLD` and the `.VAR` files; that it implements `Catalogue` |
| `Program` | `main` and the constructor of `BaseSystem` around `VariationLoader`: start, stop signal, every end |
| `MCStore`, `MCView`, `MCThreads`, `MCUrls`, `MCHttp`, `MCPos`, `MCProgram` | the small instances of the runs |
| `SessionProofs`, `ViewProofs` | proofs about `BaseSystem`: types, ids, voids, cards, files, pieces and prices; that it implements `SelfScan` |
| `ThreadProofs`, `PosProofs`, `LoaderProofs`, `HttpProofs`, `UrlProofs` | proofs about the other specifications |
| `CartLemmas` | counting, sums over finite sets, and what each operation of `Cart` returns and does to the cards, for the proofs |

`BaseSystem` EXTENDS `Cart` EXTENDS `Archives`; `Cart` is a module of operators,
not of variables, because a cart has no behaviour of its own: it is moved by the
requests of `BaseSystem` and by its recovery, which use the same operators.
`SessionThreads` EXTENDS `Cart` too, for its rows, cards and codes; it is the
same requests at a finer grain, without items. `PosTransfer` is the item requests
and `sendToPos` at that grain, without prices and cards: the interleavings of
counts and the interleavings of cards do not touch each other, and together they
would not be checked. `Program` EXTENDS `VariationLoader`, whose actions for the
start and the end of the process it drives. `HttpServer` EXTENDS
`RequestParser` and `RequestHandler`, which are modules of operators.

The two halves of the server meet in one place: `handle_request` of
`RequestHandler` ends in the action and the parameters that
`salesActionsFromWebInterface` is called with, and the requests of `BaseSystem`
begin there. `BaseSystem` and `Program` meet in the archive: `Variation` and
`DumpItems` of `BaseSystem` are the effect on the sales of what `VariationLoader`
does step by step: `DumpItems` replaces `ITEMS.CSV` at once, and no run of the
sessions meets a start without an archive or with a torn one. Those starts are
`ReadArchives` and `ReadArchive` of `Program` and `VariationLoader`.

### How the state corresponds to the code

| variable | code |
|---|---|
| `mode` | not running, in the constructor of `BaseSystem`, serving |
| `carts_map`, `sessions` | `carts_map` and its keys |
| `next_cart_number`, `all_loy_cards_map`, `items_map` | the same names |
| `load` | the locals of `loadCartsInProgress`: files not yet listed, open file, next row |
| `reply` | `rc` as the client sees it, after `DummyRCS` |
| `files`, `journal` | the `.transaction_in_progress` files and their rows |
| `items_csv` | `ITEMS.CSV` |
| `scan_in` | `POSnnn.IN` of each till |

Each `WEBI_*` action is one action, guards and early returns in the code's order.
It consists of a pure part (`itemAdd`, `itemVoid`, `customerAdd`, ...) that
computes the `Result` of the *whole* request and of `Handle`, which installs the
cart, appends the rows and answers. `DieWhile` uses the same `Result` to append
only a prefix of the rows and stop the process: the crash inside a request.
`Crash` is every other end of the process, the stop signal included, since
nothing is saved at a stop. `OpenFile`, `LoadRow` and `CloseFile` are the loop
bodies of `loadCartsInProgress`; `StartServing` is the rest of the constructor.

`SessionThreads` keeps `next_cart_number`, `carts_map`, `all_loy_cards_map`,
`files` and `journal`; `pc` and `local` are the place and the locals of the thread
that serves a device, `session` is the id the device was answered. An action is
the code from one access to shared state to the next, but for neighbouring accesses
to one cart that only a second thread of the same session could separate, which are
one step (below): `ReadNumber`, `CreateFile`,
`InsertCart`, `LoadNumber` and `StoreNumber` are `newCart`
(`base_system.cpp:1281-1293`); `LookUpCard`, `RegisterCard`, `CheckCard`,
`PutCard`, `WriteCardRow`, `LoadCount` and `StoreCount` are `CUSTOMER_ADD`. The
increments are a load and a store, because `int64_t` and `unsigned` members are
not atomic. The histories (`openings`, `openings_met`, `cards_met`) are read by
properties only.

| variable of `HttpServer` | code |
|---|---|
| `running` | `io_service_` was not stopped |
| `accepting` | an `async_accept` is pending |
| `phase` | the operation a connection has pending, or the handler that runs |
| `text`, `read`, `parsed` | the bytes the client sends, those that arrived in a buffer, those `parse` took |
| `parser` | `request_parser_` with the uri and the number of headers of `request_` |
| `reply_` | `reply_` |

`handle_read` is three steps of one thread: `HandleRead` (the buffer is filled
with any number of the bytes that are there), `Consume` (one round of the loop of
`parse`, and what follows its answer) and `HandleRequest`. In between the other
threads run. A handler starts only if a thread of the pool is free and the
`io_service` runs; `Stop` lets the handlers that run finish.

| variable of `PosTransfer` | code |
|---|---|
| `cart` | `items_number`, `barcodes_map` and `state` of each cart |
| `file` | what the rows of its file replay to |
| `mutex` | `cart_sendtopos_mutex` |
| `tmp` | `POSnnn.TMP` |
| `pc`, `local` | the place and the locals of a request |
| `met` | history: two requests of the session ran at once |

| variable of `VariationLoader` and `Program` | code |
|---|---|
| `pc`, `todo`, `file`, `row`, `item_tmp`, `updated_items`, `vars_found`, `dumped` | the place in `checkForVariationFiles` and its locals: the directory iterator, the open file and its next row, `itmTemp`, the flags, the iterator of `dumpToFile` |
| `items_map`, `items_csv`, `items_old`, `vars_folder` | the items in memory, the two files, the folder `VARS` |
| `delivered`, `settled`, `unsaved`, `damage` | histories: the files ever delivered, the last complete save, a save that could not begin, a save that was torn and whether it was used, until the next complete one |
| `main`, `signal`, `serving` | the place of the main thread; a pending stop signal; the server is at requests, for which the join waits |

`RenameFile` and `MoveArchive` include `fileMove` and its failure; the thread looks
at the result of the second only. `DumpRow` is a row of `dumpToFile`, which
flushes every row, so that a process that ends leaves whole rows; `DumpFails` is a
full disk, which leaves part of one. `OpenDumpFails` is an archive that cannot be
made: an `ofstream` says nothing of it, the thread goes to sleep as after a save, and
there is no `ITEMS.CSV`. `Die` is every end of the process: nobody
tells the thread or waits for it. `LoadConfiguration` has the three outcomes of an
ini file: good; a `Node.Id` that is no number, where `base_system.cpp:73` logs
"aborting start" and the process goes on to serve without archives; and one with
which an exception reaches `main`.

Behaviours of the code that look odd and are kept as they are: `RC_ERR`,
`RC_LOY_MAX_CARD_NUMBER` and the success of `removeLoyCard` are overwritten; a
refused card stays registered; the cards of a voided cart stay registered; no
discount is given back by a void nor applied by a replay; `ITEM_VOID` does not
look at the type of the barcode; a linked barcode that is in no archive sells the
default item, whose department 0 counts it twice in the row of the whole cart; a
variation row erases the linked barcode of its item; a basket replaces one that
was not read; `PRICE_CUT` above the price is a negative discount. `url_decode`
reads the two characters after a percent sign as a number, so that a sign or a
single digit will do, although `request_handler.hpp:39-40` says that it returns
false for an invalid encoding; the last question mark with three slashes before
it separates the parameters, encoded or not; the parameters end without an error
at the first character that does not fit; after an accept that failed the server
listens to no one; a variation file in a subfolder is found by every pass and opened by
none; `updated_items` is never reset.

### Abstractions

* A barcode is a number with a type, an item and, for priced barcodes, a plu and
  a price: what the regular expressions and `substr` extract from its digits.
* Descriptions, time stamps, parent departments, the request counter, the rescan
  flag, the customer code in a basket and the JSON texts are left out: no
  property tells them apart.
* A map from a code to a quantity is a function with 0 for an absent key. The
  operations erase a key whose count falls below 1, so the two are the same.
* The percentage discount is `price * percent \div 100`; the code computes it in
  double precision and truncates.
* `items_number` is an unsigned 32-bit counter in the code; that it is never
  decremented below the pieces in the cart is part of `PriceLocked`, so the wrap
  cannot happen.
* The item of a barcode is in `ITEMS.CSV`, and departments are in
  `DEPARTMENTS.CSV` (`CatalogueAssumption`).
* A row is written whole or not at all. `writeTransactionRow` opens, writes and
  closes the file for each row; a row torn by a power failure is not modelled.
* `removeLoyCard` increments an iterator after erasing its element. That is
  undefined; the outcomes modelled are that the loop ends, and that the process
  dies with the row written.
* In `BaseSystem` requests are whole steps: it is the server with one worker
  thread (`[Web] Threads=1`). The shipped configurations set 10, and nothing in
  `newCart`, `CUSTOMER_ADD` or the archives takes a lock; `SessionThreads` is
  those requests on several threads, and `PosTransfer` item requests and
  `sendToPos`. An item that is read while the variation thread assigns it is
  not modelled. The variation thread *is* concurrent with the requests of
  `BaseSystem`, between whole requests.
* In `PosTransfer` an item has one barcode and no linked item; a header is written
  in one step, the lines of a barcode in another. `voidAllCart` is one step
  (`SessionVoid`), and so are the load and the store of `items_number` (`CountPiece`)
  and the count of a barcode, the test of the state and the row (`PutBarcode`): what
  could get in between is a second request of the same session, which the property
  excepts. The customer of a session is a constant.
* In `SessionThreads` the three tests of a cart before a card is put in are one step
  (`CheckCard`), and so are the search and the erasure of a card (`EraseCard`), the
  state and the row (`WriteCardRow`), and the test and the assignment of the state
  (`VoidState`). Again only a second thread of the same session could tell, and
  `PrivateSessionsAreSerial` speaks of sessions that have one. The count of cards
  and the counter of sessions are loaded and stored in steps of their own.
* In `VariationLoader` the price stands for every column of an item after its
  code; a `.VAR` file is delivered whole; rows are CSV (others stop the process
  through an assert). Default items that requests insert with `operator[]` are
  dumped with the rest in the code; they are in no archive and sell for nothing,
  and are left out.
* In `Program` the ten seconds of the constructor, the log file and the pid file
  are left out. Of the requests of the server, which are `BaseSystem` and
  `HttpServer`, it knows that there are some (`serving`): `main` waits for them
  after a stop, and a stop lets none begin.
* In `SessionThreads` accesses happen in some order. What an optimiser may do to
  a race, or an insertion into a `std::map` that another thread reads, is
  undefined; the outcome that is modelled is the end of the process (`Crash`).
* A character of a request is a string. The automaton tells few apart, and a
  whole word stands for its letters where it is only compared: `addItem` is one
  character of a path. The digits `2`, `3` and `f` spell every kind of
  percent-encoded character.
* The method, the version number and the texts of headers are not kept: nothing
  reads them. The version is an `int` that a client may overflow; that is
  undefined, and no value of it is ever used.
* `Content-Type` and the wording of replies are left out.

## 3. Runs

The runs of sessions use `MCStore`; `MCView` adds the view to it. Their `.cfg` sets
the bound `MaxRows`, on the rows of each file: a request that would exceed it is
not made. It is the only bound on the length of a session; `CartNumbers` bounds
the sessions ever opened. Crashes, restarts and variations are unbounded.

| run | properties | store and bounds | what it shows |
|---|---|---|---|
| Sessions | `TypeOK`, `SessionIdsFresh`, `VoidedSealed`, `JournalFaithful`, `CardsBounded`, `KeepsSessions` | 2 sessions of 4 rows and of 1, 1 item, 2 cards (a symmetry set) which is the limit of a cart, 1 till, prices may change | ids, voids, cards and recovery under crashes between any two rows; a restart does not show |
| Goods | `PiecesHaveBarcodes`, `PriceLocked`, `JournalFaithful`, `BillFaithful`, `StartEnds` | 1 session of 8 rows, an item at 20% off with two barcodes and a deposit, priced barcodes, an unknown linked barcode, unknown and unrecognised codes; a variation that raises the price and unlinks; fairness | the first price is paid, pieces and barcodes agree when pieces are voided through another barcode, through variations and restarts; a file replays to the bill too; recovery ends |
| Threads | `TypeOK`, `AnsweredSessionsExist`, `NewUnlessMet`, `OneSessionUnlessMet`, `PrivateSessionsAreSerial` | 2 devices, 2 sessions, 3 cards with at most 2 in a cart, 3 rows | what survives without locks: an id that is answered is that of a cart, ids and cards are shared only by requests that met, a session that one device uses behaves as if requests were serial |
| Urls | `DecodeInverts`, `ActionIsTheNamedOne`, `ParamsArrive` | up to 4 of 9 characters after each of 4 beginnings, every choice of encodings | the handler does what the client meant: the action named, every parameter before the first character that fits nowhere and none after it |
| Grammar | `TypeOK`, `LastHeaderExists`, `AnswersFollowGrammar` | 1 connection, every text one slip away from 2 requests, reads of 1 or 2 bytes | what is handled, refused or waited for is what the grammar says, however the bytes are cut |
| Server | `EveryoneIsAnswered`, `EveryoneIsAccepted` | 2 connections, 1 thread, 3 texts, fairness | everyone is accepted and answered, through failures of others |
| Baskets | `TypeOK`, `BasketIsTheSession`, `MutexIsReleased` | 2 threads, 2 sessions (one with a card), 1 till, 1 barcode, 2 pieces, fairness | a basket is its session's unless another request of the session ran meanwhile or the stream failed; the lock comes back |
| Program | `ProgramTypeOK`, `ArchiveSurvives`, `SavedAsleep`, `KeepsPromise`, `VariationsArrive`, `StopIsHonoured` | 2 items, 3 prices, 2 files (one with a short row and a row of another kind, one in a subfolder), fairness | the archive through crashes and failures, the promise of `Catalogue`, liveness of the thread and of the stop, which waits for the requests of the server |

Why the bounds are enough: four rows are one scan (department, item, barcode) and
one further event, or four events of cards, which fill a cart to its limit, refuse
a card and remove one; a second session meets them all and shares the next id and
the registry of cards. Eight are a linked scan (six rows) and its void (two), or
six piece events after the first scan. Two files are enough for every order in
which the directory may list them, since loading a file touches only its own cart,
the next id and the registry. Two threads are enough to lose an update, to share
an id, to share a card or to change a basket half-way: each takes two accesses
that meet. One till is enough for `Baskets`, since two sessions meet at it, and
the theorem is for any number. A file with two rows of items, the second short,
has every way in which a row reads what another left; a second file and a
subfolder make a pass begin, go on and end with and without something to save; two
items leave a dump unfinished at its beginning, in the middle and at the end.
Symmetry is sound because no definition tells cards, or devices, apart and these
runs have no liveness property; `SelfScan` does not tell cards apart either.

In `Baskets` a session of which two requests met is left alone until the next
start (the bound in `Begin`): the property excepts it, and counts that drift apart
without end would not be finite.

The automaton decides byte by byte from a finite state, so a text with one slip,
at every place and of every kind, takes each of its moves and each refusal; the
two requests have no header, and a header that goes on in a second line. Reads
of one or two bytes put a boundary between any two bytes, and the mutant that
forgets the state between reads is found. Four characters after a beginning that
ends in the servlet or in the parameters can add a slash, a mark, a separator and
a value, which is what changes the parse; two percent-encodings in a row and one
at the end are among them. Two connections and one thread are the smallest pool
in which one client could starve another.

Fairness: `WF_vars(Loading)` in Goods, since the loader is straight-line code on
the main thread of the constructor: it takes its next row unless the process
ends. `WF_vars(Handlers(c))` for each connection in Server: `io_service::run`
hands the handlers that are ready to its threads in the order in which they
became ready, so one that stays ready is run, and a handler that runs is
scheduled. `WF_vars(Step(t))` for each thread in Baskets: a thread that is in a
request and can go on is scheduled; a `std::mutex` promises no more, so that a
thread may be passed over for ever and `MutexIsReleased` says only that the lock
comes back. Weak fairness of `Main` and of `VariationThread` in Program: two
threads of one process, of which the second wakes after its sleep. Weak fairness of
`EndRequests` in Program: a handler is straight-line code and finite loops, the one
lock it may wait for is given back (`MutexIsReleased`), and after a stop no handler
begins, so the last one ends. Nothing else is
assumed: clients need not send anything, files may be delivered or not, tills may
never read, a rename may fail every time, and an error, a kill or a stop may happen
or not.

Deadlock is not checked in Urls (the client stops when the path is written) nor
in Grammar and Server (a stopped server stays stopped).

### Where the code and its documents disagree

Four runs end in a counterexample; each is a disagreement between the code and a
test, a declaration or the configuration file, and is listed under `findings`.

| run | property | what happens |
|---|---|---|
| ReturnCodes | `FeatureReturnCodes` | the void of an item not in the cart is answered 0 where `kStoreMine.feature` expects 3; a card beyond the limit is answered 0 and dropped where it expects 3; the removal of a card is answered with an error where it expects 0 |
| OneCart | `OneSessionPerCard` | with `OnlyOneShoppingSessionPerCard=1`, two restarts let a card into two carts: a replayed removal of one cart erases the entry another cart made since |
| Deposit | `PriceLocked` | with `PriceChangesWhileShopping=0`, a variation of a linked item changes its price in the middle of a session |
| SameId | `NewSessionsAreNew` | two `newCart` at once are answered the same id; `cartnumber_mutex` is declared and never taken |

`Deposit` and `Goods` have the same linked item with different variations: the price of
a linked item is the only hole in `PriceLocked`, as long as only the price of
items sold by themselves varies. `SameId` and `Threads` are the same requests:
`NewUnlessMet` says that the meeting of two `newCart` is the only way to it.

Two more are visible in the model and have no run: a bad configuration "aborting
start" (`base_system.cpp:73`) starts a server without archives
(`LoadConfiguration`), and an `ITEMS.CSV` lost between rename and dump leaves
`ITEMS.OLD`, which no start reads (`ReadArchives`).

### Refinements

`SelfScan` is the store without files: sessions are opened one after the other,
hold pieces and cards, are voided for good, and send a basket to a till; the store
closes and opens again and nothing has changed. `KeepsSessions` says that
`BaseSystem` implements it. What a session holds while the process is down, or is
loading, is what its file replays to; a crash in the middle of a request is then
either the closing step alone or the closing step with the piece in or out.
`SessionView` keeps this mapping in a variable, `view`, which is a function of the
state and changes nothing: TLC computes the replay once a step and not once for
every action of `SelfScan`.

`Catalogue` has no files and no thread: items vary, a save makes all of them last,
a process that ends goes back to what was saved. `KeepsPromise` maps `saved` to the
last complete save, so that `EndDump` is the save and everything before it a
stutter; what a torn save leaves is `Tear`, after which nothing is promised until the
next complete save. Only a crash or a full disk in the middle of a save, or an archive
that cannot be made, leads there.

## 4. Proofs

Eight modules hold proofs: three about `BaseSystem`, one about each of four other
specifications, and one of lemmas about data and the operations of `Cart`. Each specification has one inductive
invariant, that of `BaseSystem` in several parts.

### Sessions

`SessionProofs` proves, for every catalogue, every set of sessions, cards and
tills and every configuration, from `CatalogueAssumption`, `CardsAssumption` and
`BaseSystemAssumption` alone:

* `TypeCorrect`: `Spec => []TypeOK`,
* `SessionIdsNeverReused`: `Spec => []SessionIdsFresh`,
* `VoidedForever`: `Spec => []VoidedSealed`.

The argument is one inductive invariant, `IInv`. `SessionIdsFresh` speaks of a
serving server only; what makes it true is built while loading. `LoaderInv` says
that the files are those loaded, the one open and those to do, and that every
closed file is below the next id. `VoidedSealed` relates the state of a cart to
its file; `VoidInv` adds what holds half-way: the cart being loaded is voided
exactly if the void row is among the rows already replayed, and a file that does
not exist has no rows. `LoaderInv` is needed by `VoidInv` (a new session must
find no old file) and by the typing of `LoadRow` (the row read exists).

The proof of a step is per action. The requests are gathered first: lemmas on
each operation of `Cart` (in `CartLemmas`) show that its `Result` is well typed and *quiet* (it
keeps the state, writes no void row, and writes nothing unless the cart serves),
and that composition keeps this, so that a request is either quiet or
`voidAllCart`, and the step lemmas see two cases instead of seven.

From `IInv` it goes on to `CardLimitHolds`: `Spec => []CardsBounded`.
A card is stored at the index `loy_cards_number`, which a removal lowers, so an add
may overwrite a card; the count of a cart is then larger than the number of its
cards, never smaller. The invariant, `CardsInv`, says that no card has two indices,
that the indices in use are no more than the count and the count no more than the
limit; the proof counts the indices that an operation adds and takes away.

### Files, pieces and prices

`SessionProofs` goes on to prove, from the assumptions above, `FiniteArchives` (the archives
are finite, as every CSV file is) and the hypotheses named with each theorem:

* `FilesTellSessions`: `PlainLinks` gives `Spec => []JournalFaithful`,
* `FilesTellBills`: `PlainLinks` and `SteadyBills` give `Spec => []BillFaithful`,
* `NoPieceIsHidden`: `PlainLinks` gives `Spec => []PiecesHaveBarcodes`,
* `PricesAreLocked`: `PlainLinks`, `SteadyBills`, `DepartmentsGiven` and
  `~PriceChangesWhileShopping` give `Spec => []PriceLocked`.

A cart and what its file replays to are not equal: a replay reads the archive of
today and not that of the scan. The proof therefore speaks of the *digest* of a
cart, `Told`, which holds what does not depend on that archive, and of the effect
of a row on a digest, `tell`. A row is `Fit` for a digest if the code could have
written it there (a piece with no price of its own, and a void, follow a copy of
the price). `Tells(rows, t, u)` says that there is a `Story`, one digest per row,
that leads from `t` to `u`. Three facts meet in `TaleInv`, the invariant: the rows
that a request appends tell the digest it leaves, whatever prefix of them a death
leaves in the file (`Truthful...`); the loader, row by row, follows the same
digests (`ToldReplay`); and so every file tells, from an empty cart, the digest of
its session, and of a session being loaded as far as it was read. The replay that
the properties speak of is one more follower (`ReplayFollows`). A digest while
voided forgets the prices of items the cart does not hold, which a replay copies
and nothing reads.

`PiecesHaveBarcodes` and `PriceLocked` are then properties of digests that every
`Fit` row preserves (`Stocked`, `Balanced`), so that no action of `BaseSystem` is
looked at again; a sum over a cart changes by the one item that a row moves
(`SumChange`).

The hypotheses are what the code needs, and none is weaker in what it says of the
stores that are checked: `MCStore` ASSUMEs `PlainLinks` and `DepartmentsGiven` of
them (`StoresArePlain`), and TLC evaluates that in every run.

* `PlainLinks`: no item is linked to a barcode that carries a price. `ITEM_ADD`
  sells such a link as the item it names and writes its barcode, and the loader
  replays the barcode by its plu.
* `SteadyBills`: a bill survives variations that keep the prices of deposits,
  which have no local copy, every price if no copies are kept at all, and whether
  an item has a department. `Deposit` is the counterexample without it.
* `DepartmentsGiven`: an item without a department is charged twice in row 0 of
  the totals, so the gross total is not the sum of the prices.

`CartLemmas` holds what these proofs, and those about threads, need of data and of
the operations of `Cart`. The library's induction
theorems take an operator as a parameter, which the provers cannot instantiate;
`LeastNumber` (a set of numbers that is not empty has a least one) follows from the
well-foundedness of the order, and `CountingUp` is induction over a *set* of
numbers. With these a recursive function is shown to exist (`ReplayExists`,
`SumExists`), which is what its defining equation rests on.

### The sessions of a customer

`ViewProofs` proves `RestartsDoNotShow`: `PlainLinks` gives `ViewSpec =>
KeepsSessions`, for every catalogue, every variation and every order of requests,
deaths and starts. It needs `NoBasketAssumption` too (`NoBasket` is no basket).

`ViewInv` says that what a customer would find in a session is what its file tells,
whether the process serves, loads or is down. So a step that touches no file shows
nothing, and a step that appends rows shows what these rows tell. What they tell
depends on their shape alone: the rows of a request are those of at most two
pieces (an item and its deposit) added, or at most two taken out, or one row of a
card, or one void (`Requested`), and a prefix that a death leaves is such a list
again (`RequestedPrefix`). Each shape is a step of `SelfScan` or a stutter
(`RequestedStep`, `StoreMovesPieces`, `StoreMovesCard`, `StoreVoids`); opening a
session, closing it with a basket and taking the basket are the others. `BlankInv`
says that a number without a session still holds the empty cart, which is what a
start shows of a file it has listed and not read.

### Threads

`ThreadProofs` proves, for any number of devices, sessions and cards, from
`SessionThreadsAssumption` and the assumptions of `Cart`:

* `ThreadsTyped`: `Spec => []TypeOK`,
* `AnsweredAlwaysExist`: `Spec => []AnsweredSessionsExist`,
* `OnlyMeetingsRepeatIds`: `Spec => []NewUnlessMet`,
* `OnlyMeetingsShareCards`: `Spec => []OneSessionUnlessMet`,
* `AloneIsSerial`: `Spec => []PrivateSessionsAreSerial`.

The third and the fourth are the reason for the histories: as long as no two `newCart` met,
the ids given out are below the counter and the one about to be given out *is* the
counter (`OpeningsInv`); as long as no two threads looked a card up at once, the
registry knows the session of every card that is in a cart or about to be
(`RegistryInv`). Both invariants speak of threads in the middle of a request,
which the properties do not.

`AloneIsSerial` needs an invariant of its own, `SerialInv`. `AloneInv(n)` says of a
session that was answered at most once that no two devices have it, and how far the
one thread that works on its cart has got: the cart is what the file replays to
(`Matches`), or that with the row still to be written, or with the card still to be
counted (`Progress`). `SessionsInv` says that a session nobody was answered is
empty, so that `newCart` inserts a cart only where the same cart is already. The
proof of a step has two halves: what the requests of the device itself make of its
session (`OwnKept`, from `MatchedAdd`, `MatchedErase` and `MatchedVoid`, where the
accesses of a thread, taken together, are an operation of `Cart`), and that nobody
else reaches it (`CartStepFrame`, `AloneOfOwn`, `AloneOfFrame`). A row more in a
file is a request more in its replay (`SerialOfMore`), by the same counting as above.

### Transfer

`PosProofs` proves, for any number of threads, sessions, tills and barcodes, from
`PosTransferAssumption`:

* `TransferTyped`: `Spec => []TypeOK`,
* `BasketArrives`: `Spec => BasketIsTheSession`, an action property.

The invariant says who holds the mutex (`LockInv`), that a session which has not
met is served by one request and open (`AloneInv`), that the cart is what the file
replays to but for the piece being counted (`FileInv`), and that the basket under
the lock is the session's as far as it is written (`BasketInv`). `LockInv` is what
keeps two baskets out of one `POSnnn.TMP`; `AloneInv` and `FileInv` make the header
and the lines of different moments agree.

### Variations

`LoaderProofs` proves, for every catalogue, every set of variation files with rows
of any length and every configuration of the process, from `LoaderAssumption`:

* `ProgramTyped`: `Spec => []ProgramTypeOK`,
* `ArchiveOnDisk`: `Spec => []ArchiveSurvives`,
* `SleepsSaved`: `Spec => []SavedAsleep`,
* `PromiseKept`: `Spec => KeepsPromise`, the refinement of `Catalogue`.

The invariant says what is on the disk in every phase of a save (`DiskInv`), how
far a dump is (`DumpInv`), what the rows read so far mean for what must be saved
(`ReadInv`) and what memory holds (`MemoryInv`). The refinement has one lemma per
action; all but `NextRow` (`Vary`), `EndDump` (`Save`), the starts and the ends are
stutters as long as no save is torn. The actions of `Program` are those of the loader
with the place of `main`, so that its proofs are about the loader (lemma `ProcessLoads`).

### HTTP

`HttpProofs` proves, for texts of every length, every number of connections and
threads and every size of the buffer, from `HttpServerAssumption` and
`CharsAssumption`:

* `HttpTyped`: `Spec => []TypeOK`, with the parser never beyond what was read,
* `LastHeaderAlwaysExists`: `Spec => []LastHeaderExists`,
* `AnswersAlwaysFollowGrammar`: `Spec => []AnswersFollowGrammar`.

`CharsAssumption` says that the characters there are include those that a request
cannot do without (a space, `HTTP/`, a point, a colon, a digit, a letter, the ends of a
line). A byte may be any of them, and without them there would be no requests to accept.

`LastHeaderExists` is about the states that add to the last header; it is not
inductive because the state after the colon leads to one of them, so `Inv` adds
that state. `WaysIntoHeader` is the argument: the only way in from outside a
header is the start of a line, where a name begins a new header and white space
needs one. `Inv` also says that nothing was read from a client that is not there.

`AnswersFollowGrammar` compares the automaton, which knows a state and a count of
headers, with a grammar on whole texts. The proof takes five steps.

1. The grammar is about the lines that a text splits into, each with the first end
   of a line after its beginning (`EndFrom`). `WholeRequest` says the same by places:
   where the method, the uri and the version end, which `cr` ends which line.
   `RequestIsWhole` and `WholeIsRequest` are the two directions; `UriIsRead` needs
   that a text has one reading: a uri has no space in it.
2. `Reads` says, for each state, what the characters that led to it look like.
   `ReadsStep` is its step, and `CompleteIsRequest` its use: a text that leads to
   `complete` is a request. `UriRead` is the same for what was put into `uri`.
3. `Follows` goes the other way: a request puts the automaton where its own places
   say, so it has a move at each of its characters (`PlaceStep`), and is in
   `complete` after the last and only there (`RequestIsComplete`).
4. What was not refused can still become a request, which is what `IsViable` says
   with `Rest`, a text that ends any beginning. `Ready` gives the place of `Rest`
   from which each state goes on; `AllReach` counts down to that place from its
   end. So a text is viable unless it was refused, and `NothingFollows` says that a
   refused one is neither viable nor a request.
5. `GrammarInv`, the inductive invariant, says the three (`Tracks`) of *every* text
   that begins with what was read. It is not enough to say them of what was read:
   that a character is refused must tell something of the texts that have not
   come yet.

The proof found an error in the model that TLC could not: what follows the last
byte of a read was a `CASE` whose guards overlapped (a refusal with bytes left in
the buffer), which TLC reads from the top and the logic leaves open. `AfterConsume`
is now a disjunction of conditions that exclude each other, as in `handle_read`.
The property became stronger too: it now says that the parser does not read on
after a whole request.

### Urls

`UrlProofs` proves, for paths of every length and all characters, from
`ClientsWritePlainly` (a percent sign and a plus are written only to encode):

* `UrlsDecode`: `Spec => []DecodeInverts`,
* `NamedActionIsDone`: `Spec => []ActionIsTheNamedOne`,
* `EveryParamArrives`: `Spec => []ParamsArrive`.

`url_decode` chooses a function that satisfies an equation (`DecodingIsChosen`), so
there are two things to prove: that at most one function does (`OneDecoding`: take
the last place where two differ), and that one does whose value is the path that was
meant. `UriInv`, the inductive invariant, is that second half: what was sent has
such a function, and no percent sign is so near its end that what is sent next could
change what it stands for. `DecodedTogether` makes the function of a longer uri from
those of its parts. For the action, `GreedyIsLast` says that the nested maxima which
model the greedy expressions are the last mark and the last slash before it,
`ThreePlaces` relates a match to counting slashes, and `IndexSegments` that
`index.html` after a final slash moves neither.

`ParamsArrive` speaks of every query, well formed or not: the parameters are those of
the pieces that the parser `Heard`, each with the first value of its key. A piece is
what stands between two cuts (the mark, and each `&` or `;` after it); it `Fits` if it
is a key, or a key, an equals sign and a value; and heard are the pieces up to the
first that does not fit, and that one if it begins with a key, with what was read of
it before the character where the parser stops. The property is stated by places in
the text and knows no parser; the parser is a fold over the characters.

So the fold too is a function that is chosen: over sets of places, and one exists
because one does for every shorter text (`ParsingExists`). `ParsingSteps` turns it into
a state after each character, which the proof describes in one of two ways. `Reading`:
the parser is somewhere in the piece after the last cut, all earlier pieces fit, and
the parameters are theirs (`Arrived`). `Stopped`: it goes no further, and the
parameters are those `Heard`. `OneMore` is the step from character to character; it
splits into a piece that goes on (`PieceGoesOn`) and one that ends (`PieceEnds`).
`KeyIsRead` and `ValueIsRead` relate the places the parser has been at to `KeyIn`,
`ValueIn` and `Fits`, `HeardUpTo` says what is heard when the pieces before one fit,
and `HeardArrives` takes the state after the last character to the property.
`IndexIsNotHeard` is about a path that ends in a slash: the `index.html` that the
handler adds to it is no parameter of the client's. Inductions are arguments about a
least counterexample (`LeastNumber`), as the library's induction theorems cannot be
used here.

### Only model-checked

* Liveness: `StartEnds`, `EveryoneIsAnswered`, `EveryoneIsAccepted`,
  `MutexIsReleased`, `VariationsArrive` and `StopIsHonoured`. It is out of the
  provers' reach.

Every invariant and every action property of a passing run is stated by a theorem.

## 5. Coverage of the hazards

Covered: crashes inside a request, recovery in any order, stale prices, voided
sessions, counts of items, barcodes and cards, overwritten return codes, the
registry of cards; the unlocked counters, registry and carts on several threads;
baskets, their lock and what a dead process leaves of them; the archive through
crashes, failing renames, a full disk and a stop in the middle of a save; bytes cut
into reads, the parser's assumptions on its headers, encodings, dispatch and
parameters, in well formed queries and others; starvation and the accept loop.

Without a property, with the reason beside each in `PROJECT.json`:

* modelled as the code does it, and no document says what would be right: the cards of
  a voided cart stay registered (`base_system.cpp:1183`), a basket replaces one
  that was not read (`cart.cpp:476`), a count of cards is lost in a session that two
  threads change (`cart.cpp:135`), a basket without a card (`cart.cpp:446`) or of a
  session that is changed meanwhile (`cart.cpp:461`), a short variation row keeps the
  columns of the one before (`base_system.cpp:471`), a file in a subfolder makes every
  pass save again (`base_system.cpp:491`), a request that a stop leaves without an
  answer (`server.cpp:58`), signs and single digits in percent-encodings
  (`request_handler.cpp:188`: the properties speak of well encoded paths);
* undefined, and modelled at most as the end of the process: `decodeBarcode` inserting
  into maps that others read (`base_system.cpp:454`), an item read while it is assigned
  (`base_system.cpp:542`, below).

Two more are modelled and only partly judged: a crash between the rename of a `.VAR`
file and the save loses its variation (`SavedAsleep` speaks of passes that end), and a
failed accept is the exception that `EveryoneIsAccepted` makes.

What would come next: requests that read an item while the variation thread
assigns it, with the columns apart; the reading of the other three archives with
short rows; `OneSessionPerCard` at several restarts as a refinement that names what
the registry does promise.

## 6. Not modelled

* **Windows console and service** (`main.cpp:188-553`). The service is a stub:
  `SvcInit` ends in "Report running status when initialization is complete"
  (`main.cpp:434`) and calls `WinMainSvc` again, which installs and dispatches the
  service instead of running it. What is left are calls of the service control
  manager, whose behaviour would be ours to invent.
* **Replies and mime types**: tables of constant texts.
* **Configuration and CSV parsing**: libraries; what they make of a file that is
  not well formed is an exception or an assert, which is one of the ends of the
  process.
* **A torn item**: the assignment of an `Item` copies a `std::string` while others
  read it, which is undefined; any outcome could be written down and none would be
  the code's.
* Logging, the log and pid files, JSON texts, time stamps.
* `OneSessionPerCard` and the two limits of the card registry are in `OneCart` and
  `SessionThreads`; the functional tests are modelled as far as they state return
  codes.
