------------------------------ MODULE ViewProofs ------------------------------
(***************************************************************************)
(* BaseSystem implements SelfScan, for any store whose links carry no      *)
(* price: what a customer would find is a function of what the file of a   *)
(* session tells (SessionProofs), a request appends the rows of a step of  *)
(* SelfScan, cut short or not, and nothing else touches a file.            *)
(***************************************************************************)
EXTENDS SessionView, SessionProofs

-----------------------------------------------------------------------------
(* Rows that tell of pieces *)

\* Rows among which only those at a and b, at most, are of pieces, and these
\* of one action.
PieceRows(rows, action, a, b) ==
    \A k \in 1 .. Len(rows) :
        \/ rows[k].object = "K"
        \/ k \in {a, b} /\ rows[k].object = "I" /\ rows[k].action = action

Signed(action) == IF action = "A" THEN 1 ELSE -1

\* A piece of some item more or less.
OnePiece(old, new, by) ==
    \E i \in ItemCodes : old[i] + by >= 0 /\ new = [old EXCEPT ![i] = @ + by]

\* None, one or two pieces, which only an open session gets or loses.
NoneMoved(t, u) == u.items = t.items
OneMoved(t, u, by) == t.open /\ OnePiece(t.items, u.items, by)
TwoMoved(t, u, by) ==
    t.open /\ \E m \in [ItemCodes -> Nat] : OnePiece(t.items, m, by) /\ OnePiece(m, u.items, by)

Moved(t, u, by) == NoneMoved(t, u) \/ OneMoved(t, u, by) \/ TwoMoved(t, u, by)

SameCards(t, u) == u.open = t.open /\ u.cards = t.cards

\* The pieces are counted.
Counted(t) == t.number = SumFunctionOnSet(t.items, ItemCodes)

LEMMA CountedSame ==
    ASSUME NEW t \in Digests, Counted(t), NEW d \in Digests, d.items = t.items, d.number = t.number
    PROVE  Counted(d)
BY DEF Counted

LEMMA CountedPiece ==
    ASSUME NEW t \in Digests, Counted(t), NEW d \in Digests, NEW item \in ItemCodes,
           NEW delta \in Int, d.items = [t.items EXCEPT ![item] = @ + delta],
           d.number = t.number + delta
    PROVE  Counted(d)
<1>1. PICK a \in [ItemCodes -> Nat], b \in [ItemCodes -> Nat] : a = t.items /\ b = d.items
  BY DigestFields
<1>2. b[item] - a[item] = delta /\ \A i \in ItemCodes \ {item} : b[i] = a[i]
  BY <1>1
<1>3. DifferAt(a, b, ItemCodes, item)
  BY <1>2 DEF DifferAt
<1>4. SumFunctionOnSet(b, ItemCodes) = SumFunctionOnSet(a, ItemCodes) + (b[item] - a[item])
  BY <1>3, FiniteCodes, SumDifference
<1> QED BY <1>1, <1>2, <1>4 DEF Counted

\* A row of a piece moves that piece, or nothing.
LEMMA TellPiece ==
    ASSUME NEW t \in Digests, NEW r \in Rows, Fit(t, r), r.object = "I"
    PROVE  LET u == tell(t, r)
           IN  /\ u \in Digests /\ SameCards(t, u)
               /\ NoneMoved(t, u) \/ OneMoved(t, u, Signed(r.action))
               /\ Counted(t) => Counted(u)
<1>0. t.open \in BOOLEAN /\ t.items \in [ItemCodes -> Nat]
  BY DigestFields
<1>1. CASE ~t.open
  BY <1>1 DEF tell, SameCards, NoneMoved
<1>2. CASE t.open
  <2> DEFINE b == r.code
             item == decodeBarcode(b)
  <2>1. b \in Barcodes /\ item \in ItemCodes
    BY DecodeBarcodeTyped DEF Rows
  <2>2. tell(t, r) = IF r.action = "A" THEN tellAdd(t, b) ELSE tellRemove(t, b)
    BY <1>2 DEF tell
  <2>3. r.action = "A" \/ t.items[item] # 0 => ToldPrice(t, b) \in Int
    <3>1. (r.action = "A" \/ t.items[item] # 0) /\ ~PriceChangesWhileShopping
              => t.prices[item] # NoPrice
      BY <1>2 DEF Fit
    <3> QED BY <2>1, <3>1, ToldPriceInt
  <2> HIDE DEF b
  <2>4. CASE r.action = "A"
    <3>1. PICK u : u = tellAdd(t, b)
      OBVIOUS
    <3>2. /\ u \in Digests /\ u.open = TRUE /\ u.items = [t.items EXCEPT ![item] = @ + 1]
          /\ u.number = t.number + 1
      BY <1>2, <2>1, <2>3, <2>4, <3>1, TellAddTyped
    <3>3. SameCards(t, u)
      BY <1>0, <1>2, <3>1, <3>2 DEF tellAdd, Digest, SameCards
    <3>4. OneMoved(t, u, 1)
      BY <1>0, <1>2, <2>1, <3>2 DEF OneMoved, OnePiece
    <3>5. Counted(t) => Counted(u)
      BY <2>1, <3>2, CountedPiece
    <3> QED BY <2>2, <2>4, <3>1, <3>2, <3>3, <3>4, <3>5 DEF Signed
  <2>5. CASE r.action # "A" /\ t.items[item] # 0
    <3>1. PICK u : u = tellRemove(t, b)
      OBVIOUS
    <3>2. /\ u \in Digests /\ u.open = TRUE /\ u.items = [t.items EXCEPT ![item] = @ - 1]
          /\ u.number = t.number - 1
      BY <1>2, <2>1, <2>3, <2>5, <3>1, TellRemoveTyped
    <3>3. SameCards(t, u)
      BY <1>0, <1>2, <2>5, <3>1, <3>2 DEF tellRemove, Digest, SameCards
    <3>4. u.items = [t.items EXCEPT ![item] = @ + -1] /\ u.number = t.number + -1
      BY <1>0, <2>1, <3>2, DigestFields
    <3>5. OneMoved(t, u, -1)
      <4>1. t.items[item] + -1 >= 0
        BY <1>0, <2>1, <2>5
      <4> QED BY <1>2, <2>1, <3>4, <4>1 DEF OneMoved, OnePiece
    <3>6. Counted(t) => Counted(u)
      BY <2>1, <3>2, <3>4, CountedPiece
    <3> QED BY <2>2, <2>5, <3>1, <3>2, <3>3, <3>5, <3>6 DEF Signed
  <2>6. CASE r.action # "A" /\ t.items[item] = 0
    BY <2>2, <2>6 DEF tellRemove, SameCards, NoneMoved
  <2> QED BY <2>4, <2>5, <2>6
<1> QED BY <1>0, <1>1, <1>2

\* A row of a department or of a price moves nothing.
LEMMA TellCopied ==
    ASSUME NEW t \in Digests, NEW r \in Rows, r.object = "K"
    PROVE  LET u == tell(t, r)
           IN  u \in Digests /\ SameCards(t, u) /\ NoneMoved(t, u) /\ (Counted(t) => Counted(u))
<1>0. t.open \in BOOLEAN
  BY DigestFields
<1>1. CASE ~t.open
  BY <1>1 DEF tell, SameCards, NoneMoved
<1>2. CASE t.open
  <2>1. PICK u : u = tell(t, r)
    OBVIOUS
  <2>2. u \in Digests /\ u.items = t.items /\ u.number = t.number
    BY <1>2, <2>1, TellOtherTyped
  <2>3. u = t \/ u = tellCopy(t, r.code, r.price)
    BY <1>2, <2>1 DEF tell
  <2>4. \/ u = t
        \/ \E prices : u = Digest(t.open, t.items, t.barcodes, t.number, t.cards, t.limit,
                                  prices, t.pieces, t.gross)
    BY <2>3 DEF tellCopy
  <2>5. SameCards(t, u)
    <3>1. \A prices : SameCards(t, Digest(t.open, t.items, t.barcodes, t.number, t.cards, t.limit,
                                         prices, t.pieces, t.gross))
      BY DEF Digest, SameCards
    <3> QED BY <2>4, <3>1 DEF SameCards
  <2> QED BY <2>1, <2>2, <2>5, CountedSame DEF NoneMoved
<1> QED BY <1>0, <1>1, <1>2

\* Any row goes from a digest to a digest, and counts the pieces.
LEMMA TellCounted ==
    ASSUME NEW t \in Digests, NEW r \in Rows, Fit(t, r)
    PROVE  tell(t, r) \in Digests /\ (Counted(t) => Counted(tell(t, r)))
<1>1. CASE r.object = "I"
  BY <1>1, TellPiece
<1>2. CASE r.object # "I" /\ t.open
  BY <1>2, TellOtherTyped, CountedSame
<1>3. CASE ~t.open
  BY <1>3 DEF tell
<1> QED BY <1>1, <1>2, <1>3

-----------------------------------------------------------------------------
(* What files tell *)

\* A file tells one thing.
LEMMA TellsOnce ==
    ASSUME NEW rows \in Seq(Rows), NEW t, NEW u, NEW v, Tells(rows, t, u), Tells(rows, t, v)
    PROVE  u = v
<1>1. PICK p : Story(p, rows) /\ p[0] = t /\ p[Len(rows)] = u
  BY DEF Tells
<1>2. PICK q : Story(q, rows) /\ q[0] = t /\ q[Len(rows)] = v
  BY DEF Tells
<1> DEFINE S == {k \in 0 .. Len(rows) : p[k] = q[k]}
<1>3. Len(rows) \in Nat
  OBVIOUS
<1>4. 0 \in S
  BY <1>1, <1>2, <1>3
<1>5. ASSUME NEW k \in 1 .. Len(rows), k - 1 \in S PROVE k \in S
  <2>1. p[k] = tell(p[k - 1], rows[k]) /\ q[k] = tell(q[k - 1], rows[k])
    BY <1>1, <1>2 DEF Story
  <2> QED BY <1>3, <1>5, <2>1
<1>6. Len(rows) \in S
  <2> HIDE DEF S
  <2>1. 0 .. Len(rows) \subseteq S
    BY <1>3, <1>4, <1>5, CountingTo
  <2> QED BY <1>3, <2>1
<1> QED BY <1>1, <1>2, <1>6

LEMMA TellsNothingElse ==
    ASSUME NEW t, NEW u, Tells(<< >>, t, u)
    PROVE  u = t
<1>1. << >> \in Seq(Rows) /\ Tells(<< >>, t, t)
  BY TellsNothing
<1> QED BY <1>1, TellsOnce

LEMMA BlankCounted == Blank \in Digests /\ Counted(Blank)
<1>1. \A i \in ItemCodes : Blank.items[i] = 0
  BY BlankFields
<1>2. SumFunctionOnSet(Blank.items, ItemCodes) = 0
  BY <1>1, FiniteCodes, SumOfZeros
<1> QED BY <1>2, BlankFields, BlankTyped DEF Counted

\* It is a digest, whose pieces are counted.
LEMMA TellsCounted ==
    ASSUME NEW rows \in Seq(Rows), NEW u, Tells(rows, Blank, u)
    PROVE  u \in Digests /\ Counted(u)
<1> DEFINE G == {t \in Digests : Counted(t)}
<1>1. PICK s : Story(s, rows) /\ s[0] = Blank /\ s[Len(rows)] = u
  BY DEF Tells
<1>2. s[0] \in G
  BY <1>1, BlankCounted
<1>3. \A t \in G : \A k \in 1 .. Len(rows) : Fit(t, rows[k]) => tell(t, rows[k]) \in G
  BY TellCounted
<1>4. Len(rows) \in 0 .. Len(rows)
  OBVIOUS
<1>5. s[Len(rows)] \in G
  <2> HIDE DEF G
  <2> QED BY <1>1, <1>2, <1>3, <1>4, StoryHolds
<1> QED BY <1>1, <1>5

LEMMA MovedOnce ==
    ASSUME NEW t \in Digests, NEW u \in Digests, NEW v \in Digests, NEW by \in {-1, 1},
           SameCards(t, u), NoneMoved(u, v) \/ OneMoved(u, v, by)
    PROVE  /\ NoneMoved(t, u) => NoneMoved(t, v) \/ OneMoved(t, v, by)
           /\ NoneMoved(t, u) \/ OneMoved(t, u, by) => Moved(t, v, by)
<1>1. u.items \in [ItemCodes -> Nat]
  BY DigestFields
<1>2. NoneMoved(t, u) => NoneMoved(t, v) \/ OneMoved(t, v, by)
  BY DEF NoneMoved, OneMoved, SameCards
<1>3. ASSUME OneMoved(t, u, by), NoneMoved(u, v) PROVE OneMoved(t, v, by)
  BY <1>3 DEF NoneMoved, OneMoved
<1>4. ASSUME OneMoved(t, u, by), OneMoved(u, v, by) PROVE TwoMoved(t, v, by)
  BY <1>1, <1>4 DEF OneMoved, TwoMoved, SameCards
<1> QED BY <1>2, <1>3, <1>4 DEF Moved

\* Rows of at most two pieces move at most two pieces.
LEMMA PiecesMoveInOrder ==
    ASSUME NEW rows \in Seq(Rows), NEW t \in Digests, NEW u, Tells(rows, t, u),
           NEW action \in {"A", "V"}, NEW a \in Nat, NEW b \in Nat, a <= b,
           PieceRows(rows, action, a, b)
    PROVE  SameCards(t, u) /\ Moved(t, u, Signed(action))
<1>1. PICK s : Story(s, rows) /\ s[0] = t /\ s[Len(rows)] = u
  BY DEF Tells
<1>2. PICK by \in {-1, 1} : by = Signed(action)
  BY DEF Signed
<1> DEFINE S == {k \in 0 .. Len(rows) :
                    /\ s[k] \in Digests /\ SameCards(t, s[k])
                    /\ k < a => NoneMoved(t, s[k])
                    /\ k < b => NoneMoved(t, s[k]) \/ OneMoved(t, s[k], by)
                    /\ Moved(t, s[k], by)}
<1>3. Len(rows) \in Nat
  OBVIOUS
<1>4. 0 \in S
  BY <1>1, <1>3 DEF SameCards, NoneMoved, Moved
<1>5. ASSUME NEW k \in 1 .. Len(rows), k - 1 \in S PROVE k \in S
  <2>1. PICK p \in Digests : p = s[k - 1] /\ SameCards(t, p)
    BY <1>5
  <2>2. PICK r \in Rows : r = rows[k]
    OBVIOUS
  <2>3. PICK v : v = s[k] /\ v = tell(p, r) /\ Fit(p, r)
    BY <1>1, <2>1, <2>2 DEF Story
  <2>4. k \in 0 .. Len(rows) /\ (k < a => k - 1 < a) /\ (k < b => k - 1 < b)
        /\ (k = a => k - 1 < a /\ (k < b => k - 1 < b)) /\ (k = b => k - 1 < b)
    BY <1>3
  <2>5. CASE r.object = "K"
    <3>1. v \in Digests /\ SameCards(p, v) /\ NoneMoved(p, v)
      BY <2>3, <2>5, TellCopied
    <3>2. v.items = p.items /\ SameCards(t, v)
      BY <2>1, <3>1 DEF NoneMoved, SameCards
    <3> HIDE DEF S
    <3>3. /\ NoneMoved(t, p) => NoneMoved(t, v)
          /\ OneMoved(t, p, by) => OneMoved(t, v, by)
          /\ Moved(t, p, by) => Moved(t, v, by)
      BY <3>2 DEF NoneMoved, OneMoved, TwoMoved, Moved
    <3> QED BY <1>5, <2>1, <2>3, <2>4, <3>1, <3>2, <3>3 DEF S
  <2>6. CASE k \in {a, b} /\ r.object = "I" /\ r.action = action
    <3>1. v \in Digests /\ SameCards(p, v) /\ (NoneMoved(p, v) \/ OneMoved(p, v, by))
      BY <1>2, <2>3, <2>6, TellPiece
    <3>2. SameCards(t, v)
      BY <2>1, <3>1 DEF SameCards
    <3>3. /\ NoneMoved(t, p) => NoneMoved(t, v) \/ OneMoved(t, v, by)
          /\ NoneMoved(t, p) \/ OneMoved(t, p, by) => Moved(t, v, by)
      BY <2>1, <3>1, MovedOnce
    <3>4. /\ k - 1 < a => NoneMoved(t, p)
          /\ k - 1 < b => NoneMoved(t, p) \/ OneMoved(t, p, by)
      BY <1>5, <2>1
    <3>5. k - 1 < b /\ (k < b => k - 1 < a) /\ ~(k < a)
      BY <1>3, <2>6
    <3> QED BY <2>3, <2>4, <3>1, <3>2, <3>3, <3>4, <3>5
  <2> QED BY <2>2, <2>5, <2>6 DEF PieceRows
<1>6. Len(rows) \in S
  <2> HIDE DEF S
  <2>1. 0 .. Len(rows) \subseteq S
    BY <1>3, <1>4, <1>5, CountingTo
  <2> QED BY <1>3, <2>1
<1> QED BY <1>1, <1>2, <1>6

PiecesMoved(rows, action) == \E a, b \in Nat : PieceRows(rows, action, a, b)

LEMMA PiecesMove ==
    ASSUME NEW rows \in Seq(Rows), NEW t \in Digests, NEW u, Tells(rows, t, u),
           NEW action \in {"A", "V"}, PiecesMoved(rows, action)
    PROVE  SameCards(t, u) /\ Moved(t, u, Signed(action))
<1>1. PICK a \in Nat, b \in Nat : PieceRows(rows, action, a, b)
  BY DEF PiecesMoved
<1>2. PieceRows(rows, action, b, a)
  BY <1>1 DEF PieceRows
<1>3. a <= b \/ b <= a
  OBVIOUS
<1> QED BY <1>1, <1>2, <1>3, PiecesMoveInOrder

-----------------------------------------------------------------------------
(* The rows a request appends *)

NoPiece(rows) == \A k \in 1 .. Len(rows) : rows[k].object = "K"
OnePieceRow(rows, action) == \E a \in Nat : PieceRows(rows, action, a, a)

\* One row of a card, or the row of the void.
Single(rows) == \E r \in Rows : rows = <<r>> /\ r.object \in {"L", "C"}

\* The rows of one request, or the first of them.
Requested(rows) == Single(rows) \/ \E action \in {"A", "V"} : PiecesMoved(rows, action)

LEMMA NoRows ==
    ASSUME NEW action \in {"A", "V"}
    PROVE  NoPiece(<< >>) /\ OnePieceRow(<< >>, action) /\ PiecesMoved(<< >>, action)
BY DEF NoPiece, OnePieceRow, PiecesMoved, PieceRows

LEMMA RowOfPiece ==
    ASSUME NEW action \in {"A", "V"}, NEW b \in Barcodes
    PROVE  OnePieceRow(<<ItemRow(action, b)>>, action)
<1> DEFINE r == ItemRow(action, b)
<1>1. r.object = "I" /\ r.action = action
  BY DEF ItemRow
<1> HIDE DEF r
<1>2. PieceRows(<<r>>, action, 1, 1)
  BY <1>1 DEF PieceRows
<1> QED BY <1>2 DEF OnePieceRow, r

LEMMA RowsJoin ==
    ASSUME NEW p \in Seq(Rows), NEW q \in Seq(Rows), NEW action \in {"A", "V"}, OnePieceRow(q, action)
    PROVE  /\ NoPiece(p) => OnePieceRow(p \o q, action)
           /\ OnePieceRow(p, action) => PiecesMoved(p \o q, action)
<1>1. PICK b \in Nat : PieceRows(q, action, b, b)
  BY DEF OnePieceRow
<1> DEFINE rows == p \o q
           m == Len(p)
           n == Len(q)
<1>2. /\ m \in Nat /\ n \in Nat /\ Len(rows) = m + n
      /\ \A k \in 1 .. m : rows[k] = p[k]
      /\ \A k \in m + 1 .. m + n : rows[k] = q[k - m]
  BY Concatenation
<1> HIDE DEF rows, m, n
<1>3. ASSUME NEW k \in 1 .. Len(rows), k > m
      PROVE  rows[k].object = "K" \/ (k = b + m /\ rows[k].object = "I" /\ rows[k].action = action)
  <2>1. k \in m + 1 .. m + n /\ k - m \in 1 .. n
    BY <1>2, <1>3
  <2>2. rows[k] = q[k - m]
    BY <1>2, <2>1
  <2>3. \/ q[k - m].object = "K"
        \/ k - m = b /\ q[k - m].object = "I" /\ q[k - m].action = action
    BY <1>1, <2>1 DEF PieceRows, n
  <2> QED BY <1>2, <2>1, <2>2, <2>3
<1>4. \A k \in 1 .. Len(rows) : k > m \/ k \in 1 .. m
  BY <1>2
<1>5. ASSUME NoPiece(p) PROVE OnePieceRow(rows, action)
  <2>1. PieceRows(rows, action, b + m, b + m)
    BY <1>2, <1>3, <1>4, <1>5 DEF PieceRows, NoPiece, m
  <2> QED BY <1>2, <2>1 DEF OnePieceRow
<1>6. ASSUME OnePieceRow(p, action) PROVE PiecesMoved(rows, action)
  <2>1. PICK a \in Nat : PieceRows(p, action, a, a)
    BY <1>6 DEF OnePieceRow
  <2>2. PieceRows(rows, action, a, b + m)
    BY <1>2, <1>3, <1>4, <2>1 DEF PieceRows, m
  <2> QED BY <1>2, <2>1, <2>2 DEF PiecesMoved
<1> QED BY <1>5, <1>6 DEF rows

LEMMA OneIsEnough ==
    ASSUME NEW rows, NEW action \in {"A", "V"}, OnePieceRow(rows, action)
    PROVE  PiecesMoved(rows, action)
BY DEF OnePieceRow, PiecesMoved

\* The first rows of a request are rows of a request.
LEMMA RequestedPrefix ==
    ASSUME NEW rows \in Seq(Rows), Requested(rows), NEW k \in 1 .. Len(rows)
    PROVE  Requested(SubSeq(rows, 1, k))
<1> DEFINE first == SubSeq(rows, 1, k)
<1>1. k \in Nat /\ k <= Len(rows) /\ Len(first) = k /\ \A j \in 1 .. k : first[j] = rows[j]
  OBVIOUS
<1>2. CASE Single(rows)
  <2>1. PICK r \in Rows : rows = <<r>> /\ r.object \in {"L", "C"}
    BY <1>2 DEF Single
  <2>2. Len(rows) = 1 /\ k = 1
    BY <2>1
  <2>3. first = rows
    BY <2>2
  <2> QED BY <1>2, <2>3 DEF Requested
<1>3. CASE \E action \in {"A", "V"} : PiecesMoved(rows, action)
  <2>1. PICK action \in {"A", "V"} : PiecesMoved(rows, action)
    BY <1>3
  <2>2. PICK a \in Nat, b \in Nat : PieceRows(rows, action, a, b)
    BY <2>1 DEF PiecesMoved
  <2> HIDE DEF first
  <2>3. PieceRows(first, action, a, b)
    BY <1>1, <2>2 DEF PieceRows
  <2> QED BY <2>3 DEF PiecesMoved, Requested, first
<1> QED BY <1>2, <1>3 DEF Requested

LEMMA RememberRows ==
    ASSUME NEW c \in Carts, NEW item \in ItemCodes
    PROVE  NoPiece(remember(c, item).rows)
<1> DEFINE first == DeptRow(items_map[item].department)
           second == LocalRow(item, items_map[item].price)
<1>1. first.object = "K" /\ second.object = "K"
  BY DEF DeptRow, LocalRow
<1>2. remember(c, item).rows \in {<< >>, <<first, second>>}
  BY DEF remember, updateLocalItemMap, Journalled, Result
<1> HIDE DEF first, second
<1>3. NoPiece(<<first, second>>) /\ NoPiece(<< >>)
  BY <1>1 DEF NoPiece
<1> QED BY <1>2, <1>3

LEMMA AddRows ==
    ASSUME NEW c, NEW item, NEW row, NEW b \in Barcodes, NEW price, NEW discount
    PROVE  OnePieceRow(addItemByBarcode(c, item, row, b, price, discount).rows, "A")
<1>1. addItemByBarcode(c, item, row, b, price, discount).rows \in {<< >>, <<ItemRow("A", b)>>}
  BY DEF addItemByBarcode, Journalled, Result
<1>2. OnePieceRow(<<ItemRow("A", b)>>, "A") /\ OnePieceRow(<< >>, "A")
  BY RowOfPiece, NoRows
<1> QED BY <1>1, <1>2

LEMMA RemoveRows ==
    ASSUME NEW c, NEW item, NEW row, NEW b \in Barcodes, NEW price, NEW discount
    PROVE  OnePieceRow(removeItemByBarcode(c, item, row, b, price, discount).rows, "V")
<1> DEFINE r == removeItemByBarcode(c, item, row, b, price, discount)
<1>1. r.rows \in {<< >>, <<ItemRow("V", b)>>}
  BY DEF removeItemByBarcode, Journalled, Result
<1>2. OnePieceRow(<<ItemRow("V", b)>>, "V") /\ OnePieceRow(<< >>, "V")
  BY RowOfPiece, NoRows
<1> QED BY <1>1, <1>2

LEMMA ScanRows ==
    ASSUME NEW c \in Carts, NEW b \in Barcodes, decodeBarcode(b) # NoItem,
           items_map \in [ItemCodes -> ItemRows]
    PROVE  OnePieceRow(addScanned(c, b).rows, "A")
<1> DEFINE item == decodeBarcode(b)
           known == remember(c, item)
           price == getItemPrice(known.cart, item, items_map[item], b)
           discount == promoValue(item, price)
           added == addItemByBarcode(known.cart, item, items_map[item], b, price, discount)
<1>1. item \in ItemCodes /\ item \in Items
  BY DecodeBarcodeTyped DEF ItemCodes
<1>2. addScanned(c, b).rows = known.rows \o added.rows
  BY DEF addScanned, Result
<1> HIDE DEF item
<1>3. known.rows \in Seq(Rows) /\ known.cart \in Carts /\ NoPiece(known.rows)
  BY <1>1, RememberResult, RememberRows DEF ResultTyped
<1> HIDE DEF known
<1>4. price \in Int /\ items_map[item] \in ItemRows
  BY <1>1, <1>3, GetItemPriceInt
<1> HIDE DEF price
<1>5. discount \in Int
  BY <1>1, <1>4, PromoValueInt
<1> HIDE DEF discount
<1>6. added.rows \in Seq(Rows)
  BY <1>1, <1>3, <1>4, <1>5, AddItemResult DEF ResultTyped
<1>7. OnePieceRow(added.rows, "A")
  BY AddRows
<1> HIDE DEF added
<1> QED BY <1>2, <1>3, <1>6, <1>7, RowsJoin

LEMMA LinkedRows ==
    ASSUME NEW c \in Carts, NEW b \in Barcodes, items_map \in [ItemCodes -> ItemRows]
    PROVE  OnePieceRow(addLinked(c, b).rows, "A")
<1> DEFINE item == item_of[b]
           known == remember(c, item)
           added == addItemByBarcode(known.cart, item, items_map[item], b,
                                     items_map[item].price, 0)
<1>1. item \in ItemCodes
  BY DecodeBarcodeTyped
<1>2. addLinked(c, b).rows = known.rows \o added.rows
  BY DEF addLinked, Result
<1> HIDE DEF item
<1>3. known.rows \in Seq(Rows) /\ known.cart \in Carts /\ NoPiece(known.rows)
  BY <1>1, RememberResult, RememberRows DEF ResultTyped
<1> HIDE DEF known
<1>4. items_map[item] \in ItemRows /\ items_map[item].price \in Int
  BY <1>1 DEF ItemRows
<1>5. added.rows \in Seq(Rows)
  BY <1>1, <1>3, <1>4, AddItemResult DEF ResultTyped
<1>6. OnePieceRow(added.rows, "A")
  BY AddRows
<1> HIDE DEF added
<1> QED BY <1>2, <1>3, <1>5, <1>6, RowsJoin

LEMMA ItemAddRows ==
    ASSUME NEW c \in Carts, NEW b \in Barcodes, items_map \in [ItemCodes -> ItemRows]
    PROVE  Requested(itemAdd(c, b).rows)
<1> DEFINE item == decodeBarcode(b)
           linked == items_map[item].linked
           main == addScanned(c, b)
           pair == addLinked(main.cart, linked)
<1>0. PiecesMoved(<< >>, "A")
  BY NoRows
<1>1. CASE barcode_type[b] = "NOT_RECOGNIZED" \/ item = NoItem
  BY <1>0, <1>1 DEF itemAdd, Result, Requested
<1>2. CASE barcode_type[b] # "NOT_RECOGNIZED" /\ item # NoItem
  <2>1. main.rows \in Seq(Rows) /\ main.cart \in Carts /\ OnePieceRow(main.rows, "A")
    BY <1>2, AddScannedResult, ScanRows DEF ResultTyped
  <2>2. linked \in Barcodes \cup {NoBarcode}
    BY DecodeBarcodeTyped DEF ItemRows
  <2> HIDE DEF main, linked
  <2>3. CASE main.rc = RC_OK /\ linked # NoBarcode
    <3>1. pair.rows \in Seq(Rows) /\ OnePieceRow(pair.rows, "A")
      BY <2>1, <2>2, <2>3, AddLinkedResult, LinkedRows DEF ResultTyped
    <3>2. itemAdd(c, b).rows = main.rows \o pair.rows
      BY <1>2, <2>3 DEF itemAdd, andThen, Result, main, linked
    <3> HIDE DEF pair
    <3>3. PiecesMoved(itemAdd(c, b).rows, "A")
      BY <2>1, <3>1, <3>2, RowsJoin
    <3> QED BY <3>3 DEF Requested
  <2>4. CASE ~(main.rc = RC_OK /\ linked # NoBarcode)
    <3>1. itemAdd(c, b) = main
      BY <1>2, <2>4 DEF itemAdd, main, linked
    <3>2. PiecesMoved(main.rows, "A")
      BY <2>1, OneIsEnough
    <3> QED BY <3>1, <3>2 DEF Requested
  <2> QED BY <2>3, <2>4
<1> QED BY <1>1, <1>2

LEMMA ItemVoidRows ==
    ASSUME NEW c \in Carts, NEW b \in Barcodes, items_map \in [ItemCodes -> ItemRows]
    PROVE  Requested(itemVoid(c, b).rows)
<1> DEFINE item == decodeBarcode(b)
           row == items_map[item]
           price == getItemPrice(c, item, row, b)
           main == removeItemByBarcode(c, item, row, b, price, 0)
           other == item_of[row.linked]
           pair == removeItemByBarcode(main.cart, other, items_map[other], row.linked,
                                       items_map[other].price, 0)
<1>1. item \in ItemCodes /\ row \in ItemRows /\ row.linked \in Barcodes \cup {NoBarcode}
  BY DecodeBarcodeTyped DEF ItemRows
<1>2. itemVoid(c, b) = IF main.rc = RC_OK /\ row.linked # NoBarcode
                       THEN Result(pair.cart, main.rows \o pair.rows, main.rc)
                       ELSE main
  BY DEF itemVoid, andThen
<1> HIDE DEF item, row
<1>3. price \in Int
  BY <1>1, GetItemPriceInt
<1> HIDE DEF price
<1>4. main.rows \in Seq(Rows) /\ main.cart \in Carts
  BY <1>1, <1>3, RemoveItemResult DEF ResultTyped
<1>5. OnePieceRow(main.rows, "V")
  BY RemoveRows
<1> HIDE DEF main
<1>6. CASE main.rc = RC_OK /\ row.linked # NoBarcode
  <2>1. row.linked \in Barcodes /\ other \in ItemCodes
    BY <1>1, <1>6, DecodeBarcodeTyped
  <2> HIDE DEF other
  <2>2. items_map[other] \in ItemRows /\ items_map[other].price \in Int
    BY <2>1 DEF ItemRows
  <2>3. pair.rows \in Seq(Rows)
    BY <1>4, <2>1, <2>2, RemoveItemResult DEF ResultTyped
  <2>4. OnePieceRow(pair.rows, "V")
    BY <2>1, RemoveRows
  <2> HIDE DEF pair
  <2>5. itemVoid(c, b).rows = main.rows \o pair.rows
    <3>1. PICK r : r = Result(pair.cart, main.rows \o pair.rows, main.rc)
      OBVIOUS
    <3>2. itemVoid(c, b) = r
      BY <1>2, <1>6, <3>1
    <3>3. r.rows = main.rows \o pair.rows
      BY <3>1 DEF Result
    <3> QED BY <3>2, <3>3
  <2>6. PiecesMoved(itemVoid(c, b).rows, "V")
    BY <1>4, <1>5, <2>3, <2>4, <2>5, RowsJoin
  <2> QED BY <2>6 DEF Requested
<1>7. CASE ~(main.rc = RC_OK /\ row.linked # NoBarcode)
  <2>1. itemVoid(c, b) = main /\ PiecesMoved(main.rows, "V")
    BY <1>2, <1>5, <1>7, OneIsEnough
  <2> QED BY <2>1 DEF Requested
<1> QED BY <1>6, <1>7

LEMMA CardRows ==
    ASSUME NEW c, NEW n, carts_map[n] \in Carts, NEW card \in Cards
    PROVE  Requested(customerAdd(n, card).rows) /\ Requested(removeLoyCard(c, card).rows)
<1>1. Requested(<< >>)
  BY NoRows DEF Requested
<1>2. ASSUME NEW action \in {"A", "V"} PROVE Requested(<<CardRow(action, card)>>)
  <2>1. CardRow(action, card) \in Rows /\ CardRow(action, card).object = "L"
    BY DEF CardRow, Rows
  <2> QED BY <2>1 DEF Single, Requested
<1>3. \A d : Journalled(d, <<CardRow("A", card)>>) \in {<< >>, <<CardRow("A", card)>>}
  BY DEF Journalled
<1>4. \A d : Journalled(d, <<CardRow("V", card)>>) \in {<< >>, <<CardRow("V", card)>>}
  BY DEF Journalled
<1>5. \A d \in Carts : addLoyCard(d, card).rows \in {<< >>, <<CardRow("A", card)>>}
  <2> SUFFICES ASSUME NEW d \in Carts
               PROVE  addLoyCard(d, card).rows \in {<< >>, <<CardRow("A", card)>>}
    OBVIOUS
  <2>1. d.loy_cards_number \in Int /\ MaxCards \in Int
    BY CardsAssumption DEF Carts
  <2> QED BY <1>3, <2>1 DEF addLoyCard, Result
<1>6. removeLoyCard(c, card).rows \in {<< >>, <<CardRow("V", card)>>}
  BY <1>4 DEF removeLoyCard, Result
<1>7. Requested(customerAdd(n, card).rows)
  BY <1>1, <1>2, <1>5 DEF customerAdd, Result
<1> QED BY <1>1, <1>2, <1>6, <1>7

LEMMA VoidRows ==
    ASSUME NEW c, NEW rc
    PROVE  Requested(voidAllCart(c).rows) /\ Requested(Result(c, << >>, rc).rows)
<1>1. Requested(<< >>)
  BY NoRows DEF Requested
<1>2. Requested(<<VoidRow>>)
  <2>1. VoidRow \in Rows /\ VoidRow.object = "C"
    BY DEF VoidRow, Rows
  <2> QED BY <2>1 DEF Single, Requested
<1> QED BY <1>1, <1>2 DEF voidAllCart, Result

-----------------------------------------------------------------------------
(* What a request does to a digest *)

CardsTold(t) == {t.cards[k] : k \in CardIndexes} \ {NoCard}

\* Cards when one is shown, which may push another one out, or taken back.
OthersIn(held) == {held} \cup {held \ {other} : other \in held}
CardMoved(held, new, card) ==
    (\E others \in OthersIn(held) : new = others \cup {card}) \/ new = held \ {card}

\* Pieces move, or a card, or the session is voided.
PiecesStep(t, u) == SameCards(t, u) /\ \E by \in {-1, 1} : Moved(t, u, by)
CardStep(t, u) ==
    /\ t.open = TRUE /\ u.open = TRUE /\ u.items = t.items
    /\ \E card \in Cards : CardMoved(CardsTold(t), CardsTold(u), card)
VoidingStep(t, u) == t.open = TRUE /\ u.open = FALSE /\ u.items = t.items /\ u.cards = t.cards

DigestStep(t, u) == PiecesStep(t, u) \/ CardStep(t, u) \/ VoidingStep(t, u)

LEMMA NoStep ==
    ASSUME NEW t
    PROVE  DigestStep(t, t)
BY DEF DigestStep, PiecesStep, SameCards, Moved, NoneMoved

\* A card is stored where another one may be.
LEMMA CardStored ==
    ASSUME NEW old \in [CardIndexes -> Cards \cup {NoCard}], NEW at \in Int, NEW card \in Cards,
           NEW new, new = [old EXCEPT ![at] = card]
    PROVE  LET held(m) == {m[k] : k \in CardIndexes} \ {NoCard}
           IN  new = old \/ CardMoved(held(old), held(new), card)
<1> DEFINE held(m) == {m[k] : k \in CardIndexes} \ {NoCard}
<1>0. card # NoCard
  BY CardsAssumption
<1>1. CASE at \notin CardIndexes
  BY <1>1
<1>2. CASE at \in CardIndexes
  <2>1. new[at] = card /\ \A k \in CardIndexes \ {at} : new[k] = old[k]
    BY <1>2
  <2>2. CASE old[at] = NoCard \/ \E k \in CardIndexes \ {at} : old[k] = old[at]
    <3>1. held(new) = held(old) \cup {card}
      BY <1>0, <1>2, <2>1, <2>2
    <3> HIDE DEF held
    <3>2. CardMoved(held(old), held(new), card)
      BY <3>1 DEF CardMoved, OthersIn
    <3> QED BY <3>2 DEF held
  <2>3. CASE old[at] # NoCard /\ \A k \in CardIndexes \ {at} : old[k] # old[at]
    <3>1. held(new) = (held(old) \ {old[at]}) \cup {card} /\ old[at] \in held(old)
      BY <1>0, <1>2, <2>1, <2>3
    <3> HIDE DEF held
    <3>2. CardMoved(held(old), held(new), card)
      BY <3>1 DEF CardMoved, OthersIn
    <3> QED BY <3>2 DEF held
  <2> QED BY <2>2, <2>3
<1> QED BY <1>1, <1>2

LEMMA CardErased ==
    ASSUME NEW old \in [CardIndexes -> Cards \cup {NoCard}], NEW card \in Cards,
           NEW new, new = [k \in CardIndexes |-> IF old[k] = card THEN NoCard ELSE old[k]]
    PROVE  LET held(m) == {m[k] : k \in CardIndexes} \ {NoCard}
           IN  CardMoved(held(old), held(new), card)
<1> DEFINE held(m) == {m[k] : k \in CardIndexes} \ {NoCard}
<1>1. held(new) = held(old) \ {card}
  OBVIOUS
<1> HIDE DEF held
<1>2. CardMoved(held(old), held(new), card)
  BY <1>1 DEF CardMoved
<1> QED BY <1>2 DEF held

\* A row of a card, or the row of the void.
LEMMA TellSingle ==
    ASSUME NEW t \in Digests, NEW r \in Rows, r.object \in {"L", "C"}
    PROVE  DigestStep(t, tell(t, r))
<1>0. t.open \in BOOLEAN /\ t.cards \in [CardIndexes -> Cards \cup {NoCard}] /\ t.limit \in Int
  BY DigestFields
<1>1. CASE ~t.open
  <2>1. tell(t, r) = t
    BY <1>1 DEF tell
  <2> QED BY <2>1, NoStep
<1>2. CASE t.open /\ r.object = "C"
  <2>1. tell(t, r) = tellVoid(t)
    BY <1>2 DEF tell
  <2>2. VoidingStep(t, tellVoid(t))
    BY <1>0, <1>2 DEF VoidingStep, tellVoid, Digest
  <2> QED BY <2>1, <2>2 DEF DigestStep
<1>3. CASE t.open /\ r.object = "L"
  <2>1. r.code \in Cards /\ t.open = TRUE
    BY <1>0, <1>3 DEF Rows
  <2>2. PICK card \in Cards : card = r.code
    BY <2>1
  <2>3. tell(t, r) = IF r.action = "A" THEN tellCard(t, card) ELSE tellNoCard(t, card)
    BY <1>3, <2>2 DEF tell
  <2>4. CASE tell(t, r) = t
    BY <2>4, NoStep
  <2>5. CASE tell(t, r) # t
    <3>1. \E cards, limit :
              /\ \/ cards = [t.cards EXCEPT ![t.limit] = card]
                 \/ cards = [k \in CardIndexes |-> IF t.cards[k] = card THEN NoCard ELSE t.cards[k]]
              /\ tell(t, r) = Digest(t.open, t.items, t.barcodes, t.number, cards, limit,
                                     t.prices, t.pieces, t.gross)
      <4>1. CASE r.action = "A"
        BY <2>3, <2>5, <4>1 DEF tellCard
      <4>2. CASE r.action # "A"
        BY <2>3, <2>5, <4>2 DEF tellNoCard
      <4> QED BY <4>1, <4>2
    <3>2. PICK u : u = tell(t, r)
      OBVIOUS
    <3>3. /\ u.open = TRUE /\ u.items = t.items
          /\ \/ u.cards = [t.cards EXCEPT ![t.limit] = card]
             \/ u.cards = [k \in CardIndexes |-> IF t.cards[k] = card THEN NoCard ELSE t.cards[k]]
      BY <2>1, <3>1, <3>2 DEF Digest
    <3>4. u.cards = t.cards \/ CardMoved(CardsTold(t), CardsTold(u), card)
      <4>0. PICK old \in [CardIndexes -> Cards \cup {NoCard}] : old = t.cards
        BY <1>0
      <4>1. PICK new : old = t.cards /\ new = u.cards
        BY <4>0
      <4>2. new = old \/ CardMoved({old[k] : k \in CardIndexes} \ {NoCard},
                                   {new[k] : k \in CardIndexes} \ {NoCard}, card)
        BY <1>0, <3>3, <4>1, CardStored, CardErased
      <4> QED BY <4>1, <4>2 DEF CardsTold
    <3>5. CASE u.cards = t.cards
      <4>1. PiecesStep(t, u)
        BY <2>1, <3>3, <3>5 DEF PiecesStep, SameCards, Moved, NoneMoved
      <4> QED BY <3>2, <4>1 DEF DigestStep
    <3>6. CASE CardMoved(CardsTold(t), CardsTold(u), card)
      <4>1. CardStep(t, u)
        BY <2>1, <3>3, <3>6 DEF CardStep
      <4> QED BY <3>2, <4>1 DEF DigestStep
    <3> QED BY <3>4, <3>5, <3>6
  <2> QED BY <2>4, <2>5
<1> QED BY <1>1, <1>2, <1>3

\* The rows of a request, all of them or the first ones, are one step.
LEMMA RequestedStep ==
    ASSUME NEW rows \in Seq(Rows), NEW t \in Digests, NEW u, Tells(rows, t, u), Requested(rows)
    PROVE  DigestStep(t, u)
<1>1. CASE \E action \in {"A", "V"} : PiecesMoved(rows, action)
  <2>1. PICK action \in {"A", "V"} : PiecesMoved(rows, action)
    BY <1>1
  <2>2. SameCards(t, u) /\ Moved(t, u, Signed(action))
    BY <2>1, PiecesMove
  <2>3. Signed(action) \in {-1, 1}
    BY DEF Signed
  <2> QED BY <2>2, <2>3 DEF DigestStep, PiecesStep
<1>2. CASE Single(rows)
  <2>1. PICK r \in Rows : rows = <<r>> /\ r.object \in {"L", "C"}
    BY <1>2 DEF Single
  <2>2. PICK s : Story(s, rows) /\ s[0] = t /\ s[Len(rows)] = u
    BY DEF Tells
  <2>3. Len(rows) = 1 /\ rows[1] = r /\ 1 \in 1 .. Len(rows)
    BY <2>1
  <2>4. u = tell(t, r)
    BY <2>2, <2>3 DEF Story
  <2> QED BY <2>1, <2>4, TellSingle
<1> QED BY <1>1, <1>2 DEF Requested

-----------------------------------------------------------------------------
(* What a customer finds is what the file tells. *)

\* What a digest is to the customer.
Custom(t, known) ==
    [status |-> IF ~known THEN "new" ELSE IF t.open THEN "open" ELSE "voided",
     pieces |-> t.items,
     cards  |-> CardsTold(t)]

\* The library's sum, as the abstract specification names it.
LEMMA StoreSum == \A f : Store!SumFunction(f) = SumFunctionOnSet(f, DOMAIN f)
BY DEF Store!SumFunction, Store!SumFunctionOnSet, Store!FoldFunctionOnSet, Store!MapThenFoldSet,
       SumFunctionOnSet, FoldFunctionOnSet, MapThenFoldSet

LEMMA CustomerTold ==
    ASSUME NEW c, NEW known \in BOOLEAN,
           known => c.state \in {CART_STATE_READY_FOR_ITEM, CART_STATE_VOIDED}
    PROVE  Customer(c, known) = Custom(Told(c), known)
<1>1. /\ Told(c).open = AcceptsChanges(c) /\ Told(c).items = c.cart_items_map
      /\ Told(c).cards = c.loy_cards_map
  BY ToldFields
<1>2. CardsTold(Told(c)) = CardsOf(c)
  BY <1>1 DEF CardsTold, CardsOf
<1>3. CASE ~known
  BY <1>1, <1>2, <1>3 DEF Customer, Custom
<1>4. CASE known /\ c.state = CART_STATE_VOIDED
  BY <1>1, <1>2, <1>4, VoidedRefuses DEF Customer, Custom
<1>5. CASE known /\ c.state = CART_STATE_READY_FOR_ITEM
  <2>1. AcceptsChanges(c) /\ c.state # CART_STATE_VOIDED
    BY <1>5, ServingAccepts, VoidedRefuses
  <2> QED BY <1>1, <1>2, <1>5, <2>1 DEF Customer, Custom
<1> QED BY <1>3, <1>4, <1>5

\* Without a process: the cart a start would load.
LEMMA LoadedTold ==
    ASSUME NEW rows \in Seq(Rows), NEW t, Tells(rows, Blank, t), NEW known \in BOOLEAN,
           ArchiveKept(items_map), items_map \in [ItemCodes -> ItemRows]
    PROVE  Customer(ReplayedFrom(rows), known) = Custom(t, known)
<1>1. PICK s : Story(s, rows) /\ s[0] = Blank /\ s[Len(rows)] = t
  BY DEF Tells
<1>2. Len(rows) \in 0 .. Len(rows)
  OBVIOUS
<1>3. PICK c : c = Replay(rows)[Len(rows)]
  OBVIOUS
<1>4. /\ c \in Carts /\ Told(c) = t
      /\ c.state \in {CART_STATE_TMPFILE_LOADING, CART_STATE_VOIDED}
  BY <1>1, <1>2, <1>3, ReplayFollows
<1>5. PICK d : d = reopened(c)
  OBVIOUS
<1>6. Told(d) = t /\ d.state \in {CART_STATE_READY_FOR_ITEM, CART_STATE_VOIDED}
  BY <1>4, <1>5, ReopenedTold, ReopenedTyped
<1>7. ReplayedFrom(rows) = d
  BY <1>3, <1>5, ReplayIsLast
<1> QED BY <1>6, <1>7, CustomerTold

\* A number that no session has yet stands for an empty cart.
BlankInv ==
    \A n \in CartNumbers \ sessions : carts_map[n] = NewCart(CART_STATE_TMPFILE_LOADING)

LEMMA BlankStep ==
    ASSUME IInv, BlankInv, [Next]_vars
    PROVE  BlankInv'
<1> USE DEF memory, disk
<1>1. ASSUME EmptyMemory PROVE BlankInv'
  BY <1>1 DEF EmptyMemory, BlankInv, BlankCarts
<1>2. ASSUME NEW n \in CartNumbers, n \in sessions', sessions \subseteq sessions', NEW c,
             carts_map' = [carts_map EXCEPT ![n] = c]
      PROVE  BlankInv'
  <2>1. carts_map \in [CartNumbers -> Carts]
    BY DEF IInv, TypeOK
  <2>2. \A m \in CartNumbers \ {n} : carts_map'[m] = carts_map[m]
    BY <1>2, <2>1
  <2> QED BY <1>2, <2>2 DEF BlankInv
<1>3. ASSUME UNCHANGED <<carts_map, sessions>> PROVE BlankInv'
  BY <1>3 DEF BlankInv
<1>4. CASE Start \/ Crash
  BY <1>1, <1>4 DEF Start, Crash
<1>5. CASE StartServing \/ DumpItems \/ UNCHANGED vars
  BY <1>3, <1>5 DEF StartServing, DumpItems, vars
<1>6. CASE SessionInit
  <2>1. CASE next_cart_number \in sessions
    <3>1. carts_map' = carts_map /\ sessions' = sessions
      BY <1>6, <2>1 DEF SessionInit
    <3> QED BY <1>3, <3>1
  <2>2. CASE next_cart_number \notin sessions
    BY <1>2, <1>6, <2>2 DEF SessionInit
  <2> QED BY <2>1, <2>2
<1>7. ASSUME NEW n \in CartNumbers, OpenFile(n) PROVE BlankInv'
  BY <1>2, <1>7 DEF OpenFile
<1>8. ASSUME NEW n \in CartNumbers, LoadRow(n) \/ CloseFile(n) PROVE BlankInv'
  <2>1. n \in sessions /\ sessions' = sessions
    BY <1>8, BaseSystemAssumption DEF IInv, LoaderInv, LoadRow, CloseFile
  <2>2. \E c : carts_map' = [carts_map EXCEPT ![n] = c]
    BY <1>8 DEF LoadRow, CloseFile
  <2> QED BY <1>2, <2>1, <2>2
<1>9. ASSUME NEW n \in CartNumbers, NEW r, Handle(n, r) PROVE BlankInv'
  <2>1. n \in sessions /\ sessions' = sessions /\ carts_map' = [carts_map EXCEPT ![n] = r.cart]
    BY <1>9 DEF Handle, Serves
  <2> QED BY <1>2, <2>1
<1>10. ASSUME NEW n \in CartNumbers, NEW r, DieWhile(n, r) PROVE BlankInv'
  BY <1>1, <1>10 DEF DieWhile
<1>11. ASSUME NEW rc, StoreQuery(rc) PROVE BlankInv'
  BY <1>3, <1>11 DEF StoreQuery
<1>12. ASSUME NEW v \in Variations, Variation(v) PROVE BlankInv'
  BY <1>3, <1>12 DEF Variation
<1>13. ASSUME NEW till \in Tills, TillReads(till) PROVE BlankInv'
  BY <1>3, <1>13 DEF TillReads
<1>14. TypeOK
  BY DEF IInv
<1> QED BY <1>4, <1>5, <1>6, <1>7, <1>8, <1>9, <1>10, <1>11, <1>12, <1>13, <1>14, StepCases

LEMMA BlankHolds == Spec => []BlankInv
<1>1. Init => BlankInv
  BY DEF Init, BlankInv, BlankCarts
<1>2. IInv /\ BlankInv /\ [Next]_vars => BlankInv'
  BY BlankStep
<1> QED BY <1>1, <1>2, Inductive, PTL DEF Spec

\* What the view shows of a session after a step.
LEMMA ShownNext ==
    ASSUME ArchiveKept(items_map), items_map \in [ItemCodes -> ItemRows],
           IInv', TaleInv', BlankInv', NEW n \in CartNumbers,
           NEW t, Tells(journal'[n], Blank, t)
    PROVE  View(mode' = "running", n, carts_map', journal', files') = Custom(t, n \in files')
<1>0. journal'[n] \in Seq(Rows) /\ (n \in files') \in BOOLEAN
  BY DEF IInv, TypeOK
<1>1. CASE mode' # "running"
  <2>1. View(mode' = "running", n, carts_map', journal', files')
            = Customer(ReplayedFrom(journal'[n]), n \in files')
    BY <1>1 DEF View
  <2> QED BY <1>0, <2>1, LoadedTold
<1>2. CASE mode' = "running"
  <2>1. View(mode' = "running", n, carts_map', journal', files')
            = Customer(carts_map'[n], n \in files')
    BY <1>2 DEF View
  <2>2. sessions' = files'
    BY <1>2 DEF IInv, LoaderInv, SessionIdsFresh
  <2>3. CASE n \in sessions'
    <3>1. carts_map'[n].state \in {CART_STATE_READY_FOR_ITEM, CART_STATE_VOIDED}
      BY <1>2, <2>3 DEF IInv, VoidInv, Settled
    <3>2. Tells(journal'[n], Blank, Told(carts_map'[n]))
      BY <1>2, <2>3 DEF TaleInv
    <3>3. Told(carts_map'[n]) = t
      BY <1>0, <3>2, TellsOnce
    <3> QED BY <1>0, <2>1, <3>1, <3>3, CustomerTold
  <2>4. CASE n \notin sessions'
    <3>1. carts_map'[n] = NewCart(CART_STATE_TMPFILE_LOADING)
      BY <2>4 DEF BlankInv
    <3>2. Told(carts_map'[n]) = Blank
      BY <3>1, BlankTold
    <3>3. journal'[n] = << >>
      BY <2>2, <2>4 DEF IInv, VoidInv
    <3>4. Tells(<< >>, Blank, t)
      BY <3>3
    <3>5. t = Blank
      BY <3>4, TellsNothingElse
    <3> QED BY <1>0, <2>1, <2>2, <2>4, <3>2, <3>5, CustomerTold
  <2> QED BY <2>3, <2>4
<1> QED BY <1>1, <1>2

\* The view shows what the files tell.
ViewInv ==
    /\ view = [n \in CartNumbers |-> view[n]]
    /\ \A n \in CartNumbers : \A t : Tells(journal[n], Blank, t) => view[n] = Custom(t, n \in files)

\* What the steps below rest on.
AllInv == IInv /\ TaleInv /\ BlankInv /\ ViewInv

LEMMA InitView ==
    ASSUME ViewInit
    PROVE  ViewInv /\ \A n \in CartNumbers : view[n] = Custom(Blank, FALSE)
<1>1. /\ Init /\ view = [n \in CartNumbers |-> View(FALSE, n, carts_map, journal, files)]
      /\ files = {} /\ \A n \in CartNumbers : journal[n] = << >>
  BY DEF ViewInit, Init
<1>2. ArchiveKept(items_map) /\ items_map \in [ItemCodes -> ItemRows]
  BY <1>1, InitTale, InitIInv DEF TaleInv, IInv, TypeOK
<1>3. << >> \in Seq(Rows)
  OBVIOUS
<1>4. ASSUME NEW n \in CartNumbers PROVE view[n] = Custom(Blank, FALSE)
  <2>1. view[n] = Customer(ReplayedFrom(<< >>), n \in files)
    BY <1>1 DEF View
  <2>2. (n \in files) = FALSE
    BY <1>1
  <2> QED BY <1>2, <1>3, <2>1, <2>2, TellsNothing, LoadedTold
<1>5. ASSUME NEW n \in CartNumbers, NEW t, Tells(journal[n], Blank, t)
      PROVE  view[n] = Custom(t, n \in files)
  <2>1. Tells(<< >>, Blank, t)
    BY <1>1, <1>5
  <2>3. t = Blank
    BY <2>1, TellsNothingElse
  <2>2. (n \in files) = FALSE
    BY <1>1
  <2> QED BY <1>4, <2>2, <2>3
<1>6. view = [n \in CartNumbers |-> view[n]]
  BY <1>1
<1> QED BY <1>4, <1>5, <1>6 DEF ViewInv

LEMMA ViewStep ==
    ASSUME IInv, TaleInv, IInv', TaleInv', BlankInv', ViewNext
    PROVE  ViewInv'
<1>1. view' = [n \in CartNumbers |-> View(mode' = "running", n, carts_map', journal', files')]
  BY DEF ViewNext
<1>2. ArchiveKept(items_map) /\ items_map \in [ItemCodes -> ItemRows]
  BY DEF TaleInv, IInv, TypeOK
<1>3. \A n \in CartNumbers : \A t : Tells(journal'[n], Blank, t) => view'[n] = Custom(t, n \in files')
  BY <1>1, <1>2, ShownNext
<1>4. view' = [n \in CartNumbers |-> view'[n]]
  BY <1>1
<1> QED BY <1>3, <1>4 DEF ViewInv

-----------------------------------------------------------------------------
(* The steps of the system, by what they do to the files *)

\* A request of one step, on a session in service.
OneStep(n, r) ==
    /\ n \in sessions /\ mode = "running"
    /\ ResultTyped(r) /\ Truthful(carts_map[n], r) /\ Requested(r.rows)

LEMMA OneStepOf ==
    ASSUME IInv, TaleInv, PlainLinks, NEW n \in sessions, mode = "running"
    PROVE  /\ \A b \in Barcodes : /\ OneStep(n, itemAdd(carts_map[n], b))
                                  /\ OneStep(n, itemVoid(carts_map[n], b))
           /\ \A card \in Cards : /\ OneStep(n, customerAdd(n, card))
                                  /\ OneStep(n, removeLoyCard(carts_map[n], card))
           /\ OneStep(n, voidAllCart(carts_map[n]))
           /\ \A rc \in Nat : OneStep(n, Result(carts_map[n], << >>, rc))
<1>0. /\ TypeOK /\ n \in CartNumbers
      /\ carts_map[n] \in Carts /\ items_map \in [ItemCodes -> ItemRows]
  BY DEF IInv, TypeOK
<1>1. ASSUME NEW b \in Barcodes
      PROVE  OneStep(n, itemAdd(carts_map[n], b)) /\ OneStep(n, itemVoid(carts_map[n], b))
  BY <1>0, ItemRequest, ItemTale, ItemAddRows, ItemVoidRows DEF OneStep, RequestResult
<1>2. ASSUME NEW card \in Cards
      PROVE  OneStep(n, customerAdd(n, card)) /\ OneStep(n, removeLoyCard(carts_map[n], card))
  BY <1>0, CardRequest, CardTale, CardRows DEF OneStep, RequestResult
<1>3. OneStep(n, voidAllCart(carts_map[n]))
  BY <1>0, StateRequest, StateTale, VoidRows DEF OneStep, RequestResult
<1>4. ASSUME NEW rc \in Nat PROVE OneStep(n, Result(carts_map[n], << >>, rc))
  BY <1>0, StateRequest, StateTale, VoidRows DEF OneStep, RequestResult
<1> QED BY <1>1, <1>2, <1>3, <1>4

LEMMA ServedStep ==
    ASSUME IInv, TaleInv, PlainLinks, NEW n \in CartNumbers, CartRequest(n)
    PROVE  \/ \E till \in Tills : SessionEnd(n, till)
           \/ \E r : OneStep(n, r) /\ Handle(n, r) /\ UNCHANGED scan_in
<1>1. ASSUME NEW r, Handle(n, r) PROVE mode = "running" /\ n \in sessions
  BY <1>1 DEF Handle, Serves
<1>2. ASSUME NEW b \in Barcodes, ItemAdd(n, b) \/ ItemVoid(n, b)
      PROVE  \E r : OneStep(n, r) /\ Handle(n, r) /\ UNCHANGED scan_in
  BY <1>1, <1>2, OneStepOf DEF ItemAdd, ItemVoid
<1>3. ASSUME NEW card \in Cards, CustomerAdd(n, card) \/ CustomerVoid(n, card)
      PROVE  \E r : OneStep(n, r) /\ Handle(n, r) /\ UNCHANGED scan_in
  <2>1. CASE CustomerAdd(n, card)
    BY <1>1, <2>1, OneStepOf DEF CustomerAdd
  <2>2. CASE CustomerVoid(n, card)
    <3>1. Handle(n, removeLoyCard(carts_map[n], card)) /\ UNCHANGED scan_in
      BY <2>2 DEF CustomerVoid
    <3> QED BY <1>1, <3>1, OneStepOf
  <2> QED BY <1>3, <2>1, <2>2
<1>4. CASE SessionVoid(n)
  BY <1>1, <1>4, OneStepOf DEF SessionVoid
<1>5. CASE CartQuery(n)
  <2>1. RC_OK \in Nat /\ Handle(n, Result(carts_map[n], << >>, RC_OK)) /\ UNCHANGED scan_in
    BY <1>5 DEF CartQuery, ManageRescan, GetTotals, GetAllCart, CartAnswers, RC_OK
  <2> QED BY <1>1, <2>1, OneStepOf
<1> QED BY <1>2, <1>3, <1>4, <1>5 DEF CartRequest

LEMMA DyingStep ==
    ASSUME IInv, TaleInv, PlainLinks, DieInRequest
    PROVE  \E n \in CartNumbers : \E r : OneStep(n, r) /\ DieWhile(n, r)
<1>1. ASSUME NEW n, NEW r, DieWhile(n, r) PROVE mode = "running" /\ n \in sessions
  BY <1>1 DEF DieWhile, Serves
<1>2. PICK n \in CartNumbers :
        \/ \E b \in Barcodes : DieWhile(n, itemAdd(carts_map[n], b))
        \/ \E b \in Barcodes : DieWhile(n, itemVoid(carts_map[n], b))
        \/ \E card \in Cards : DieWhile(n, customerAdd(n, card))
        \/ \E card \in Cards : DieWhile(n, removeLoyCard(carts_map[n], card))
        \/ DieWhile(n, voidAllCart(carts_map[n]))
  BY DEF DieInRequest
<1>3. mode = "running" /\ n \in sessions
  BY <1>1, <1>2
<1> QED BY <1>2, <1>3, OneStepOf

\* A step that leaves files and baskets alone.
Aside == UNCHANGED <<files, journal, scan_in>>

LEMMA ShownCases ==
    ASSUME IInv, TaleInv, PlainLinks, [Next]_vars
    PROVE  \/ Aside
           \/ \E till \in Tills : TillReads(till)
           \/ SessionInit
           \/ \E n \in CartNumbers : \E till \in Tills : SessionEnd(n, till)
           \/ \E n \in CartNumbers : \E r : OneStep(n, r) /\ Handle(n, r) /\ UNCHANGED scan_in
           \/ \E n \in CartNumbers : \E r : OneStep(n, r) /\ DieWhile(n, r)
<1> USE DEF memory, disk
<1>1. CASE Start \/ Crash \/ DumpItems \/ UNCHANGED vars
  BY <1>1 DEF Start, Crash, DumpItems, vars, Aside
<1>2. CASE Loading
  BY <1>2 DEF Loading, StartServing, OpenFile, LoadRow, CloseFile, Aside
<1>3. CASE \E v \in Variations : Variation(v)
  BY <1>3 DEF Variation, Aside
<1>4. CASE Request
  <2>1. ASSUME NEW rc, StoreQuery(rc) PROVE Aside
    BY <2>1 DEF StoreQuery, Aside
  <2>2. ASSUME NEW n \in CartNumbers, CartNotFound(n) PROVE Aside
    BY <2>1, <2>2 DEF CartNotFound
  <2>3. ASSUME (\E b \in Barcodes : ItemInfo(b)) \/ NotRecognized \/ StoreInfo PROVE Aside
    BY <2>1, <2>3 DEF ItemInfo, NotRecognized, StoreInfo
  <2> QED BY <1>4, <2>2, <2>3, ServedStep DEF Request
<1>5. CASE DieInRequest
  BY <1>5, DyingStep
<1>6. CASE \E till \in Tills : TillReads(till)
  BY <1>6
<1> QED BY <1>1, <1>2, <1>3, <1>4, <1>5, <1>6 DEF Next

-----------------------------------------------------------------------------
(* The steps of the store *)

Statuses == [n \in CartNumbers |-> view[n].status]
PiecesHeld == [n \in CartNumbers |-> view[n].pieces]
CardsHeld == [n \in CartNumbers |-> view[n].cards]
BasketsSent ==
    [t \in Tills |-> IF scan_in[t] = NoBasket THEN NoBasket
                     ELSE [session |-> scan_in[t].session, pieces |-> scan_in[t].items_number]]

\* One session changes.
OnlyChanges(n) == \A m \in CartNumbers \ {n} : view'[m] = view[m]

LEMMA Columns ==
    ASSUME NEW n \in CartNumbers, OnlyChanges(n)
    PROVE  /\ Statuses[n] = view[n].status /\ PiecesHeld[n] = view[n].pieces
           /\ CardsHeld[n] = view[n].cards
           /\ Statuses' = [Statuses EXCEPT ![n] = view'[n].status]
           /\ PiecesHeld' = [PiecesHeld EXCEPT ![n] = view'[n].pieces]
           /\ CardsHeld' = [CardsHeld EXCEPT ![n] = view'[n].cards]
BY DEF Statuses, PiecesHeld, CardsHeld, OnlyChanges

LEMMA SameColumns ==
    ASSUME NEW n \in CartNumbers, OnlyChanges(n)
    PROVE  /\ view'[n].status = view[n].status => Statuses' = Statuses
           /\ view'[n].pieces = view[n].pieces => PiecesHeld' = PiecesHeld
           /\ view'[n].cards = view[n].cards => CardsHeld' = CardsHeld
BY DEF Statuses, PiecesHeld, CardsHeld, OnlyChanges

\* A session is handled, and the process may die of it.
Served(n) ==
    /\ n \in CartNumbers /\ OnlyChanges(n)
    /\ mode = "running" /\ BasketsSent' = BasketsSent

LEMMA StoreStutters ==
    ASSUME UNCHANGED <<Statuses, PiecesHeld, CardsHeld, BasketsSent>>
    PROVE  [Store!Next]_(Store!vars)
<1>1. (mode = "running") \in BOOLEAN /\ (mode' = "running") \in BOOLEAN
  OBVIOUS
<1>2. CASE (mode' = "running") = (mode = "running")
  BY <1>2 DEF Store!vars, Statuses, PiecesHeld, CardsHeld, BasketsSent
<1>3. CASE (mode' = "running") = ~(mode = "running")
  BY <1>3 DEF Store!Next, Statuses, PiecesHeld, CardsHeld, BasketsSent
<1> QED BY <1>1, <1>2, <1>3

LEMMA StoreVoids ==
    ASSUME NEW n, Served(n), view[n].status = "open", view'[n].status = "voided",
           view'[n].pieces = view[n].pieces, view'[n].cards = view[n].cards
    PROVE  Store!Next
<1>1. /\ Statuses[n] = "open" /\ Statuses' = [Statuses EXCEPT ![n] = "voided"]
      /\ PiecesHeld' = PiecesHeld /\ CardsHeld' = CardsHeld /\ BasketsSent' = BasketsSent
      /\ n \in CartNumbers /\ mode = "running"
  BY Columns, SameColumns DEF Served
<1>2. Store!Void(n)
  BY <1>1 DEF Store!Void, Statuses, PiecesHeld, CardsHeld, BasketsSent
<1>3. Store!Serve
  BY <1>1, <1>2 DEF Store!Serve
<1> QED BY <1>1, <1>3 DEF Store!Next

LEMMA StoreMovesCard ==
    ASSUME NEW n, Served(n), view[n].status = "open", view'[n].status = "open",
           view'[n].pieces = view[n].pieces,
           NEW card \in Cards, CardMoved(view[n].cards, view'[n].cards, card)
    PROVE  Store!Next
<1>1. /\ Statuses[n] = "open" /\ Statuses' = Statuses /\ PiecesHeld' = PiecesHeld
      /\ CardsHeld[n] = view[n].cards /\ CardsHeld' = [CardsHeld EXCEPT ![n] = view'[n].cards]
      /\ BasketsSent' = BasketsSent /\ n \in CartNumbers /\ mode = "running"
  BY Columns, SameColumns DEF Served
<1>2. \/ \E others \in {CardsHeld[n]} \cup {CardsHeld[n] \ {other} : other \in CardsHeld[n]} :
             CardsHeld' = [CardsHeld EXCEPT ![n] = others \cup {card}]
      \/ CardsHeld' = [CardsHeld EXCEPT ![n] = @ \ {card}]
  BY <1>1 DEF CardMoved, OthersIn
<1>3. Store!MoveCard(n, card)
  BY <1>1, <1>2 DEF Store!MoveCard, Statuses, PiecesHeld, CardsHeld, BasketsSent
<1>4. Store!Serve
  BY <1>1, <1>3 DEF Store!Serve
<1> QED BY <1>1, <1>4 DEF Store!Next

LEMMA StoreMovesPieces ==
    ASSUME NEW n, Served(n), view[n].status = "open", view'[n].status = "open",
           view'[n].cards = view[n].cards, NEW by \in {-1, 1},
           view[n].pieces \in [ItemCodes -> Nat],
           \/ OnePiece(view[n].pieces, view'[n].pieces, by)
           \/ \E m \in [ItemCodes -> Nat] :
                 OnePiece(view[n].pieces, m, by) /\ OnePiece(m, view'[n].pieces, by)
    PROVE  Store!Next
<1>1. /\ Statuses[n] = "open" /\ Statuses' = Statuses /\ CardsHeld' = CardsHeld
      /\ PiecesHeld[n] = view[n].pieces
      /\ PiecesHeld' = [PiecesHeld EXCEPT ![n] = view'[n].pieces]
      /\ BasketsSent' = BasketsSent /\ n \in CartNumbers /\ mode = "running"
  BY Columns, SameColumns DEF Served
<1>2. \E i \in ItemCodes :
          /\ PiecesHeld[n][i] + by >= 0
          /\ \/ PiecesHeld' = [PiecesHeld EXCEPT ![n] = Store!Move(@, i, by)]
             \/ \E deposit \in ItemCodes :
                   /\ Store!Move(PiecesHeld[n], i, by)[deposit] + by >= 0
                   /\ PiecesHeld' = [PiecesHeld EXCEPT ![n] =
                                        Store!Move(Store!Move(@, i, by), deposit, by)]
  <2>1. CASE OnePiece(view[n].pieces, view'[n].pieces, by)
    BY <1>1, <2>1 DEF OnePiece, Store!Move
  <2>2. CASE \E m \in [ItemCodes -> Nat] :
                OnePiece(view[n].pieces, m, by) /\ OnePiece(m, view'[n].pieces, by)
    <3>1. PICK m \in [ItemCodes -> Nat] :
              OnePiece(view[n].pieces, m, by) /\ OnePiece(m, view'[n].pieces, by)
      BY <2>2
    <3>2. PICK i \in ItemCodes : PiecesHeld[n][i] + by >= 0 /\ m = Store!Move(PiecesHeld[n], i, by)
      BY <1>1, <3>1 DEF OnePiece, Store!Move
    <3>3. PICK deposit \in ItemCodes :
              m[deposit] + by >= 0 /\ view'[n].pieces = Store!Move(m, deposit, by)
      BY <3>1 DEF OnePiece, Store!Move
    <3>4. PiecesHeld' = [PiecesHeld EXCEPT ![n] = Store!Move(Store!Move(@, i, by), deposit, by)]
      BY <1>1, <3>2, <3>3
    <3> QED BY <3>2, <3>3, <3>4
  <2> QED BY <2>1, <2>2
<1>3. Store!MovePieces(n, by)
  BY <1>1, <1>2 DEF Store!MovePieces, Statuses, PiecesHeld, CardsHeld, BasketsSent
<1>4. Store!Serve
  BY <1>1, <1>3 DEF Store!Serve
<1> QED BY <1>1, <1>4 DEF Store!Next

LEMMA StoreBegins ==
    ASSUME NEW n, Served(n), view[n].status = "new", view'[n].status = "open",
           view'[n].pieces = view[n].pieces, view'[n].cards = view[n].cards,
           \A m \in CartNumbers : view[m].status # "new" => m < n
    PROVE  Store!Next
<1>1. /\ Statuses[n] = "new" /\ Statuses' = [Statuses EXCEPT ![n] = "open"]
      /\ PiecesHeld' = PiecesHeld /\ CardsHeld' = CardsHeld /\ BasketsSent' = BasketsSent
      /\ n \in CartNumbers /\ mode = "running"
  BY Columns, SameColumns DEF Served
<1>2. \A m \in CartNumbers : Statuses[m] # "new" => m < n
  BY DEF Statuses
<1>3. Store!Begin(n)
  BY <1>1, <1>2 DEF Store!Begin, Statuses, PiecesHeld, CardsHeld, BasketsSent
<1>4. Store!Serve
  BY <1>1, <1>3 DEF Store!Serve
<1> QED BY <1>1, <1>4 DEF Store!Next

LEMMA StoreSends ==
    ASSUME NEW n \in CartNumbers, NEW till \in Tills, mode = "running",
           UNCHANGED <<Statuses, PiecesHeld, CardsHeld>>, view[n].status = "open",
           BasketsSent' = [BasketsSent EXCEPT ![till] =
               [session |-> n, pieces |-> SumFunctionOnSet(view[n].pieces, ItemCodes)]],
           DOMAIN view[n].pieces = ItemCodes
    PROVE  Store!Next
<1>1. /\ Statuses[n] = "open" /\ PiecesHeld[n] = view[n].pieces
      /\ Statuses' = Statuses /\ PiecesHeld' = PiecesHeld /\ CardsHeld' = CardsHeld
  BY DEF Statuses, PiecesHeld
<1>2. SumFunctionOnSet(view[n].pieces, ItemCodes) = Store!SumFunction(PiecesHeld[n])
  BY <1>1, StoreSum
<1>3. BasketsSent' = [BasketsSent EXCEPT ![till] =
                         [session |-> n, pieces |-> Store!SumFunction(PiecesHeld[n])]]
  BY <1>2
<1>4. Store!Send(n, till)
  BY <1>1, <1>3 DEF Store!Send, Statuses, PiecesHeld, CardsHeld, BasketsSent
<1>5. Store!Serve
  BY <1>4 DEF Store!Serve
<1> QED BY <1>5 DEF Store!Next

LEMMA StoreTakes ==
    ASSUME NEW till \in Tills, mode' = mode, UNCHANGED <<Statuses, PiecesHeld, CardsHeld>>,
           BasketsSent' = [BasketsSent EXCEPT ![till] = NoBasket]
    PROVE  Store!Next
<1>1. Statuses' = Statuses /\ PiecesHeld' = PiecesHeld /\ CardsHeld' = CardsHeld
  OBVIOUS
<1>2. Store!Take(till)
  BY <1>1 DEF Store!Take, Statuses, PiecesHeld, CardsHeld, BasketsSent
<1> QED BY <1>2 DEF Store!Next

\* A step on digests is a step of the store, or none.
LEMMA StoreFollows ==
    ASSUME NEW n, Served(n), NEW t \in Digests, NEW u, DigestStep(t, u),
           view[n] = Custom(t, TRUE), view'[n] = Custom(u, TRUE)
    PROVE  [Store!Next]_(Store!vars)
<1>1. /\ view[n].status = (IF t.open THEN "open" ELSE "voided")
      /\ view'[n].status = (IF u.open THEN "open" ELSE "voided")
      /\ view[n].pieces = t.items /\ view'[n].pieces = u.items
      /\ view[n].cards = CardsTold(t) /\ view'[n].cards = CardsTold(u)
      /\ t.items \in [ItemCodes -> Nat]
  BY DigestFields DEF Custom
<1>2. CASE VoidingStep(t, u)
  <2>1. view'[n].cards = view[n].cards
    BY <1>1, <1>2 DEF VoidingStep, CardsTold
  <2> QED BY <1>1, <1>2, <2>1, StoreVoids DEF VoidingStep
<1>3. CASE CardStep(t, u)
  BY <1>1, <1>3, StoreMovesCard DEF CardStep
<1>4. CASE PiecesStep(t, u)
  <2>1. PICK by \in {-1, 1} : Moved(t, u, by)
    BY <1>4 DEF PiecesStep
  <2>2. view'[n].status = view[n].status /\ view'[n].cards = view[n].cards
    BY <1>1, <1>4 DEF PiecesStep, SameCards, CardsTold
  <2>3. CASE NoneMoved(t, u)
    <3>1. view'[n].pieces = view[n].pieces
      BY <1>1, <2>3 DEF NoneMoved
    <3> QED BY <2>2, <3>1, SameColumns, StoreStutters DEF Served
  <2>4. CASE OneMoved(t, u, by) \/ TwoMoved(t, u, by)
    <3>1. view[n].status = "open"
      BY <1>1, <2>4 DEF OneMoved, TwoMoved
    <3>2. \/ OnePiece(view[n].pieces, view'[n].pieces, by)
          \/ \E m \in [ItemCodes -> Nat] :
                OnePiece(view[n].pieces, m, by) /\ OnePiece(m, view'[n].pieces, by)
      BY <1>1, <2>4 DEF OneMoved, TwoMoved
    <3> QED BY <1>1, <2>2, <3>1, <3>2, StoreMovesPieces
  <2> QED BY <2>1, <2>3, <2>4 DEF Moved
<1> QED BY <1>2, <1>3, <1>4 DEF DigestStep

LEMMA SameFiles ==
    ASSUME TaleInv, ViewInv, ViewInv', files' = files, journal' = journal
    PROVE  view' = view
<1>1. ASSUME NEW n \in CartNumbers PROVE view'[n] = view[n]
  <2>1. PICK t : Tells(journal[n], Blank, t)
    BY DEF TaleInv
  <2> QED BY <2>1 DEF ViewInv
<1>2. view = [n \in CartNumbers |-> view[n]] /\ view' = [n \in CartNumbers |-> view'[n]]
  BY DEF ViewInv
<1> QED BY <1>1, <1>2

\* The rows of one session, or whether it has a file, change.
LEMMA OneFile ==
    ASSUME TaleInv, ViewInv, ViewInv', NEW n,
           \A m \in CartNumbers \ {n} : journal'[m] = journal[m] /\ (m \in files' <=> m \in files)
    PROVE  OnlyChanges(n)
<1> SUFFICES ASSUME NEW m \in CartNumbers \ {n} PROVE view'[m] = view[m]
  BY DEF OnlyChanges
<1>1. PICK t : Tells(journal[m], Blank, t)
  BY DEF TaleInv
<1>2. journal'[m] = journal[m] /\ (m \in files') = (m \in files)
  OBVIOUS
<1>3. view[m] = Custom(t, m \in files)
  BY <1>1 DEF ViewInv
<1>4. view'[m] = Custom(t, m \in files')
  BY <1>1, <1>2 DEF ViewInv
<1> QED BY <1>2, <1>3, <1>4

\* What a session in service is to its customer.
LEMMA InService ==
    ASSUME AllInv, mode = "running", NEW n \in sessions
    PROVE  /\ n \in CartNumbers /\ n \in files /\ journal[n] \in Seq(Rows)
           /\ Tells(journal[n], Blank, Told(carts_map[n]))
           /\ Told(carts_map[n]) \in Digests /\ Counted(Told(carts_map[n]))
           /\ view[n] = Custom(Told(carts_map[n]), TRUE)
<1>1. /\ n \in CartNumbers /\ n \in files /\ journal[n] \in Seq(Rows)
      /\ Tells(journal[n], Blank, Told(carts_map[n]))
  BY DEF AllInv, IInv, TypeOK, LoaderInv, SessionIdsFresh, TaleInv
<1>2. Told(carts_map[n]) \in Digests /\ Counted(Told(carts_map[n]))
  BY <1>1, TellsCounted
<1>3. view[n] = Custom(Told(carts_map[n]), n \in files)
  BY <1>1 DEF AllInv, ViewInv
<1>4. (n \in files) = TRUE
  BY <1>1
<1> QED BY <1>1, <1>2, <1>3, <1>4

\* Rows of one request are appended to one file.
LEMMA AppendStep ==
    ASSUME AllInv, ViewInv', mode = "running", NEW n \in sessions,
           NEW rows \in Seq(Rows), Requested(rows), NEW u, Tells(rows, Told(carts_map[n]), u),
           journal' = [journal EXCEPT ![n] = @ \o rows], files' = files, scan_in' = scan_in
    PROVE  [Store!Next]_(Store!vars)
<1>1. /\ n \in CartNumbers /\ n \in files /\ journal[n] \in Seq(Rows)
      /\ Tells(journal[n], Blank, Told(carts_map[n]))
      /\ Told(carts_map[n]) \in Digests
      /\ view[n] = Custom(Told(carts_map[n]), TRUE)
  BY InService
<1>2. PICK t \in Digests : t = Told(carts_map[n])
  BY <1>1
<1>3. DigestStep(t, u)
  BY <1>2, RequestedStep
<1>4. /\ journal'[n] = journal[n] \o rows
      /\ \A m \in CartNumbers \ {n} : journal'[m] = journal[m] /\ (m \in files' <=> m \in files)
  BY <1>1 DEF AllInv, IInv, TypeOK
<1>5. OnlyChanges(n)
  BY <1>4, OneFile DEF AllInv
<1>6. view'[n] = Custom(u, TRUE)
  <2>1. PICK old \in Seq(Rows) : old = journal[n]
    BY <1>1
  <2>2. Tells(old \o rows, Blank, u)
    BY <1>1, <2>1, TellsBoth
  <2>3. Tells(journal'[n], Blank, u)
    BY <1>4, <2>1, <2>2
  <2>4. view'[n] = Custom(u, n \in files')
    BY <1>1, <2>3 DEF ViewInv
  <2>5. (n \in files') = TRUE
    BY <1>1
  <2> QED BY <2>4, <2>5
<1>7. Served(n)
  BY <1>1, <1>5 DEF Served, BasketsSent
<1> QED BY <1>1, <1>2, <1>3, <1>6, <1>7, StoreFollows

LEMMA AsideStep ==
    ASSUME AllInv, ViewInv', files' = files, journal' = journal, scan_in' = scan_in
    PROVE  [Store!Next]_(Store!vars)
<1>1. view' = view
  BY SameFiles DEF AllInv
<1>2. UNCHANGED <<Statuses, PiecesHeld, CardsHeld, BasketsSent>>
  BY <1>1 DEF Statuses, PiecesHeld, CardsHeld, BasketsSent
<1> QED BY <1>2, StoreStutters

LEMMA TakeStep ==
    ASSUME AllInv, ViewInv', NEW till \in Tills, TillReads(till)
    PROVE  [Store!Next]_(Store!vars)
<1>0. /\ scan_in' = [scan_in EXCEPT ![till] = NoBasket] /\ mode' = mode
      /\ files' = files /\ journal' = journal /\ scan_in \in [Tills -> Baskets \cup {NoBasket}]
  BY DEF TillReads, AllInv, IInv, TypeOK
<1>1. view' = view
  BY <1>0, SameFiles DEF AllInv
<1>2. UNCHANGED <<Statuses, PiecesHeld, CardsHeld>>
  BY <1>1 DEF Statuses, PiecesHeld, CardsHeld
<1>3. scan_in'[till] = NoBasket /\ \A t \in Tills \ {till} : scan_in'[t] = scan_in[t]
  BY <1>0
<1>4. BasketsSent' = [BasketsSent EXCEPT ![till] = NoBasket]
  BY <1>3 DEF BasketsSent
<1> QED BY <1>0, <1>2, <1>4, StoreTakes

LEMMA BeginStep ==
    ASSUME AllInv, ViewInv', SessionInit
    PROVE  [Store!Next]_(Store!vars)
<1>1. PICK n \in CartNumbers : n = next_cart_number
  BY DEF SessionInit
<1>2. /\ mode = "running" /\ files' = files \cup {n} /\ journal' = journal /\ scan_in' = scan_in
  BY <1>1 DEF SessionInit
<1>3. \A m \in files : m < n
  BY <1>1, <1>2 DEF AllInv, IInv, LoaderInv, SessionIdsFresh
<1>4. n \notin files /\ journal[n] = << >>
  BY <1>3, BaseSystemAssumption DEF AllInv, IInv, VoidInv
<1>5. Tells(journal[n], Blank, Blank) /\ Tells(journal'[n], Blank, Blank)
  BY <1>2, <1>4, TellsNothing
<1>6. (n \in files) = FALSE /\ (n \in files') = TRUE
  BY <1>2, <1>4
<1>7. view[n] = Custom(Blank, FALSE) /\ view'[n] = Custom(Blank, TRUE)
  <2>1. view[n] = Custom(Blank, n \in files)
    BY <1>5 DEF AllInv, ViewInv
  <2>2. view'[n] = Custom(Blank, n \in files')
    BY <1>5 DEF ViewInv
  <2> QED BY <1>6, <2>1, <2>2
<1>8. /\ view[n].status = "new" /\ view'[n].status = "open"
      /\ view'[n].pieces = view[n].pieces /\ view'[n].cards = view[n].cards
  BY <1>7, BlankTyped DEF Custom
<1>9. ASSUME NEW m \in CartNumbers, view[m].status # "new" PROVE m < n
  <2>1. PICK t : Tells(journal[m], Blank, t)
    BY DEF AllInv, TaleInv
  <2>2. view[m] = Custom(t, m \in files)
    BY <2>1 DEF AllInv, ViewInv
  <2>3. m \in files
    BY <1>9, <2>2 DEF Custom
  <2> QED BY <1>3, <2>3
<1>10. OnlyChanges(n)
  BY <1>2, OneFile DEF AllInv
<1>11. Served(n)
  BY <1>2, <1>10 DEF Served, BasketsSent
<1> QED BY <1>8, <1>9, <1>11, StoreBegins

LEMMA EndStep ==
    ASSUME AllInv, ViewInv', NEW n \in CartNumbers, NEW till \in Tills, SessionEnd(n, till)
    PROVE  [Store!Next]_(Store!vars)
<1> DEFINE c == carts_map[n]
<1>0. /\ c \in Carts /\ journal \in [CartNumbers -> Seq(Rows)]
      /\ scan_in \in [Tills -> Baskets \cup {NoBasket}]
  BY DEF AllInv, IInv, TypeOK
<1>1. PICK rc : Handle(n, Result(c, << >>, rc))
  BY DEF SessionEnd
<1>2. /\ mode = "running" /\ n \in sessions /\ files' = files
      /\ journal' = [journal EXCEPT ![n] = @ \o << >>]
  BY <1>1 DEF Handle, Serves, Result
<1>3. journal' = journal
  <2>1. journal[n] \o << >> = journal[n]
    BY <1>0
  <2> QED BY <1>0, <1>2, <2>1
<1>4. CASE c.state # CART_STATE_READY_FOR_ITEM
  <2>1. scan_in' = scan_in
    BY <1>4 DEF SessionEnd
  <2> QED BY <1>2, <1>3, <2>1, AsideStep
<1>5. CASE c.state = CART_STATE_READY_FOR_ITEM
  <2> DEFINE basket == [session      |-> n,
                        items_number |-> c.items_number,
                        total_amount |-> c.totals_map[0].total_amount,
                        lines        |-> c.barcodes_map]
  <2>1. scan_in' = [scan_in EXCEPT ![till] = basket]
    BY <1>5 DEF SessionEnd
  <2>2. basket \in Baskets /\ basket.session = n /\ basket.items_number = c.items_number
    BY <1>0, DepartmentZero DEF Baskets, Carts, Totals
  <2> HIDE DEF basket
  <2>3. basket # NoBasket
    BY <2>2, NoBasketAssumption
  <2>4. scan_in'[till] = basket /\ \A s \in Tills \ {till} : scan_in'[s] = scan_in[s]
    BY <1>0, <2>1
  <2>5. BasketsSent' = [BasketsSent EXCEPT ![till] = [session |-> n, pieces |-> c.items_number]]
    BY <2>2, <2>3, <2>4 DEF BasketsSent
  <2>6. view[n] = Custom(Told(c), TRUE) /\ Told(c) \in Digests /\ Counted(Told(c))
    BY <1>2, InService
  <2>7. /\ Told(c).open = TRUE /\ Told(c).number = c.items_number
        /\ DOMAIN Told(c).items = ItemCodes
    BY <1>5, <2>6, ServingAccepts, ToldFields, DigestFields
  <2>8. view[n].status = "open" /\ view[n].pieces = Told(c).items
    BY <2>6, <2>7 DEF Custom
  <2>9. c.items_number = SumFunctionOnSet(view[n].pieces, ItemCodes)
    BY <2>6, <2>7, <2>8 DEF Counted
  <2>10. view' = view
    BY <1>2, <1>3, SameFiles DEF AllInv
  <2>11. UNCHANGED <<Statuses, PiecesHeld, CardsHeld>>
    BY <2>10 DEF Statuses, PiecesHeld, CardsHeld
  <2>12. Store!Next
    BY <1>2, <2>5, <2>7, <2>8, <2>9, <2>11, StoreSends
  <2> QED BY <2>12
<1> QED BY <1>4, <1>5

LEMMA RequestStep ==
    ASSUME AllInv, ViewInv', NEW n \in CartNumbers, NEW r, OneStep(n, r),
           (Handle(n, r) /\ UNCHANGED scan_in) \/ DieWhile(n, r)
    PROVE  [Store!Next]_(Store!vars)
<1>1. /\ n \in sessions /\ mode = "running" /\ r.rows \in Seq(Rows) /\ Requested(r.rows)
      /\ Tells(r.rows, Told(carts_map[n]), Told(r.cart))
  BY DEF OneStep, ResultTyped, Truthful
<1>2. CASE Handle(n, r) /\ UNCHANGED scan_in
  <2>1. journal' = [journal EXCEPT ![n] = @ \o r.rows] /\ files' = files /\ scan_in' = scan_in
    BY <1>2 DEF Handle
  <2> QED BY <1>1, <2>1, AppendStep
<1>3. CASE DieWhile(n, r)
  <2>1. PICK k \in 1 .. Len(r.rows) : journal' = [journal EXCEPT ![n] = @ \o SubSeq(r.rows, 1, k)]
    BY <1>3 DEF DieWhile
  <2>2. files' = files /\ scan_in' = scan_in
    BY <1>3 DEF DieWhile
  <2>3. PICK rows \in Seq(Rows) : rows = r.rows
    BY <1>1
  <2>4. k \in 1 .. Len(rows) /\ k \in 0 .. Len(rows) /\ SubSeq(rows, 1, k) \in Seq(Rows)
    BY <2>3
  <2>5. Requested(SubSeq(rows, 1, k))
    BY <1>1, <2>3, <2>4, RequestedPrefix
  <2>6. PICK u : Tells(SubSeq(rows, 1, k), Told(carts_map[n]), u)
    BY <1>1, <2>3, <2>4, TellsPrefix
  <2>7. PICK first \in Seq(Rows) : first = SubSeq(rows, 1, k)
    BY <2>4
  <2>8. /\ Requested(first) /\ Tells(first, Told(carts_map[n]), u)
        /\ journal' = [journal EXCEPT ![n] = @ \o first]
    BY <2>1, <2>3, <2>5, <2>6, <2>7
  <2> QED BY <1>1, <2>2, <2>8, AppendStep
<1> QED BY <1>2, <1>3

\* Every step of the server is a step of the store, or none.
LEMMA StoreStep ==
    ASSUME AllInv, ViewInv', PlainLinks, [Next]_vars
    PROVE  [Store!Next]_(Store!vars)
<1>1. IInv /\ TaleInv
  BY DEF AllInv
<1>2. CASE Aside
  BY <1>2, AsideStep DEF Aside
<1>3. CASE \E till \in Tills : TillReads(till)
  BY <1>3, TakeStep
<1>4. CASE SessionInit
  BY <1>4, BeginStep
<1>5. CASE \E n \in CartNumbers : \E till \in Tills : SessionEnd(n, till)
  BY <1>5, EndStep
<1>6. CASE \E n \in CartNumbers : \E r : OneStep(n, r) /\ Handle(n, r) /\ UNCHANGED scan_in
  BY <1>6, RequestStep
<1>7. CASE \E n \in CartNumbers : \E r : OneStep(n, r) /\ DieWhile(n, r)
  BY <1>7, RequestStep
<1> QED BY <1>1, <1>2, <1>3, <1>4, <1>5, <1>6, <1>7, ShownCases

LEMMA StoreInit ==
    ASSUME ViewInit
    PROVE  Store!Init
<1>1. /\ mode = "down" /\ scan_in = [t \in Tills |-> NoBasket]
      /\ \A n \in CartNumbers : view[n] = Custom(Blank, FALSE)
  BY InitView DEF ViewInit, Init
<1>2. Blank.items = [i \in ItemCodes |-> 0]
  BY BlankFields
<1>3. CardsTold(Blank) = {}
  <2>1. \A k \in CardIndexes : Blank.cards[k] = NoCard
    BY ToldFields DEF Blank, NewCart
  <2> QED BY <2>1 DEF CardsTold
<1>4. \A n \in CartNumbers : /\ view[n].status = "new" /\ view[n].pieces = [i \in ItemCodes |-> 0]
                             /\ view[n].cards = {}
  BY <1>1, <1>2, <1>3 DEF Custom
<1> QED BY <1>1, <1>4 DEF Store!Init

-----------------------------------------------------------------------------
(* The theorem *)

\* A restart does not show: for every store whose links carry no price, the
\* sessions the customers find, through every interleaving of requests, deaths
\* inside a request, starts, variations and tills, are those of a store that
\* has no files and loads nothing: BaseSystem implements SelfScan.
THEOREM RestartsDoNotShow ==
    ASSUME PlainLinks
    PROVE  ViewSpec => KeepsSessions
<1>1. ViewInit => Init /\ ViewInv /\ Store!Init
  BY InitView, StoreInit DEF ViewInit
<1>2. [ViewNext]_<<vars, view>> => [Next]_vars
  BY DEF ViewNext
<1>3. ViewSpec => Spec
  BY <1>1, <1>2, PTL DEF ViewSpec, Spec
<1>4. /\ IInv /\ TaleInv /\ ViewInv /\ IInv' /\ TaleInv' /\ BlankInv' /\ [ViewNext]_<<vars, view>>
      => ViewInv'
  <2>1. ASSUME IInv, TaleInv, ViewInv, IInv', TaleInv', BlankInv', UNCHANGED <<vars, view>>
        PROVE  ViewInv'
    BY <2>1 DEF ViewInv, vars, disk
  <2> QED BY <2>1, ViewStep
<1>5. ViewSpec => [](IInv /\ TaleInv /\ BlankInv)
  BY <1>3, Inductive, TaleHolds, BlankHolds, PTL
<1>6. ViewSpec => []ViewInv
  BY <1>1, <1>4, <1>5, PTL DEF ViewSpec
<1>7. /\ IInv /\ TaleInv /\ BlankInv /\ ViewInv /\ ViewInv' /\ [ViewNext]_<<vars, view>>
      => [Store!Next]_(Store!vars)
  BY <1>2, StoreStep DEF AllInv
<1> QED BY <1>1, <1>5, <1>6, <1>7, PTL DEF ViewSpec, KeepsSessions, Store!Spec
==============================================================================
