------------------------------ MODULE CartLemmas ------------------------------
(***************************************************************************)
(* What several proofs need.  Of data: induction over numbers and over     *)
(* finite sets, stated for sets so that a prover can use it, and what it   *)
(* gives: a function that is defined row by row exists, and so does the    *)
(* sum of a function over a finite set, which changes by as much as the    *)
(* function does.  Of module Cart: what its operations return, and what    *)
(* they do to the cards.                                                   *)
(***************************************************************************)
EXTENDS Cart, Functions, FiniteSetTheorems, SequenceTheorems,
        WellFoundedInduction, TLAPS

-----------------------------------------------------------------------------
(* Numbers and sequences *)

LEMMA LeastNumber ==
    ASSUME NEW T \in SUBSET Nat, T # {}
    PROVE  \E m \in T : \A k \in T : m <= k
<1> DEFINE R == {ss \in Nat \X Nat : ss[1] < ss[2]}
<1>1. IsWellFoundedOn(R, Nat)
  <2>1. R = OpToRel(<, Nat)
    BY DEF OpToRel
  <2> QED BY <2>1, NatLessThanWellFounded
<1>2. PICK m \in T : \A k \in T : ~(<<k, m>> \in R)
  <2> HIDE DEF R
  <2> QED BY <1>1, WFMin
<1>3. ASSUME NEW k \in T PROVE m <= k
  <2>1. m \in Nat /\ k \in Nat /\ ~(<<k, m>> \in R)
    BY <1>2
  <2>2. ~(k < m)
    BY <2>1
  <2> QED BY <2>1, <2>2
<1> QED BY <1>3

\* What holds of 0 and goes from a number to the next holds of every number.
LEMMA CountingUp ==
    ASSUME NEW S, 0 \in S, \A n \in Nat : n \in S => n + 1 \in S
    PROVE  Nat \subseteq S
<1> SUFFICES ASSUME Nat \ S # {} PROVE FALSE
  OBVIOUS
<1>1. PICK m \in Nat \ S : \A k \in Nat \ S : m <= k
  BY LeastNumber
<1>2. m - 1 \in Nat
  BY <1>1
<1> QED BY <1>1, <1>2

\* The same up to a bound.
LEMMA CountingTo ==
    ASSUME NEW bound \in Nat, NEW S, 0 \in S,
           \A n \in 1 .. bound : n - 1 \in S => n \in S
    PROVE  0 .. bound \subseteq S
<1> DEFINE T == {n \in Nat : n <= bound => n \in S}
<1>1. \A n \in Nat : n \in T => n + 1 \in T
  <2> SUFFICES ASSUME NEW n \in Nat, n \in T, n + 1 <= bound PROVE n + 1 \in S
    OBVIOUS
  <2>1. n \in S /\ n + 1 \in 1 .. bound /\ (n + 1) - 1 = n
    OBVIOUS
  <2> QED BY <2>1
<1>2. 0 \in T
  OBVIOUS
<1> HIDE DEF T
<1>3. Nat \subseteq T
  BY <1>1, <1>2, CountingUp
<1> QED BY <1>3 DEF T

\* A function that is defined from one number to the next exists.
LEMMA StepByStep ==
    ASSUME NEW S, NEW base \in S, NEW bound \in Nat, NEW F \in [1 .. bound -> [S -> S]]
    PROVE  \E g \in [0 .. bound -> S] :
               g[0] = base /\ \A k \in 1 .. bound : g[k] = F[k][g[k - 1]]
<1> DEFINE UpTo(n, g) == g[0] = base /\ \A k \in 1 .. bound : k <= n => g[k] = F[k][g[k - 1]]
           T == {n \in Nat : n <= bound => \E g \in [0 .. bound -> S] : UpTo(n, g)}
<1>1. 0 \in T
  <2>1. PICK g : g = [k \in 0 .. bound |-> base]
    OBVIOUS
  <2>2. g \in [0 .. bound -> S] /\ UpTo(0, g)
    BY <2>1
  <2> QED BY <2>2
<1>2. ASSUME NEW n \in Nat, n \in T PROVE n + 1 \in T
  <2> SUFFICES ASSUME n + 1 <= bound PROVE \E g \in [0 .. bound -> S] : UpTo(n + 1, g)
    OBVIOUS
  <2>1. PICK g \in [0 .. bound -> S] : UpTo(n, g)
    BY <1>2
  <2>2. n \in 0 .. bound /\ n + 1 \in 1 .. bound /\ n + 1 \in 0 .. bound /\ (n + 1) - 1 = n
    OBVIOUS
  <2>3. PICK x \in S : x = F[n + 1][g[n]]
    BY <2>2
  <2>4. PICK h : h = [g EXCEPT ![n + 1] = x]
    OBVIOUS
  <2>5. h \in [0 .. bound -> S] /\ h[0] = base
    BY <2>1, <2>2, <2>4
  <2>6. ASSUME NEW k \in 1 .. bound, k <= n + 1 PROVE h[k] = F[k][h[k - 1]]
    <3>1. k - 1 \in 0 .. bound /\ k - 1 # n + 1 /\ k \in 0 .. bound
      BY <2>6
    <3>2. h[k - 1] = g[k - 1]
      BY <2>4, <3>1
    <3>3. CASE k = n + 1
      BY <2>2, <2>3, <2>4, <3>2, <3>3
    <3>4. CASE k # n + 1
      <4>1. k <= n /\ h[k] = g[k]
        BY <2>4, <2>6, <3>1, <3>4
      <4> QED BY <2>1, <3>2, <4>1
    <3> QED BY <3>3, <3>4
  <2> QED BY <2>5, <2>6
<1>3. bound \in T
  <2> HIDE DEF T
  <2> QED BY <1>1, <1>2, CountingUp
<1> QED BY <1>3

LEMMA TwoInARow ==
    ASSUME NEW S, NEW a \in S, NEW b \in S
    PROVE  <<a>> \o <<b>> = <<a, b>>
<1> DEFINE p == <<a>> \o <<b>>
           q == <<a, b>>
<1>1. <<a>> \in Seq(S) /\ <<b>> \in Seq(S) /\ q \in Seq(S)
  OBVIOUS
<1>2. p \in Seq(S) /\ Len(p) = 2 /\ Len(q) = 2
  BY <1>1
<1>3. p[1] = a /\ p[2] = b /\ q[1] = a /\ q[2] = b
  BY <1>1
<1> HIDE DEF p, q
<1>4. \A i \in 1 .. Len(p) : p[i] = q[i]
  BY <1>2, <1>3
<1>5. p = q
  BY <1>1, <1>2, <1>4, SeqEqual
<1> QED BY <1>5 DEF p, q

-----------------------------------------------------------------------------
(* Sums *)

\* The element that is taken out of s first.
Out(s) == CHOOSE x \in s : TRUE

\* The recursive function behind SumFunctionOnSet, and its equation.
SumFrom(f, g, s) == IF s = {} THEN 0
                    ELSE f[Out(s)] + g[s \ {Out(s)}]
IsSum(f, S, g) == g = [s \in SUBSET S |-> SumFrom(f, g, s)]
Sum(f, S) == (CHOOSE g : IsSum(f, S, g))

LEMMA SumIsFold ==
    ASSUME NEW f, NEW S
    PROVE  SumFunctionOnSet(f, S) = Sum(f, S)[S]
BY DEF SumFunctionOnSet, FoldFunctionOnSet, MapThenFoldSet, Sum, IsSum, SumFrom, Out

\* A non-empty set loses an element, and becomes smaller, in SumFrom.
LEMMA OneFewer ==
    ASSUME NEW S, IsFiniteSet(S), NEW s \in SUBSET S, s # {}
    PROVE  /\ Out(s) \in s
           /\ s \ {Out(s)} \in SUBSET S
           /\ Cardinality(s) \in Nat \ {0}
           /\ Cardinality(s \ {Out(s)}) = Cardinality(s) - 1
<1> DEFINE x == Out(s)
<1>1. x \in s
  BY DEF Out
<1> HIDE DEF x
<1>2. IsFiniteSet(s)
  BY FS_Subset
<1>3. Cardinality(s) \in Nat /\ Cardinality(s) # 0
  BY <1>2, FS_CardinalityType, FS_EmptySet
<1>4. Cardinality(s \ {x}) = Cardinality(s) - 1
  BY <1>1, <1>2, FS_RemoveElement
<1> QED BY <1>1, <1>3, <1>4 DEF x

\* What is proved for the empty set, and for a set from the set without the
\* element that SumFrom takes out of it, holds of every subset of a finite set.
LEMMA TakingOut ==
    ASSUME NEW S, IsFiniteSet(S), NEW P \in SUBSET SUBSET S, {} \in P,
           \A s \in SUBSET S : s # {} /\ s \ {Out(s)} \in P => s \in P
    PROVE  P = SUBSET S
<1> DEFINE T == {n \in Nat : \A s \in SUBSET S : Cardinality(s) = n => s \in P}
<1>1. 0 \in T
  <2> SUFFICES ASSUME NEW s \in SUBSET S, Cardinality(s) = 0 PROVE s \in P
    OBVIOUS
  <2>1. IsFiniteSet(s)
    BY FS_Subset
  <2>2. s = {}
    BY <2>1, FS_EmptySet
  <2> QED BY <2>2
<1>2. ASSUME NEW n \in Nat, n \in T PROVE n + 1 \in T
  <2> SUFFICES ASSUME NEW s \in SUBSET S, Cardinality(s) = n + 1 PROVE s \in P
    OBVIOUS
  <2> DEFINE x == Out(s)
  <2>1. s # {}
    <3>1. Cardinality({}) = 0
      BY FS_EmptySet
    <3> QED BY <3>1
  <2>2. s \ {x} \in SUBSET S /\ Cardinality(s \ {x}) = n
    BY <2>1, OneFewer
  <2>3. s \ {x} \in P
    BY <1>2, <2>2
  <2> QED BY <2>1, <2>3
<1> HIDE DEF T
<1>3. Nat \subseteq T
  BY <1>1, <1>2, CountingUp
<1>4. ASSUME NEW s \in SUBSET S PROVE s \in P
  <2>1. Cardinality(s) \in Nat
    BY FS_Subset, FS_CardinalityType
  <2> QED BY <1>3, <2>1 DEF T
<1> QED BY <1>4

\* The recursive function exists: it is built for larger and larger sets.
LEMMA SumExists ==
    ASSUME NEW f, NEW S, IsFiniteSet(S)
    PROVE  IsSum(f, S, Sum(f, S))
<1> DEFINE UpTo(n, g) == \A s \in SUBSET S : Cardinality(s) <= n => g[s] = SumFrom(f, g, s)
           T == {n \in Nat : \E g : UpTo(n, g)}
<1>1. 0 \in T
  <2> DEFINE g == [s \in SUBSET S |-> 0]
  <2>1. ASSUME NEW s \in SUBSET S, Cardinality(s) <= 0 PROVE g[s] = SumFrom(f, g, s)
    <3>1. IsFiniteSet(s) /\ Cardinality(s) \in Nat
      BY FS_Subset, FS_CardinalityType
    <3>2. s = {}
      BY <2>1, <3>1, FS_EmptySet
    <3> QED BY <3>2 DEF SumFrom
  <2>2. UpTo(0, g)
    BY <2>1
  <2> HIDE DEF g, UpTo
  <2> QED BY <2>2
<1>2. ASSUME NEW n \in Nat, n \in T PROVE n + 1 \in T
  <2>1. PICK g : UpTo(n, g)
    BY <1>2
  <2> DEFINE h == [s \in SUBSET S |-> IF Cardinality(s) <= n THEN g[s] ELSE SumFrom(f, g, s)]
  <2>2. ASSUME NEW s \in SUBSET S, Cardinality(s) <= n + 1 PROVE h[s] = SumFrom(f, h, s)
    <3>1. h[s] = SumFrom(f, g, s)
      BY <2>1
    <3>2. SumFrom(f, g, s) = SumFrom(f, h, s)
      <4>1. CASE s = {}
        BY <4>1 DEF SumFrom
      <4>2. CASE s # {}
        <5> DEFINE x == Out(s)
        <5>1. /\ s \ {x} \in SUBSET S /\ Cardinality(s) \in Nat
              /\ Cardinality(s \ {x}) = Cardinality(s) - 1
          BY <4>2, OneFewer
        <5>2. h[s \ {x}] = g[s \ {x}]
          BY <2>2, <5>1
        <5> QED BY <4>2, <5>2 DEF SumFrom
      <4> QED BY <4>1, <4>2
    <3> QED BY <3>1, <3>2
  <2>3. UpTo(n + 1, h)
    BY <2>2
  <2> HIDE DEF h, UpTo
  <2> QED BY <2>3
<1>3. Cardinality(S) \in T
  <2> HIDE DEF T
  <2>1. Nat \subseteq T
    BY <1>1, <1>2, CountingUp
  <2> QED BY <2>1, FS_CardinalityType
<1>4. PICK g : UpTo(Cardinality(S), g)
  BY <1>3
<1> DEFINE h == [s \in SUBSET S |-> g[s]]
<1>5. ASSUME NEW s \in SUBSET S PROVE h[s] = SumFrom(f, h, s)
  <2>1. Cardinality(s) <= Cardinality(S)
    BY FS_Subset
  <2>2. h[s] = SumFrom(f, g, s)
    BY <1>4, <2>1
  <2>3. s # {} => h[s \ {Out(s)}] = g[s \ {Out(s)}]
    OBVIOUS
  <2> QED BY <2>2, <2>3 DEF SumFrom
<1>6. IsSum(f, S, h)
  BY <1>5 DEF IsSum
<1> HIDE DEF h
<1> QED BY <1>6 DEF Sum

LEMMA SumOfNone ==
    ASSUME NEW f, NEW S, IsFiniteSet(S)
    PROVE  Sum(f, S)[{}] = 0
<1>1. IsSum(f, S, Sum(f, S))
  BY SumExists
<1> QED BY <1>1 DEF IsSum, SumFrom

LEMMA SumStep ==
    ASSUME NEW f, NEW S, IsFiniteSet(S)
    PROVE  \A s \in SUBSET S : s # {} =>
              Sum(f, S)[s] = f[Out(s)] + Sum(f, S)[s \ {Out(s)}]
<1> DEFINE g == Sum(f, S)
<1>1. IsSum(f, S, g)
  BY SumExists
<1> HIDE DEF g
<1>2. \A s \in SUBSET S : g[s] = SumFrom(f, g, s)
  BY <1>1 DEF IsSum
<1>3. \A s \in SUBSET S : s # {} => g[s] = f[Out(s)] + g[s \ {Out(s)}]
  BY <1>2 DEF SumFrom
<1> QED BY <1>3 DEF g

LEMMA SumInt ==
    ASSUME NEW S, IsFiniteSet(S), NEW f, \A x \in S : f[x] \in Int
    PROVE  SumFunctionOnSet(f, S) \in Int
<1> DEFINE P == {s \in SUBSET S : Sum(f, S)[s] \in Int}
<1>1. {} \in P
  BY SumOfNone
<1>2. ASSUME NEW s \in SUBSET S, s # {}, s \ {Out(s)} \in P PROVE s \in P
  <2>1. Out(s) \in S
    BY <1>2, OneFewer
  <2>2. Sum(f, S)[s] = f[Out(s)] + Sum(f, S)[s \ {Out(s)}]
    BY <1>2, SumStep
  <2>3. f[Out(s)] \in Int /\ Sum(f, S)[s \ {Out(s)}] \in Int
    BY <1>2, <2>1
  <2> QED BY <2>2, <2>3
<1> HIDE DEF P
<1>3. P = SUBSET S
  <2>1. P \in SUBSET SUBSET S
    BY DEF P
  <2> QED BY <1>1, <1>2, <2>1, TakingOut
<1> QED BY <1>3, SumIsFold DEF P

\* h differs from f at a only, and both are integers on S.
DifferAt(f, h, S, a) ==
    /\ \A x \in S : f[x] \in Int /\ h[x] \in Int
    /\ \A x \in S \ {a} : h[x] = f[x]

\* A sum changes by as much as the one value that changes.
LEMMA SumDifference ==
    ASSUME NEW S, IsFiniteSet(S), NEW f, NEW h, NEW a \in S, DifferAt(f, h, S, a)
    PROVE  SumFunctionOnSet(h, S) = SumFunctionOnSet(f, S) + (h[a] - f[a])
<1> DEFINE more(s) == IF a \in s THEN h[a] - f[a] ELSE 0
           P == {s \in SUBSET S : /\ Sum(f, S)[s] \in Int
                                  /\ Sum(h, S)[s] = Sum(f, S)[s] + more(s)}
<1>1. {} \in P
  BY SumOfNone
<1>2. \A s \in SUBSET S : s # {} => Sum(f, S)[s] = f[Out(s)] + Sum(f, S)[s \ {Out(s)}]
  BY SumStep
<1>3. \A s \in SUBSET S : s # {} => Sum(h, S)[s] = h[Out(s)] + Sum(h, S)[s \ {Out(s)}]
  BY SumStep
<1>4. ASSUME NEW s \in SUBSET S, s # {}, s \ {Out(s)} \in P PROVE s \in P
  <2>1. Out(s) \in s /\ Out(s) \in S
    BY <1>4, OneFewer
  <2>2. /\ Sum(f, S)[s] = f[Out(s)] + Sum(f, S)[s \ {Out(s)}]
        /\ Sum(h, S)[s] = h[Out(s)] + Sum(h, S)[s \ {Out(s)}]
    BY <1>2, <1>3, <1>4
  <2>3. /\ Sum(f, S)[s \ {Out(s)}] \in Int
        /\ Sum(h, S)[s \ {Out(s)}] = Sum(f, S)[s \ {Out(s)}] + more(s \ {Out(s)})
    BY <1>4
  <2>4. f[Out(s)] \in Int /\ h[Out(s)] \in Int /\ f[a] \in Int /\ h[a] \in Int
    BY <2>1 DEF DifferAt
  <2>5. CASE Out(s) = a
    <3>1. a \in s /\ a \notin s \ {Out(s)}
      BY <2>1, <2>5
    <3> QED BY <2>2, <2>3, <2>4, <2>5, <3>1
  <2>6. CASE Out(s) # a
    <3>1. h[Out(s)] = f[Out(s)] /\ (a \in s <=> a \in s \ {Out(s)})
      BY <2>1, <2>6 DEF DifferAt
    <3> QED BY <2>2, <2>3, <2>4, <3>1
  <2> QED BY <2>5, <2>6
<1> HIDE DEF P
<1>5. P = SUBSET S
  <2>1. P \in SUBSET SUBSET S
    BY DEF P
  <2> QED BY <1>1, <1>4, <2>1, TakingOut
<1> QED BY <1>5, SumIsFold DEF P

LEMMA SumChange ==
    ASSUME NEW S, IsFiniteSet(S), NEW f \in [S -> Int], NEW a \in S, NEW v \in Int
    PROVE  SumFunctionOnSet([f EXCEPT ![a] = v], S) = SumFunctionOnSet(f, S) + (v - f[a])
<1>1. PICK h : h = [f EXCEPT ![a] = v]
  OBVIOUS
<1>2. DifferAt(f, h, S, a) /\ h[a] = v
  BY <1>1 DEF DifferAt
<1>3. SumFunctionOnSet(h, S) = SumFunctionOnSet(f, S) + (h[a] - f[a])
  BY <1>2, SumDifference
<1> QED BY <1>1, <1>2, <1>3

LEMMA SumOfZeros ==
    ASSUME NEW S, IsFiniteSet(S), NEW f, \A x \in S : f[x] = 0
    PROVE  SumFunctionOnSet(f, S) = 0
<1> DEFINE P == {s \in SUBSET S : Sum(f, S)[s] = 0}
<1>1. {} \in P
  BY SumOfNone
<1>2. ASSUME NEW s \in SUBSET S, s # {}, s \ {Out(s)} \in P PROVE s \in P
  <2>1. Out(s) \in S
    BY <1>2, OneFewer
  <2>2. Sum(f, S)[s] = f[Out(s)] + Sum(f, S)[s \ {Out(s)}]
    BY <1>2, SumStep
  <2> QED BY <1>2, <2>1, <2>2
<1> HIDE DEF P
<1>3. P = SUBSET S
  <2>1. P \in SUBSET SUBSET S
    BY DEF P
  <2> QED BY <1>1, <1>2, <2>1, TakingOut
<1> QED BY <1>3, SumIsFold DEF P

\* Functions that agree on a set have one sum over it.
LEMMA SumOfEqual ==
    ASSUME NEW S, IsFiniteSet(S), NEW f, NEW h, \A x \in S : f[x] \in Int /\ h[x] = f[x]
    PROVE  SumFunctionOnSet(h, S) = SumFunctionOnSet(f, S)
<1>1. CASE S = {}
  BY <1>1, SumOfZeros
<1>2. CASE S # {}
  <2>1. PICK a \in S : TRUE
    BY <1>2
  <2>2. DifferAt(f, h, S, a) /\ h[a] - f[a] = 0
    BY <2>1 DEF DifferAt
  <2>3. SumFunctionOnSet(h, S) = SumFunctionOnSet(f, S) + (h[a] - f[a])
    BY <2>1, <2>2, SumDifference
  <2>4. SumFunctionOnSet(f, S) \in Int
    BY SumInt
  <2> QED BY <2>2, <2>3, <2>4
<1> QED BY <1>1, <1>2

-----------------------------------------------------------------------------
(* What an operation of a cart returns. *)

\* The result of an operation is well formed.
ResultTyped(r) == r.cart \in Carts /\ r.rows \in Seq(Rows) /\ r.rc \in Nat

\* An operation on items or cards neither changes the state of the cart nor
\* writes a void row, and writes nothing unless the cart is in service.
Quiet(c, r) ==
    /\ r.cart.state = c.state
    /\ \A k \in 1 .. Len(r.rows) : r.rows[k] # VoidRow
    /\ c.state # CART_STATE_READY_FOR_ITEM => r.rows = << >>

\* The rows an operation hands to writeTransactionRow, in one sequence.
Harmless(rows) == rows \in Seq(Rows) /\ \A k \in 1 .. Len(rows) : rows[k] # VoidRow

LEMMA StatesAreNumbers ==
    ASSUME NEW c \in Carts PROVE c.state \in Nat /\ c.state \in CartStates
BY DEF Carts, CartStates, CART_STATE_READY_FOR_ITEM, CART_STATE_TMPFILE_LOADING,
       CART_STATE_VOIDED, CART_STATE_CLOSED

LEMMA ItemRowHarmless ==
    ASSUME NEW b \in Barcodes, NEW action \in {"A", "V"}
    PROVE  Harmless(<<ItemRow(action, b)>>)
<1>1. ItemRow(action, b) \in Rows
  BY DEF ItemRow, Rows
<1>2. ItemRow(action, b) # VoidRow
  <2>1. ItemRow(action, b).object = "I" /\ VoidRow.object = "C"
    BY DEF ItemRow, VoidRow
  <2> QED BY <2>1
<1> QED BY <1>1, <1>2 DEF Harmless

LEMMA CardRowHarmless ==
    ASSUME NEW card \in Cards, NEW action \in {"A", "V"}
    PROVE  Harmless(<<CardRow(action, card)>>)
<1>1. CardRow(action, card) \in Rows
  BY DEF CardRow, Rows
<1>2. CardRow(action, card) # VoidRow
  <2>1. CardRow(action, card).object = "L" /\ VoidRow.object = "C"
    BY DEF CardRow, VoidRow
  <2> QED BY <2>1
<1> QED BY <1>1, <1>2 DEF Harmless

LEMMA LocalRowsHarmless ==
    ASSUME NEW dept \in DepartmentCodes, NEW item \in ItemCodes, NEW price \in Int
    PROVE  Harmless(<<DeptRow(dept), LocalRow(item, price)>>)
<1>1. DeptRow(dept) \in Rows /\ LocalRow(item, price) \in Rows
  BY DEF DeptRow, LocalRow, Rows
<1>2. DeptRow(dept) # VoidRow /\ LocalRow(item, price) # VoidRow
  <2>1. /\ DeptRow(dept).object = "K" /\ LocalRow(item, price).object = "K"
        /\ VoidRow.object = "C"
    BY DEF DeptRow, LocalRow, VoidRow
  <2> QED BY <2>1
<1> DEFINE rows == <<DeptRow(dept), LocalRow(item, price)>>
<1>3. rows \in Seq(Rows) /\ Len(rows) = 2 /\ rows[1] = DeptRow(dept) /\ rows[2] = LocalRow(item, price)
  BY <1>1
<1>4. \A k \in 1 .. Len(rows) : rows[k] # VoidRow
  BY <1>2, <1>3
<1> QED BY <1>3, <1>4 DEF Harmless

LEMMA NoRowHarmless == Harmless(<< >>)
BY DEF Harmless

\* An operation that keeps the state and writes its rows through Journalled
\* is typed and quiet.
LEMMA JournalledResult ==
    ASSUME NEW c \in Carts, NEW d \in Carts, d.state = c.state,
           NEW rows, Harmless(rows), NEW rc \in Nat
    PROVE  LET r == Result(d, Journalled(c, rows), rc) IN ResultTyped(r) /\ Quiet(c, r)
BY NoRowHarmless DEF ResultTyped, Quiet, Result, Journalled, Harmless

LEMMA SilentResult ==
    ASSUME NEW c \in Carts, NEW d \in Carts, d.state = c.state, NEW rc \in Nat
    PROVE  LET r == Result(d, << >>, rc) IN ResultTyped(r) /\ Quiet(c, r)
BY DEF ResultTyped, Quiet, Result

-----------------------------------------------------------------------------
(* The operations of Cart. *)

LEMMA DepartmentZero == 0 \in DepartmentCodes /\ NoItem \in ItemCodes
BY DEF DepartmentCodes, NoDepartment, ItemCodes

LEMMA ChargeTyped ==
    ASSUME NEW totals \in [DepartmentCodes -> Totals], NEW dept \in DepartmentCodes,
           NEW n \in Int, NEW amount \in Int, NEW discount \in Int
    PROVE  Charge(totals, dept, n, amount, discount) \in [DepartmentCodes -> Totals]
<1>1. ASSUME NEW t \in [DepartmentCodes -> Totals], NEW d \in DepartmentCodes
      PROVE  AddToTotal(t, d, n, amount, discount) \in [DepartmentCodes -> Totals]
  <2>1. t[d] \in Totals
    OBVIOUS
  <2> QED BY <2>1 DEF AddToTotal, Totals
<1> QED BY <1>1, DepartmentZero DEF Charge

LEMMA NewCartTyped ==
    ASSUME NEW state \in CartStates
    PROVE  NewCart(state) \in Carts /\ NewCart(state).state = state
BY DEF NewCart, Carts, Totals

LEMMA UpdateLocalItemMapResult ==
    ASSUME NEW c \in Carts, NEW item \in ItemCodes, NEW row \in ItemRows
    PROVE  LET r == updateLocalItemMap(c, item, row) IN ResultTyped(r) /\ Quiet(c, r)
<1> DEFINE d == [c EXCEPT !.items_local_copy_map[item] = row.price]
           rows == <<DeptRow(row.department), LocalRow(item, row.price)>>
<1>1. row.price \in Int /\ row.department \in DepartmentCodes
  BY DEF ItemRows
<1>2. d \in Carts /\ d.state = c.state
  BY <1>1 DEF Carts
<1>3. Harmless(rows)
  BY <1>1, LocalRowsHarmless
<1>4. RC_OK \in Nat
  BY DEF RC_OK
<1> HIDE DEF d, rows
<1>5. LET r == Result(d, Journalled(c, rows), RC_OK) IN ResultTyped(r) /\ Quiet(c, r)
  BY <1>2, <1>3, <1>4, JournalledResult
<1>6. LET r == Result(c, << >>, RC_OK) IN ResultTyped(r) /\ Quiet(c, r)
  BY <1>4, SilentResult
<1> QED BY <1>5, <1>6 DEF updateLocalItemMap, d, rows

LEMMA GetItemPriceInt ==
    ASSUME NEW c \in Carts, NEW item \in ItemCodes, NEW row \in ItemRows, NEW b \in Barcodes
    PROVE  getItemPrice(c, item, row, b) \in Int
<1>1. barcode_price[b] \in Int /\ row.price \in Int
  BY CatalogueAssumption DEF ItemRows
<1>2. c.items_local_copy_map[item] \in Int \cup {NoPrice}
  BY DEF Carts
<1> QED BY <1>1, <1>2 DEF getItemPrice

LEMMA AddItemResult ==
    ASSUME NEW c \in Carts, NEW item \in ItemCodes, NEW row \in ItemRows, NEW b \in Barcodes,
           NEW price \in Int, NEW discount \in Int
    PROVE  LET r == addItemByBarcode(c, item, row, b, price, discount)
           IN  ResultTyped(r) /\ Quiet(c, r)
<1> DEFINE totals == Charge(c.totals_map, row.department, 1, price - discount, discount)
           d == [c EXCEPT !.totals_map = totals,
                          !.items_number = @ + 1,
                          !.cart_items_map[item] = @ + 1,
                          !.barcodes_map[b] = @ + 1]
<1>1. totals \in [DepartmentCodes -> Totals]
  <2>1. row.department \in DepartmentCodes /\ price - discount \in Int
    BY DEF ItemRows
  <2>2. c.totals_map \in [DepartmentCodes -> Totals]
    BY DEF Carts
  <2> QED BY <2>1, <2>2, ChargeTyped
<1>2. d \in Carts /\ d.state = c.state
  <2> DEFINE items == [c.cart_items_map EXCEPT ![item] = @ + 1]
             barcodes == [c.barcodes_map EXCEPT ![b] = @ + 1]
             number == c.items_number + 1
  <2>1. items \in [ItemCodes -> Nat] /\ barcodes \in [Barcodes -> Nat] /\ number \in Int
    BY DEF Carts
  <2>2. d = [c EXCEPT !.totals_map = totals, !.items_number = number,
                      !.cart_items_map = items, !.barcodes_map = barcodes]
    OBVIOUS
  <2> HIDE DEF d, totals, items, barcodes, number
  <2> QED BY <1>1, <2>1, <2>2 DEF Carts
<1>3. Harmless(<<ItemRow("A", b)>>)
  BY ItemRowHarmless
<1>4. RC_OK \in Nat /\ c.state \in Nat
  BY StatesAreNumbers DEF RC_OK
<1> HIDE DEF d
<1>5. LET r == Result(d, Journalled(c, <<ItemRow("A", b)>>), RC_OK)
      IN  ResultTyped(r) /\ Quiet(c, r)
  BY <1>2, <1>3, <1>4, JournalledResult
<1>6. LET r == Result(c, << >>, c.state) IN ResultTyped(r) /\ Quiet(c, r)
  BY <1>4, SilentResult
<1> QED BY <1>5, <1>6 DEF addItemByBarcode, d

LEMMA RemoveItemResult ==
    ASSUME NEW c \in Carts, NEW item \in ItemCodes, NEW row \in ItemRows, NEW b \in Barcodes,
           NEW price \in Int, NEW discount \in Int
    PROVE  LET r == removeItemByBarcode(c, item, row, b, price, discount)
           IN  ResultTyped(r) /\ Quiet(c, r)
<1> DEFINE totals == Charge(c.totals_map, row.department, -1, discount - price, -discount)
           e == takeOut(c, item, row, price, discount)
           d == [e EXCEPT !.barcodes_map[b] = OneLess(@)]
<1>1. totals \in [DepartmentCodes -> Totals]
  <2>1. /\ row.department \in DepartmentCodes
        /\ discount - price \in Int /\ -discount \in Int /\ -1 \in Int
    BY DEF ItemRows
  <2>2. c.totals_map \in [DepartmentCodes -> Totals]
    BY DEF Carts
  <2> QED BY <2>1, <2>2, ChargeTyped
<1>2. e \in Carts /\ e.state = c.state
  <2> DEFINE items == [c.cart_items_map EXCEPT ![item] = OneLess(@)]
             number == c.items_number - 1
  <2>1. items \in [ItemCodes -> Nat] /\ number \in Int
    BY DEF Carts, OneLess
  <2>2. e = [c EXCEPT !.totals_map = totals, !.items_number = number, !.cart_items_map = items]
    BY DEF takeOut
  <2> HIDE DEF e, totals, items, number
  <2> QED BY <1>1, <2>1, <2>2 DEF Carts
<1> HIDE DEF e
<1>3. d \in Carts /\ d.state = c.state
  <2>1. [e.barcodes_map EXCEPT ![b] = OneLess(@)] \in [Barcodes -> Nat]
    BY <1>2 DEF Carts, OneLess
  <2> QED BY <1>2, <2>1 DEF Carts
<1>4. Harmless(<<ItemRow("V", b)>>)
  BY ItemRowHarmless
<1>5. RC_OK \in Nat /\ c.state \in Nat
  BY StatesAreNumbers DEF RC_OK
<1> HIDE DEF d
<1>6. LET r == Result(d, Journalled(c, <<ItemRow("V", b)>>), RC_OK)
      IN  ResultTyped(r) /\ Quiet(c, r)
  BY <1>3, <1>4, <1>5, JournalledResult
<1>7. ASSUME NEW rc \in Nat
      PROVE  LET r == Result(c, << >>, rc) IN ResultTyped(r) /\ Quiet(c, r)
  BY SilentResult
<1>8. CASE ~AcceptsChanges(c)
  BY <1>5, <1>7, <1>8 DEF removeItemByBarcode
<1>9. CASE AcceptsChanges(c) /\ c.cart_items_map[item] = 0
  BY <1>5, <1>7, <1>9 DEF removeItemByBarcode
<1>10. CASE AcceptsChanges(c) /\ c.cart_items_map[item] # 0
  BY <1>6, <1>10 DEF removeItemByBarcode, d, e
<1> QED BY <1>8, <1>9, <1>10

LEMMA AddLoyCardResult ==
    ASSUME NEW c \in Carts, NEW card \in Cards
    PROVE  LET r == addLoyCard(c, card) IN ResultTyped(r) /\ Quiet(c, r)
<1> DEFINE cards == [c.loy_cards_map EXCEPT ![c.loy_cards_number] = card]
           number == c.loy_cards_number + 1
           d == [c EXCEPT !.loy_cards_map[c.loy_cards_number] = card,
                          !.loy_cards_number = @ + 1]
<1>1. cards \in [CardIndexes -> Cards \cup {NoCard}] /\ number \in Int
  <2>1. c.loy_cards_map \in [CardIndexes -> Cards \cup {NoCard}] /\ number \in Int
    BY DEF Carts
  <2>2. cards = [k \in CardIndexes |-> IF k = c.loy_cards_number THEN card ELSE c.loy_cards_map[k]]
    BY <2>1
  <2>3. \A k \in CardIndexes : c.loy_cards_map[k] \in Cards \cup {NoCard}
    BY <2>1
  <2> HIDE DEF cards
  <2> QED BY <2>1, <2>2, <2>3
<1>2. d = [c EXCEPT !.loy_cards_map = cards, !.loy_cards_number = number]
  OBVIOUS
<1>3. d \in Carts /\ d.state = c.state
  <2> HIDE DEF d, cards, number
  <2> QED BY <1>1, <1>2 DEF Carts
<1>4. /\ RC_OK \in Nat /\ c.state \in Nat /\ RC_LOY_CARD_ALREADY_PRESENT \in Nat
  BY StatesAreNumbers DEF RC_OK, RC_LOY_CARD_ALREADY_PRESENT
<1> HIDE DEF d
<1>5. LET r == Result(d, Journalled(c, <<CardRow("A", card)>>), RC_OK)
      IN  ResultTyped(r) /\ Quiet(c, r)
  BY <1>3, <1>4, CardRowHarmless, JournalledResult
<1>6. ASSUME NEW rc \in Nat
      PROVE  LET r == Result(c, << >>, rc) IN ResultTyped(r) /\ Quiet(c, r)
  BY SilentResult
<1>7. CASE ~AcceptsChanges(c)
  BY <1>4, <1>6, <1>7 DEF addLoyCard
<1>8. c.loy_cards_number \in Int /\ MaxCards \in Int
  BY CardsAssumption DEF Carts
<1>9. CASE AcceptsChanges(c) /\ c.loy_cards_number >= MaxCards
  BY <1>4, <1>6, <1>8, <1>9 DEF addLoyCard
<1>10. CASE AcceptsChanges(c) /\ c.loy_cards_number < MaxCards /\ card \in CardsOf(c)
  BY <1>4, <1>6, <1>8, <1>10 DEF addLoyCard
<1>11. CASE AcceptsChanges(c) /\ c.loy_cards_number < MaxCards /\ card \notin CardsOf(c)
  BY <1>5, <1>8, <1>11 DEF addLoyCard, d
<1> QED BY <1>7, <1>8, <1>9, <1>10, <1>11

LEMMA RemoveLoyCardResult ==
    ASSUME NEW c \in Carts, NEW card \in Cards
    PROVE  LET r == removeLoyCard(c, card) IN ResultTyped(r) /\ Quiet(c, r)
<1> DEFINE m == c.loy_cards_map
           cards == [k \in CardIndexes |-> IF m[k] = card THEN NoCard ELSE m[k]]
           number == c.loy_cards_number - 1
           d == [c EXCEPT !.loy_cards_map = [k \in CardIndexes |->
                                                IF @[k] = card THEN NoCard ELSE @[k]],
                          !.loy_cards_number = @ - 1]
<1>1. cards \in [CardIndexes -> Cards \cup {NoCard}] /\ number \in Int
  <2>1. m \in [CardIndexes -> Cards \cup {NoCard}] /\ number \in Int
    BY DEF Carts
  <2> HIDE DEF m
  <2> QED BY <2>1
<1>2. d = [c EXCEPT !.loy_cards_map = cards, !.loy_cards_number = number]
  OBVIOUS
<1>3. d \in Carts /\ d.state = c.state
  <2> HIDE DEF d, cards, number
  <2> QED BY <1>1, <1>2 DEF Carts
<1>4. c.state \in Nat /\ RC_LOY_CARD_NOT_PRESENT \in Nat
  BY StatesAreNumbers DEF RC_LOY_CARD_NOT_PRESENT
<1> HIDE DEF d
<1>5. LET r == Result(d, Journalled(c, <<CardRow("V", card)>>), RC_LOY_CARD_NOT_PRESENT)
      IN  ResultTyped(r) /\ Quiet(c, r)
  BY <1>3, <1>4, CardRowHarmless, JournalledResult
<1>6. ASSUME NEW rc \in Nat
      PROVE  LET r == Result(c, << >>, rc) IN ResultTyped(r) /\ Quiet(c, r)
  BY SilentResult
<1>7. CASE ~AcceptsChanges(c)
  BY <1>4, <1>6, <1>7 DEF removeLoyCard
<1>8. CASE AcceptsChanges(c) /\ card \notin CardsOf(c)
  BY <1>4, <1>6, <1>8 DEF removeLoyCard
<1>9. CASE AcceptsChanges(c) /\ card \in CardsOf(c)
  BY <1>5, <1>9 DEF removeLoyCard, d
<1> QED BY <1>7, <1>8, <1>9

\* Voiding a cart in service writes the void row alone; otherwise nothing.
LEMMA VoidAllCartResult ==
    ASSUME NEW c \in Carts
    PROVE  LET r == voidAllCart(c)
           IN  /\ ResultTyped(r)
               /\ r.cart.state \in {CART_STATE_VOIDED, c.state}
               /\ \/ r.rows = << >> /\ c.state \in {CART_STATE_VOIDED, CART_STATE_CLOSED}
                                    /\ r.cart = c
                  \/ r.rows = <<VoidRow>> /\ r.cart.state = CART_STATE_VOIDED
                                          /\ c.state # CART_STATE_VOIDED
<1> DEFINE d == [c EXCEPT !.state = CART_STATE_VOIDED]
<1>1. d \in Carts /\ d.state = CART_STATE_VOIDED
  BY DEF Carts, CartStates
<1>2. VoidRow \in Rows
  BY DEF VoidRow, Rows
<1>3. RC_OK \in Nat /\ c.state \in Nat
  BY StatesAreNumbers DEF RC_OK
<1> HIDE DEF d
<1>4. ResultTyped(Result(d, <<VoidRow>>, RC_OK)) /\ ResultTyped(Result(c, << >>, c.state))
  BY <1>1, <1>2, <1>3 DEF ResultTyped, Result
<1> QED BY <1>1, <1>4 DEF voidAllCart, Result, d

-----------------------------------------------------------------------------
(* The loyalty cards of a cart *)

Occupied(c) == {k \in CardIndexes : c.loy_cards_map[k] # NoCard}

\* CardsBounded, of one cart.
CardsOK(c) ==
    /\ \A j, k \in CardIndexes :
          c.loy_cards_map[j] = c.loy_cards_map[k] /\ j # k => c.loy_cards_map[j] = NoCard
    /\ Cardinality(Occupied(c)) <= c.loy_cards_number
    /\ c.loy_cards_number <= MaxCards

\* What every operation but the two on cards does with them.
CardsKept(c, d) ==
    /\ d.loy_cards_map = c.loy_cards_map
    /\ d.loy_cards_number = c.loy_cards_number

LEMMA KeptCardsOK ==
    ASSUME NEW c, NEW d, CardsOK(c), CardsKept(c, d)
    PROVE  CardsOK(d)
BY DEF CardsOK, CardsKept, Occupied

-----------------------------------------------------------------------------
(* The two operations on cards *)

LEMMA OccupiedFinite ==
    ASSUME NEW c
    PROVE  /\ IsFiniteSet(Occupied(c))
           /\ Cardinality(Occupied(c)) \in Nat
<1>1. IsFiniteSet(CardIndexes)
    BY CardsAssumption, FS_Interval DEF CardIndexes
<1>2. IsFiniteSet(Occupied(c))
    BY <1>1, FS_Subset DEF Occupied
<1>. QED
    BY <1>2, FS_CardinalityType

LEMMA NewCartCards ==
    ASSUME NEW state
    PROVE  CardsOK(NewCart(state))
<1>1. Occupied(NewCart(state)) = {}
    BY DEF Occupied, NewCart
<1>2. Cardinality(Occupied(NewCart(state))) = 0
    BY <1>1, FS_EmptySet
<1>. QED
    BY <1>2, CardsAssumption DEF CardsOK, NewCart

\* A card goes to the index that is the number of cards, free or not: the
\* cards grow by one at most, the number by one.
LEMMA AddedCards ==
    ASSUME NEW c \in Carts, NEW card \in Cards, CardsOK(c)
    PROVE  CardsOK(addLoyCard(c, card).cart)
<1> DEFINE number == c.loy_cards_number
           d == [c EXCEPT !.loy_cards_map[number] = card, !.loy_cards_number = @ + 1]
<1>1. CASE addLoyCard(c, card).cart = c
    BY <1>1
<1>2. CASE addLoyCard(c, card).cart # c
  <2>1. /\ number < MaxCards /\ card \notin CardsOf(c)
        /\ addLoyCard(c, card).cart = d
      BY <1>2, CardsAssumption DEF addLoyCard, Result, Carts
  <2>2. number \in CardIndexes
      BY <2>1, OccupiedFinite, CardsAssumption DEF CardsOK, CardIndexes, Carts
  <2>3. d.loy_cards_number = number + 1
      BY DEF Carts
  <2>4. \A k \in CardIndexes :
            d.loy_cards_map[k] = IF k = number THEN card ELSE c.loy_cards_map[k]
      BY <2>2 DEF Carts
  <2> HIDE DEF d
  <2>5. Cardinality(Occupied(d)) <= Cardinality(Occupied(c)) + 1
    <3>1. Occupied(d) \in SUBSET (Occupied(c) \cup {number})
        BY <2>4 DEF Occupied
    <3>2. /\ IsFiniteSet(Occupied(c) \cup {number})
          /\ Cardinality(Occupied(c) \cup {number}) <= Cardinality(Occupied(c)) + 1
      <4>1. IsFiniteSet(Occupied(c)) /\ Cardinality(Occupied(c)) \in Nat
          BY OccupiedFinite
      <4>2. /\ IsFiniteSet(Occupied(c) \cup {number})
            /\ Cardinality(Occupied(c) \cup {number})
                  = IF number \in Occupied(c) THEN Cardinality(Occupied(c))
                    ELSE Cardinality(Occupied(c)) + 1
          BY <4>1, FS_AddElement
      <4>. QED
          BY <4>1, <4>2
    <3>3. Cardinality(Occupied(d)) <= Cardinality(Occupied(c) \cup {number})
        BY <3>1, <3>2, FS_Subset
    <3>4. Cardinality(Occupied(c) \cup {number}) \in Nat
        BY <3>2, FS_CardinalityType
    <3>. QED
        BY <3>2, <3>3, <3>4, OccupiedFinite
  <2>6. \A k \in CardIndexes : c.loy_cards_map[k] # card
      BY <2>1, CardsAssumption DEF CardsOf
  <2>7. \A j, k \in CardIndexes :
            d.loy_cards_map[j] = d.loy_cards_map[k] /\ j # k => d.loy_cards_map[j] = NoCard
      BY <2>4, <2>6 DEF CardsOK
  <2>8. /\ Cardinality(Occupied(d)) \in Nat /\ Cardinality(Occupied(c)) \in Nat
        /\ number \in Int /\ MaxCards \in Nat
      BY OccupiedFinite, CardsAssumption DEF Carts
  <2>. QED
      BY <2>1, <2>3, <2>5, <2>7, <2>8 DEF CardsOK
<1>. QED
    BY <1>1, <1>2

\* A card that is taken out was at one index: the cards and their number
\* shrink by one.
LEMMA RemovedCards ==
    ASSUME NEW c \in Carts, NEW card \in Cards, CardsOK(c)
    PROVE  CardsOK(removeLoyCard(c, card).cart)
<1> DEFINE d == [c EXCEPT !.loy_cards_map =
                            [k \in CardIndexes |-> IF @[k] = card THEN NoCard ELSE @[k]],
                          !.loy_cards_number = @ - 1]
<1>1. CASE removeLoyCard(c, card).cart = c
    BY <1>1
<1>2. CASE removeLoyCard(c, card).cart # c
  <2>1. card \in CardsOf(c) /\ removeLoyCard(c, card).cart = d
      BY <1>2 DEF removeLoyCard, Result
  <2>2. PICK index \in CardIndexes : c.loy_cards_map[index] = card
      BY <2>1 DEF CardsOf
  <2>3. d.loy_cards_number = c.loy_cards_number - 1
      BY DEF Carts
  <2>4. \A k \in CardIndexes :
            d.loy_cards_map[k] = IF c.loy_cards_map[k] = card THEN NoCard ELSE c.loy_cards_map[k]
      BY DEF Carts
  <2> HIDE DEF d
  <2>5. Cardinality(Occupied(d)) <= Cardinality(Occupied(c)) - 1
    <3>1. Occupied(d) \in SUBSET (Occupied(c) \ {index})
        BY <2>2, <2>4 DEF Occupied
    <3>2. index \in Occupied(c)
        BY <2>2, CardsAssumption DEF Occupied
    <3>3. /\ IsFiniteSet(Occupied(c) \ {index})
          /\ Cardinality(Occupied(c) \ {index}) = Cardinality(Occupied(c)) - 1
        BY <3>2, OccupiedFinite, FS_RemoveElement
    <3>. QED
        BY <3>1, <3>3, FS_Subset
  <2>6. \A j, k \in CardIndexes :
            d.loy_cards_map[j] = d.loy_cards_map[k] /\ j # k => d.loy_cards_map[j] = NoCard
      BY <2>4 DEF CardsOK
  <2>7. /\ Cardinality(Occupied(d)) \in Nat /\ Cardinality(Occupied(c)) \in Nat
        /\ c.loy_cards_number \in Int /\ MaxCards \in Nat
      BY OccupiedFinite, CardsAssumption DEF Carts
  <2>. QED
      BY <2>1, <2>3, <2>5, <2>6, <2>7 DEF CardsOK
<1>. QED
    BY <1>1, <1>2
===============================================================================
