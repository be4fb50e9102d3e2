------------------------------ MODULE UrlProofs ------------------------------
(***************************************************************************)
(* Proofs about UrlHandling, for paths of every length and all characters: *)
(* what a client encoded is read back, the action it named is the one that *)
(* is done, and the parameters it gave arrive.                             *)
(***************************************************************************)
EXTENDS UrlHandling, FiniteSetTheorems, SequenceTheorems, WellFoundedInduction, TLAPS

-----------------------------------------------------------------------------
(* url_decode *)

\* One round of the loop of url_decode, and the functions that follow it.
DecodeRound(in, g, i) ==
    CASE i > Len(in) -> {<< >>}
      [] i <= Len(in) /\ in[i] = "%" ->
            IF i + 2 > Len(in) THEN {}
            ELSE {Cons(Char(code), out) : code \in HexRead(in[i + 1], in[i + 2]),
                                          out \in g[i + 3]}
      [] i <= Len(in) /\ in[i] = "+" -> {Cons(" ", out) : out \in g[i + 1]}
      [] OTHER -> {Cons(in[i], out) : out \in g[i + 1]}

IsDecoding(in, g) == g = [i \in 1 .. Len(in) + 1 |-> DecodeRound(in, g, i)]

LEMMA DecodingIsChosen ==
    ASSUME NEW in
    PROVE  url_decode(in) = (CHOOSE g : IsDecoding(in, g))[1]
BY DEF url_decode, DecodeFrom, IsDecoding, DecodeRound

\* The characters: those a client may write, and those of this module, of
\* which a prover is not told that they are strings.
Symbols == STRING \cup
    {"ctl", "sep", "/", "2", "3", "?", "high", " ", "+", "%", "f", "index.html"}

LEMMA LeastNumber ==
    ASSUME NEW T \in SUBSET Nat, T # {}
    PROVE  \E m \in T : \A k \in T : m <= k
<1> DEFINE R == {ss \in Nat \X Nat : ss[1] < ss[2]}
<1>1. IsWellFoundedOn(R, Nat)
  <2>1. R = OpToRel(<, Nat)
    BY DEF OpToRel
  <2> QED BY <2>1, NatLessThanWellFounded
<1>2. PICK m \in T : \A k \in T : ~(<<k, m>> \in R)
  <2> HIDE DEF R
  <2> QED BY <1>1, WFMin
<1>3. ASSUME NEW k \in T PROVE m <= k
  <2>1. m \in Nat /\ k \in Nat /\ ~(<<k, m>> \in R)
    BY <1>2
  <2>2. ~(k < m)
    BY <2>1
  <2> QED BY <2>1, <2>2
<1> QED BY <1>3

\* What a round does, case by case.
Prefixed(x, outs)    == {Cons(x, out) : out \in outs}
Spelled(x, y, outs)  == {Cons(Char(code), out) : code \in HexRead(x, y), out \in outs}

LEMMA RoundCases ==
    ASSUME NEW in \in Seq(Symbols), NEW g, NEW i \in 1 .. Len(in) + 1
    PROVE  /\ i = Len(in) + 1 => DecodeRound(in, g, i) = {<< >>}
           /\ i <= Len(in) /\ in[i] = "%" /\ i + 2 > Len(in) => DecodeRound(in, g, i) = {}
           /\ i <= Len(in) /\ in[i] = "%" /\ i + 2 <= Len(in) =>
                 DecodeRound(in, g, i) = Spelled(in[i + 1], in[i + 2], g[i + 3])
           /\ i <= Len(in) /\ in[i] = "+" => DecodeRound(in, g, i) = Prefixed(" ", g[i + 1])
           /\ i <= Len(in) /\ in[i] \notin {"%", "+"} =>
                 DecodeRound(in, g, i) = Prefixed(in[i], g[i + 1])
<1>1. Len(in) \in Nat
  OBVIOUS
<1>2. i = Len(in) + 1 => DecodeRound(in, g, i) = {<< >>}
  <2> SUFFICES ASSUME i > Len(in), ~(i <= Len(in)) PROVE DecodeRound(in, g, i) = {<< >>}
    BY <1>1
  <2> QED BY DEF DecodeRound
<1>3. i <= Len(in) /\ in[i] = "%" /\ i + 2 > Len(in) => DecodeRound(in, g, i) = {}
  <2> SUFFICES ASSUME i <= Len(in), ~(i > Len(in)), in[i] = "%", i + 2 > Len(in)
               PROVE  DecodeRound(in, g, i) = {}
    BY <1>1
  <2> QED BY DEF DecodeRound
<1>4. i <= Len(in) /\ in[i] = "%" /\ i + 2 <= Len(in) =>
          DecodeRound(in, g, i) = Spelled(in[i + 1], in[i + 2], g[i + 3])
  <2> SUFFICES ASSUME i <= Len(in), ~(i > Len(in)), in[i] = "%", ~(i + 2 > Len(in))
               PROVE  DecodeRound(in, g, i) = Spelled(in[i + 1], in[i + 2], g[i + 3])
    BY <1>1
  <2> QED BY DEF DecodeRound, Spelled
<1>5. i <= Len(in) /\ in[i] = "+" => DecodeRound(in, g, i) = Prefixed(" ", g[i + 1])
  <2> SUFFICES ASSUME i <= Len(in), in[i] = "+"
               PROVE  DecodeRound(in, g, i) = Prefixed(" ", g[i + 1])
    OBVIOUS
  <2>1. ~(i > Len(in)) /\ in[i] # "%"
    BY <1>1
  <2> QED BY <2>1 DEF DecodeRound, Prefixed
<1>6. i <= Len(in) /\ in[i] \notin {"%", "+"} =>
          DecodeRound(in, g, i) = Prefixed(in[i], g[i + 1])
  <2> SUFFICES ASSUME i <= Len(in), ~(i > Len(in)), in[i] # "+", in[i] # "%"
               PROVE  DecodeRound(in, g, i) = Prefixed(in[i], g[i + 1])
    BY <1>1
  <2> QED BY DEF DecodeRound, Prefixed
<1> QED BY <1>2, <1>3, <1>4, <1>5, <1>6

\* Two decodings of a text agree: they would from the last place on where they
\* did not.
LEMMA OneDecoding ==
    ASSUME NEW in \in Seq(Symbols), NEW g, NEW h, IsDecoding(in, g), IsDecoding(in, h)
    PROVE  g = h
<1>1. PICK n \in Nat : n = Len(in)
  OBVIOUS
<1>2. /\ \A i \in 1 .. n + 1 : g[i] = DecodeRound(in, g, i) /\ h[i] = DecodeRound(in, h, i)
      /\ g = [i \in 1 .. n + 1 |-> g[i]] /\ h = [i \in 1 .. n + 1 |-> h[i]]
  <2>1. \A i \in 1 .. n + 1 : g[i] = DecodeRound(in, g, i)
    BY <1>1 DEF IsDecoding
  <2>2. \A i \in 1 .. n + 1 : h[i] = DecodeRound(in, h, i)
    BY <1>1 DEF IsDecoding
  <2>3. g = [i \in 1 .. n + 1 |-> g[i]]
    BY <1>1, <2>1 DEF IsDecoding
  <2>4. h = [i \in 1 .. n + 1 |-> h[i]]
    BY <1>1, <2>2 DEF IsDecoding
  <2> QED BY <2>1, <2>2, <2>3, <2>4
<1> DEFINE Apart == {k \in 0 .. n : g[n + 1 - k] # h[n + 1 - k]}
<1>3. ASSUME Apart # {} PROVE FALSE
  <2>1. PICK k \in Apart : \A j \in Apart : k <= j
    <3>1. Apart \in SUBSET Nat
      OBVIOUS
    <3> HIDE DEF Apart
    <3> QED BY <1>3, <3>1, LeastNumber
  <2>2. PICK i \in 1 .. n + 1 : i = n + 1 - k
    OBVIOUS
  <2>3. \A j \in i + 1 .. n + 1 : g[j] = h[j]
    <3> SUFFICES ASSUME NEW j \in i + 1 .. n + 1, g[j] # h[j] PROVE FALSE
      OBVIOUS
    <3>1. n + 1 - j \in 0 .. n /\ n + 1 - (n + 1 - j) = j /\ n + 1 - j < k
      BY <2>1, <2>2
    <3>2. n + 1 - j \in Apart
      BY <3>1
    <3>3. k \in Nat
      OBVIOUS
    <3> HIDE DEF Apart
    <3>4. k <= n + 1 - j
      BY <2>1, <3>2
    <3> QED BY <3>1, <3>3, <3>4
  <2>9. i \in 1 .. Len(in) + 1
    BY <1>1, <2>2
  <2>4. DecodeRound(in, g, i) = DecodeRound(in, h, i)
    <3>1. CASE i = Len(in) + 1
      BY <2>9, <3>1, RoundCases
    <3>2. CASE i <= Len(in) /\ in[i] = "%" /\ i + 2 > Len(in)
      BY <2>9, <3>2, RoundCases
    <3>3. CASE i <= Len(in) /\ in[i] = "%" /\ i + 2 <= Len(in)
      <4>1. i + 3 \in i + 1 .. n + 1
        BY <1>1, <3>3
      <4>2. g[i + 3] = h[i + 3]
        BY <2>3, <4>1
      <4> QED BY <2>9, <3>3, <4>2, RoundCases
    <3>4. CASE i <= Len(in) /\ in[i] # "%"
      <4>1. i + 1 \in i + 1 .. n + 1
        BY <1>1, <3>4
      <4>2. g[i + 1] = h[i + 1]
        BY <2>3, <4>1
      <4> QED BY <2>9, <3>4, <4>2, RoundCases
    <3> QED BY <1>1, <2>9, <3>1, <3>2, <3>3, <3>4
  <2>5. g[i] = h[i]
    BY <1>2, <2>4
  <2> QED BY <2>1, <2>2, <2>5
<1>4. \A i \in 1 .. n + 1 : g[i] = h[i]
  <2> SUFFICES ASSUME NEW i \in 1 .. n + 1 PROVE g[i] = h[i]
    OBVIOUS
  <2>1. n + 1 - i \in 0 .. n /\ n + 1 - (n + 1 - i) = i
    OBVIOUS
  <2> QED BY <1>3, <2>1
<1> QED BY <1>2, <1>4

\* g is the decoding of in, and finds out there; no percent sign is so near
\* the end that what follows could change its meaning.
Decodes(in, g, out) ==
    /\ in \in Seq(Symbols)
    /\ IsDecoding(in, g)
    /\ g[1] = {out}
    /\ \A i \in 1 .. Len(in) + 1 : g[i] \subseteq Seq(Symbols)
    /\ \A i \in 1 .. Len(in) : in[i] = "%" => i + 2 <= Len(in)

LEMMA DecodedText ==
    ASSUME NEW in, NEW g, NEW out, Decodes(in, g, out)
    PROVE  url_decode(in) = {out}
<1>1. PICK h : h = (CHOOSE f : IsDecoding(in, f))
  OBVIOUS
<1>2. IsDecoding(in, h)
  BY <1>1 DEF Decodes
<1>3. h = g
  BY <1>2, OneDecoding DEF Decodes
<1>4. url_decode(in) = h[1]
  BY <1>1, DecodingIsChosen
<1> QED BY <1>3, <1>4 DEF Decodes

Appended(outs, x) == {Append(out, x) : out \in outs}

LEMMA ConsIsText ==
    ASSUME NEW x \in Symbols, NEW y \in Symbols, NEW out \in Seq(Symbols)
    PROVE  /\ Cons(y, out) \in Seq(Symbols)
           /\ Cons(y, Append(out, x)) = Append(Cons(y, out), x)
<1>0. ASSUME NEW word \in Seq(Symbols)
      PROVE  Cons(y, word) \in Seq(Symbols) /\ Append(word, x) \in Seq(Symbols)
  BY DEF Cons
<1>1. PICK s \in Seq(Symbols) : s = Cons(y, out)
  BY <1>0
<1>2. PICK r \in Seq(Symbols) : r = Append(out, x)
  BY <1>0
<1>3. /\ Len(s) = Len(out) + 1 /\ s[1] = y
      /\ \A i \in 1 .. Len(out) : s[i + 1] = out[i]
  BY <1>1 DEF Cons
<1>4. /\ Len(r) = Len(out) + 1 /\ r[Len(out) + 1] = x
      /\ \A i \in 1 .. Len(out) : r[i] = out[i]
  BY <1>2
<1>5. PICK a \in Seq(Symbols) : a = Cons(y, r)
  BY <1>0
<1>6. PICK b \in Seq(Symbols) : b = Append(s, x)
  BY <1>0
<1>7. /\ Len(a) = Len(r) + 1 /\ a[1] = y
      /\ \A i \in 1 .. Len(r) : a[i + 1] = r[i]
  BY <1>5 DEF Cons
<1>8. /\ Len(b) = Len(s) + 1 /\ b[Len(s) + 1] = x
      /\ \A i \in 1 .. Len(s) : b[i] = s[i]
  BY <1>6
<1>9. Len(a) = Len(b) /\ Len(out) \in Nat
  BY <1>3, <1>4, <1>7, <1>8
<1>10. ASSUME NEW i \in 1 .. Len(a) PROVE a[i] = b[i]
  <2>1. CASE i = 1
    BY <1>3, <1>7, <1>8, <1>9, <2>1
  <2>2. CASE i = Len(out) + 2
    BY <1>3, <1>4, <1>7, <1>8, <1>9, <2>2
  <2>3. CASE i # 1 /\ i # Len(out) + 2
    <3>1. PICK j \in 1 .. Len(out) : i = j + 1
      <4>1. i - 1 \in 1 .. Len(out) /\ i = (i - 1) + 1
        BY <1>4, <1>7, <1>9, <2>3
      <4> QED BY <4>1
    <3>2. a[i] = out[j]
      BY <1>4, <1>7, <1>9, <3>1
    <3>3. b[i] = out[j]
      BY <1>3, <1>8, <1>9, <3>1
    <3> QED BY <3>2, <3>3
  <2> QED BY <2>1, <2>2, <2>3
<1>11. a = b
  BY <1>9, <1>10, SeqEqual
<1> QED BY <1>1, <1>2, <1>5, <1>6, <1>11

LEMMA SomeSymbols == {"ctl", "sep", "/", "2", "3", "?", "high", " ", "+", "%", "f", "index.html"} \subseteq Symbols
BY DEF Symbols

\* What HexRead makes of two characters is a character, if anything.
LEMMA HexReadIsChar ==
    ASSUME NEW x, NEW y, NEW code \in HexRead(x, y)
    PROVE  Char(code) \in Symbols
<1> DEFINE value == {2, 3, 15}
<1>1. \A d \in DOMAIN Hex : Hex[d] \in value
  BY DEF Hex
<1>2. code \in 0 .. 255
  BY DEF HexRead
<1>3. \/ \E a, b \in value : code = 16 * a + b
      \/ code \in value
      \/ \E a \in value : code = 256 - a
  BY <1>1 DEF HexRead
<1>4. code \in {34, 35, 47, 50, 51, 63, 242, 243, 255, 2, 3, 15, 254, 253, 241}
  BY <1>3
<1>5. Char(code) \in {"ctl", "sep", "/", "2", "3", "?", "high"}
  BY <1>4 DEF Char
<1> QED BY <1>5, SomeSymbols

LEMMA PrefixedText ==
    ASSUME NEW outs \in SUBSET Seq(Symbols), NEW x \in Symbols, NEW y \in Symbols
    PROVE  /\ Prefixed(y, outs) \in SUBSET Seq(Symbols)
           /\ Prefixed(y, Appended(outs, x)) = Appended(Prefixed(y, outs), x)
<1>1. Prefixed(y, outs) \in SUBSET Seq(Symbols)
  BY ConsIsText DEF Prefixed
<1>2. ASSUME NEW out \in outs PROVE Cons(y, Append(out, x)) = Append(Cons(y, out), x)
  BY ConsIsText
<1>3. Prefixed(y, Appended(outs, x)) \subseteq Appended(Prefixed(y, outs), x)
  <2> SUFFICES ASSUME NEW out \in outs
               PROVE  Cons(y, Append(out, x)) \in Appended(Prefixed(y, outs), x)
    BY DEF Prefixed, Appended
  <2>1. Cons(y, out) \in Prefixed(y, outs)
    BY DEF Prefixed
  <2> QED BY <1>2, <2>1 DEF Appended
<1>4. Appended(Prefixed(y, outs), x) \subseteq Prefixed(y, Appended(outs, x))
  <2> SUFFICES ASSUME NEW out \in outs
               PROVE  Append(Cons(y, out), x) \in Prefixed(y, Appended(outs, x))
    BY DEF Prefixed, Appended
  <2>1. Append(out, x) \in Appended(outs, x)
    BY DEF Appended
  <2> QED BY <1>2, <2>1 DEF Prefixed
<1> QED BY <1>1, <1>3, <1>4

LEMMA SpelledText ==
    ASSUME NEW outs \in SUBSET Seq(Symbols), NEW x \in Symbols, NEW y, NEW z
    PROVE  /\ Spelled(y, z, outs) \in SUBSET Seq(Symbols)
           /\ Spelled(y, z, Appended(outs, x)) = Appended(Spelled(y, z, outs), x)
<1>1. PICK S : S = HexRead(y, z)
  OBVIOUS
<1>2. ASSUME NEW code \in S, NEW out \in outs
      PROVE  /\ Cons(Char(code), out) \in Seq(Symbols)
             /\ Cons(Char(code), Append(out, x)) = Append(Cons(Char(code), out), x)
  BY <1>1, HexReadIsChar, ConsIsText
<1>3. Spelled(y, z, outs) \in SUBSET Seq(Symbols)
  BY <1>1, <1>2 DEF Spelled
<1>4. Spelled(y, z, Appended(outs, x)) \subseteq Appended(Spelled(y, z, outs), x)
  <2> SUFFICES ASSUME NEW t \in Spelled(y, z, Appended(outs, x))
               PROVE  t \in Appended(Spelled(y, z, outs), x)
    OBVIOUS
  <2>1. PICK code \in S : \E r \in Appended(outs, x) : t = Cons(Char(code), r)
    BY <1>1 DEF Spelled
  <2>2. PICK out \in outs : t = Cons(Char(code), Append(out, x))
    BY <2>1 DEF Appended
  <2>3. Cons(Char(code), out) \in Spelled(y, z, outs)
    BY <1>1 DEF Spelled
  <2> QED BY <1>2, <2>2, <2>3 DEF Appended
<1>5. Appended(Spelled(y, z, outs), x) \subseteq Spelled(y, z, Appended(outs, x))
  <2> SUFFICES ASSUME NEW t \in Appended(Spelled(y, z, outs), x)
               PROVE  t \in Spelled(y, z, Appended(outs, x))
    OBVIOUS
  <2>1. PICK r \in Spelled(y, z, outs) : t = Append(r, x)
    BY DEF Appended
  <2>2. PICK code \in S : \E out \in outs : r = Cons(Char(code), out)
    BY <1>1 DEF Spelled
  <2>3. PICK out \in outs : t = Append(Cons(Char(code), out), x)
    BY <2>1, <2>2
  <2>4. Append(out, x) \in Appended(outs, x)
    BY DEF Appended
  <2> QED BY <1>1, <1>2, <2>3, <2>4 DEF Spelled
<1> QED BY <1>3, <1>4, <1>5

\* A text and what is written after it are decoded one after the other.
LEMMA DecodedTogether ==
    ASSUME NEW u, NEW g, NEW out, Decodes(u, g, out),
           NEW x \in Symbols, NEW code, NEW e, Decodes(code, e, <<x>>)
    PROVE  \E h : Decodes(u \o code, h, Append(out, x))
<1>1. PICK n \in Nat : n = Len(u)
  BY DEF Decodes
<1>2. PICK m \in Nat : m = Len(code)
  BY DEF Decodes
<1>3. PICK v \in Seq(Symbols) : v = u \o code
  <2>1. u \o code \in Seq(Symbols)
    BY ConcatProperties DEF Decodes
  <2> QED BY <2>1
<1>4. /\ Len(v) = n + m
      /\ \A i \in 1 .. n : v[i] = u[i]
      /\ \A i \in 1 .. m : v[n + i] = code[i]
  BY <1>1, <1>2, <1>3 DEF Decodes
<1>5. PICK h : h = [i \in 1 .. n + m + 1 |-> IF i <= n THEN Appended(g[i], x) ELSE e[i - n]]
  OBVIOUS
<1>6. /\ \A i \in 1 .. n : h[i] = Appended(g[i], x)
      /\ \A i \in 1 .. m + 1 : h[n + i] = e[i]
  BY <1>5
<1>7. g[n + 1] = {<< >>} /\ e[1] = {<<x>>}
  <2>1. g[n + 1] = DecodeRound(u, g, n + 1)
    BY <1>1 DEF Decodes, IsDecoding
  <2>2. u \in Seq(Symbols) /\ n + 1 \in 1 .. Len(u) + 1 /\ n + 1 = Len(u) + 1
    BY <1>1 DEF Decodes
  <2>3. DecodeRound(u, g, n + 1) = {<< >>}
    BY <2>2, RoundCases
  <2> QED BY <2>1, <2>3 DEF Decodes
<1>8. h[n + 1] = Appended(g[n + 1], x)
  <2>1. h[n + 1] = {<<x>>}
    BY <1>6, <1>7
  <2>2. Append(<< >>, x) = <<x>>
    OBVIOUS
  <2> QED BY <1>7, <2>1, <2>2 DEF Appended
<1>9. \A i \in 1 .. n + 1 : h[i] = Appended(g[i], x)
  BY <1>6, <1>8
<1>10. \A i \in 1 .. n + 1 : g[i] \in SUBSET Seq(Symbols)
  BY <1>1 DEF Decodes
<1>11. ASSUME NEW i \in 1 .. n
       PROVE  h[i] = DecodeRound(v, h, i) /\ (v[i] = "%" => i + 2 <= n)
  <2>1. i \in 1 .. Len(u) + 1 /\ i \in 1 .. Len(v) + 1 /\ i <= Len(v) /\ i <= Len(u) /\ v[i] = u[i]
    BY <1>1, <1>4
  <2>2. g[i] = DecodeRound(u, g, i)
    BY <2>1 DEF Decodes, IsDecoding
  <2>3. u \in Seq(Symbols) /\ u[i] \in Symbols
    BY <2>1 DEF Decodes
  <2>4. CASE u[i] = "%"
    <3>1. i + 2 <= n /\ i + 2 <= Len(u) /\ i + 2 <= Len(v)
      BY <1>1, <1>4, <2>1, <2>4 DEF Decodes
    <3>2. i + 3 \in 1 .. n + 1 /\ v[i + 1] = u[i + 1] /\ v[i + 2] = u[i + 2]
      <4>1. i + 1 \in 1 .. n /\ i + 2 \in 1 .. n /\ i + 3 \in 1 .. n + 1
        BY <3>1
      <4> QED BY <1>4, <4>1
    <3>3. h[i + 3] = Appended(g[i + 3], x) /\ g[i + 3] \in SUBSET Seq(Symbols)
      BY <1>9, <1>10, <3>2
    <3>4. g[i] = Spelled(u[i + 1], u[i + 2], g[i + 3])
      BY <2>1, <2>2, <2>3, <2>4, <3>1, RoundCases
    <3>5. DecodeRound(v, h, i) = Spelled(u[i + 1], u[i + 2], h[i + 3])
      BY <2>1, <2>4, <3>1, <3>2, RoundCases
    <3>6. h[i] = Appended(Spelled(u[i + 1], u[i + 2], g[i + 3]), x)
      BY <1>6, <3>4
    <3>7. DecodeRound(v, h, i) = Spelled(u[i + 1], u[i + 2], Appended(g[i + 3], x))
      BY <3>3, <3>5
    <3>8. h[i] = DecodeRound(v, h, i)
      BY <3>3, <3>6, <3>7, SpelledText
    <3> QED BY <3>1, <3>8
  <2>5. CASE u[i] # "%"
    <3>1. i + 1 \in 1 .. n + 1
      BY <1>1
    <3>2. h[i + 1] = Appended(g[i + 1], x) /\ g[i + 1] \in SUBSET Seq(Symbols)
      BY <1>9, <1>10, <3>1
    <3>3. PICK y \in Symbols : y = IF u[i] = "+" THEN " " ELSE u[i]
      BY <2>3, SomeSymbols
    <3>4. g[i] = Prefixed(y, g[i + 1])
      BY <2>1, <2>2, <2>3, <2>5, <3>3, RoundCases
    <3>5. DecodeRound(v, h, i) = Prefixed(y, h[i + 1])
      BY <2>1, <2>5, <3>3, RoundCases
    <3>6. h[i] = DecodeRound(v, h, i)
      BY <1>6, <3>2, <3>4, <3>5, PrefixedText
    <3> QED BY <2>1, <2>5, <3>6
  <2> QED BY <2>4, <2>5
<1>12. ASSUME NEW k \in 1 .. m + 1
       PROVE  /\ h[n + k] = DecodeRound(v, h, n + k)
              /\ k <= m /\ v[n + k] = "%" => n + k + 2 <= n + m
  <2>1. /\ k \in 1 .. Len(code) + 1 /\ n + k \in 1 .. Len(v) + 1
        /\ h[n + k] = e[k]
        /\ k <= m => v[n + k] = code[k] /\ k <= Len(code) /\ n + k <= Len(v)
        /\ code \in Seq(Symbols)
    BY <1>2, <1>4, <1>6 DEF Decodes
  <2>2. e[k] = DecodeRound(code, e, k)
    BY <2>1 DEF Decodes, IsDecoding
  <2>3. CASE k = m + 1
    <3>1. n + k = Len(v) + 1 /\ k = Len(code) + 1
      BY <1>2, <1>4, <2>3
    <3>2. DecodeRound(code, e, k) = {<< >>} /\ DecodeRound(v, h, n + k) = {<< >>}
      BY <2>1, <3>1, RoundCases
    <3>3. ~(k <= m)
      BY <2>3
    <3> QED BY <2>1, <2>2, <3>2, <3>3
  <2>4. CASE k <= m /\ code[k] = "%"
    <3>1. k + 2 <= m /\ k + 2 <= Len(code) /\ n + k + 2 <= Len(v)
      BY <1>2, <1>4, <2>1, <2>4 DEF Decodes
    <3>2. v[n + k + 1] = code[k + 1] /\ v[n + k + 2] = code[k + 2] /\ h[n + k + 3] = e[k + 3]
      <4>1. /\ k + 1 \in 1 .. m /\ k + 2 \in 1 .. m /\ k + 3 \in 1 .. m + 1
            /\ n + (k + 1) = n + k + 1 /\ n + (k + 2) = n + k + 2 /\ n + (k + 3) = n + k + 3
        BY <3>1
      <4>2. /\ v[n + (k + 1)] = code[k + 1] /\ v[n + (k + 2)] = code[k + 2]
            /\ h[n + (k + 3)] = e[k + 3]
        BY <1>4, <1>6, <4>1
      <4> QED BY <4>1, <4>2
    <3>3. e[k] = Spelled(code[k + 1], code[k + 2], e[k + 3])
      BY <2>1, <2>2, <2>4, <3>1, RoundCases
    <3>4. DecodeRound(v, h, n + k) = Spelled(v[n + k + 1], v[n + k + 2], h[n + k + 3])
      BY <2>1, <2>4, <3>1, RoundCases
    <3> QED BY <2>1, <3>1, <3>2, <3>3, <3>4
  <2>5. CASE k <= m /\ code[k] # "%"
    <3>1. h[n + k + 1] = e[k + 1]
      <4>1. k + 1 \in 1 .. m + 1 /\ n + (k + 1) = n + k + 1
        BY <2>5
      <4> QED BY <1>6, <4>1
    <3>2. PICK y : y = IF code[k] = "+" THEN " " ELSE code[k]
      OBVIOUS
    <3>3. e[k] = Prefixed(y, e[k + 1])
      BY <2>1, <2>2, <2>5, <3>2, RoundCases
    <3>4. DecodeRound(v, h, n + k) = Prefixed(y, h[n + k + 1])
      BY <2>1, <2>5, <3>2, RoundCases
    <3> QED BY <2>1, <2>5, <3>1, <3>3, <3>4
  <2> QED BY <2>3, <2>4, <2>5
<1>13. ASSUME NEW i \in 1 .. n + m + 1, i > n PROVE \E k \in 1 .. m + 1 : i = n + k
  <2>1. i - n \in 1 .. m + 1 /\ i = n + (i - n)
    BY <1>13
  <2> QED BY <2>1
<1>14. ASSUME NEW i \in 1 .. n + m + 1 PROVE h[i] = DecodeRound(v, h, i)
  <2>1. CASE i <= n
    BY <1>11, <2>1
  <2>2. CASE i > n
    <3>1. PICK k \in 1 .. m + 1 : i = n + k
      BY <1>13, <2>2
    <3> QED BY <1>12, <3>1
  <2> QED BY <2>1, <2>2
<1>15. IsDecoding(v, h)
  <2>1. h = [i \in 1 .. n + m + 1 |-> h[i]]
    BY <1>5
  <2>2. h = [i \in 1 .. n + m + 1 |-> DecodeRound(v, h, i)]
    BY <1>14, <2>1
  <2> QED BY <1>4, <2>2 DEF IsDecoding
<1>16. \A i \in 1 .. Len(v) : v[i] = "%" => i + 2 <= Len(v)
  <2> SUFFICES ASSUME NEW i \in 1 .. n + m, v[i] = "%" PROVE i + 2 <= n + m
    BY <1>4
  <2>1. CASE i <= n
    BY <1>11, <2>1
  <2>2. CASE i > n
    <3>1. PICK k \in 1 .. m + 1 : i = n + k
      BY <1>13, <2>2
    <3>2. k <= m
      BY <3>1
    <3> QED BY <1>12, <3>1, <3>2
  <2> QED BY <2>1, <2>2
<1>17. \A i \in 1 .. Len(v) + 1 : h[i] \subseteq Seq(Symbols)
  <2> SUFFICES ASSUME NEW i \in 1 .. n + m + 1 PROVE h[i] \subseteq Seq(Symbols)
    BY <1>4
  <2>1. CASE i <= n
    <3>1. h[i] = Appended(g[i], x) /\ g[i] \in SUBSET Seq(Symbols)
      BY <1>6, <1>10, <2>1
    <3>2. \A r \in g[i] : Append(r, x) \in Seq(Symbols)
      BY <3>1, AppendProperties
    <3> QED BY <3>1, <3>2 DEF Appended
  <2>2. CASE i > n
    <3>1. PICK k \in 1 .. m + 1 : i = n + k
      BY <1>13, <2>2
    <3>2. h[i] = e[k] /\ k \in 1 .. Len(code) + 1
      BY <1>2, <1>6, <3>1
    <3> QED BY <3>2 DEF Decodes
  <2> QED BY <2>1, <2>2
<1>18. h[1] = {Append(out, x)}
  <2>1. h[1] = Appended(g[1], x)
    BY <1>9
  <2> QED BY <2>1 DEF Appended, Decodes
<1> QED BY <1>3, <1>15, <1>16, <1>17, <1>18 DEF Decodes

LEMMA ConsNothing ==
    ASSUME NEW x \in Symbols
    PROVE  Prefixed(x, {<< >>}) = {<<x>>} /\ <<x>> \in Seq(Symbols) /\ << >> \in Seq(Symbols)
<1>1. Cons(x, << >>) = <<x>>
  BY DEF Cons
<1>2. Prefixed(x, {<< >>}) = {Cons(x, << >>)}
  BY DEF Prefixed
<1> QED BY <1>1, <1>2

SignRead(sign) == IF sign = "+" THEN " " ELSE sign

LEMMA OneSignDecodes ==
    ASSUME NEW x \in Symbols, NEW sign \in Symbols \ {"%"}, x = SignRead(sign)
    PROVE  \E e : Decodes(<<sign>>, e, <<x>>)
<1>1. PICK code \in Seq(Symbols) : code = <<sign>>
  BY ConsNothing
<1>2. Len(code) = 1 /\ code[1] = sign
  BY <1>1
<1>3. PICK e : e = [i \in 1 .. 2 |-> IF i = 1 THEN {<<x>>} ELSE {<< >>}]
  OBVIOUS
<1>4. e[1] = {<<x>>} /\ e[2] = {<< >>}
  BY <1>3
<1>5. DecodeRound(code, e, 2) = {<< >>}
  <2>1. 2 \in 1 .. Len(code) + 1 /\ 2 = Len(code) + 1
    BY <1>2
  <2> QED BY <2>1, RoundCases
<1>6. DecodeRound(code, e, 1) = Prefixed(x, e[2])
  <2>1. 1 \in 1 .. Len(code) + 1 /\ 1 <= Len(code) /\ code[1] # "%" /\ 1 + 1 = 2
    BY <1>2
  <2>2. CASE sign = "+"
    BY <1>2, <2>1, <2>2, RoundCases DEF SignRead
  <2>3. CASE sign # "+"
    BY <1>2, <2>1, <2>3, RoundCases DEF SignRead
  <2> QED BY <2>2, <2>3
<1>7. e[1] = DecodeRound(code, e, 1) /\ e[2] = DecodeRound(code, e, 2)
  BY <1>4, <1>5, <1>6, ConsNothing
<1>8. IsDecoding(code, e)
  <2>1. e = [i \in 1 .. 2 |-> e[i]]
    BY <1>3
  <2>2. \A i \in 1 .. 2 : e[i] = DecodeRound(code, e, i)
    BY <1>7
  <2>3. e = [i \in 1 .. 2 |-> DecodeRound(code, e, i)]
    BY <2>1, <2>2
  <2> QED BY <1>2, <2>3 DEF IsDecoding
<1>9. \A i \in 1 .. Len(code) + 1 : e[i] \subseteq Seq(Symbols)
  <2>1. e[1] \subseteq Seq(Symbols) /\ e[2] \subseteq Seq(Symbols)
    BY <1>4, ConsNothing
  <2> QED BY <1>2, <2>1
<1>10. \A i \in 1 .. Len(code) : code[i] = "%" => i + 2 <= Len(code)
  BY <1>2
<1> QED BY <1>1, <1>4, <1>8, <1>9, <1>10 DEF Decodes

LEMMA SpelledOut ==
    ASSUME NEW a \in DOMAIN Hex, NEW b \in DOMAIN Hex, NEW x \in Symbols,
           x = Char(16 * Hex[a] + Hex[b])
    PROVE  \E e : Decodes(<<"%", a, b>>, e, <<x>>)
<1>1. a \in Symbols \ {"%", "+"} /\ b \in Symbols \ {"%", "+"} /\ "%" \in Symbols
  BY SomeSymbols DEF Hex
<1>2. PICK code \in Seq(Symbols) : code = <<"%", a, b>>
  <2>1. <<"%", a, b>> \in Seq(Symbols)
    BY <1>1
  <2> QED BY <2>1
<1>3. Len(code) = 3 /\ code[1] = "%" /\ code[2] = a /\ code[3] = b
  BY <1>2
<1>4. PICK tail : tail = Prefixed(a, {<<b>>})
  OBVIOUS
<1>5. PICK e : e = [i \in 1 .. 4 |-> CASE i = 1 -> {<<x>>} [] i = 2 -> tail
                                       [] i = 3 -> {<<b>>} [] i = 4 -> {<< >>}]
  OBVIOUS
<1>6. e[1] = {<<x>>} /\ e[2] = tail /\ e[3] = {<<b>>} /\ e[4] = {<< >>}
  BY <1>5
<1>7. HexRead(a, b) = {16 * Hex[a] + Hex[b]}
  <2>1. PICK c \in {2, 3, 15} : c = Hex[a]
    BY DEF Hex
  <2>2. PICK d \in {2, 3, 15} : d = Hex[b]
    BY DEF Hex
  <2>3. 16 * c + d \in 0 .. 255
    OBVIOUS
  <2>4. HexRead(a, b) = {n \in 0 .. 255 : n = 16 * c + d}
    <3>1. a \in DOMAIN Hex /\ b \in DOMAIN Hex
      OBVIOUS
    <3>2. ASSUME NEW n \in 0 .. 255 PROVE n \in HexRead(a, b) <=> n = 16 * c + d
      <4>1. a # "+" /\ a # "-"
        BY DEF Hex
      <4> QED BY <2>1, <2>2, <3>1, <4>1 DEF HexRead
    <3>3. HexRead(a, b) \subseteq 0 .. 255
      BY DEF HexRead
    <3> QED BY <3>2, <3>3
  <2> QED BY <2>1, <2>2, <2>3, <2>4
<1>8. DecodeRound(code, e, 1) = {<<x>>}
  <2>1. 1 \in 1 .. Len(code) + 1 /\ 1 <= Len(code) /\ 1 + 2 <= Len(code) /\ 1 + 1 = 2 /\ 1 + 2 = 3
        /\ 1 + 3 = 4
    BY <1>3
  <2>2. DecodeRound(code, e, 1) = Spelled(a, b, e[4])
    BY <1>3, <2>1, RoundCases
  <2>3. Spelled(a, b, {<< >>}) = {Cons(Char(16 * Hex[a] + Hex[b]), << >>)}
    BY <1>7 DEF Spelled
  <2>4. Cons(x, << >>) = <<x>>
    BY DEF Cons
  <2> QED BY <1>6, <2>2, <2>3, <2>4
<1>9. DecodeRound(code, e, 2) = tail
  <2>1. 2 \in 1 .. Len(code) + 1 /\ 2 <= Len(code) /\ 2 + 1 = 3
    BY <1>3
  <2>2. code[2] \notin {"%", "+"} /\ code[2] = a
    BY <1>1, <1>3
  <2>3. DecodeRound(code, e, 2) = Prefixed(a, e[2 + 1])
    BY <2>1, <2>2, RoundCases
  <2> QED BY <1>4, <1>6, <2>1, <2>3
<1>10. DecodeRound(code, e, 3) = {<<b>>}
  <2>1. 3 \in 1 .. Len(code) + 1 /\ 3 <= Len(code) /\ 3 + 1 = 4
    BY <1>3
  <2>2. code[3] \notin {"%", "+"} /\ code[3] = b
    BY <1>1, <1>3
  <2>3. DecodeRound(code, e, 3) = Prefixed(b, e[3 + 1])
    BY <2>1, <2>2, RoundCases
  <2> QED BY <1>1, <1>6, <2>1, <2>3, ConsNothing
<1>11. DecodeRound(code, e, 4) = {<< >>}
  <2>1. 4 \in 1 .. Len(code) + 1 /\ 4 = Len(code) + 1
    BY <1>3
  <2> QED BY <2>1, RoundCases
<1>12. IsDecoding(code, e)
  <2>1. e = [i \in 1 .. 4 |-> e[i]]
    BY <1>5
  <2>2. \A i \in 1 .. 4 : e[i] = DecodeRound(code, e, i)
    <3>1. /\ e[1] = DecodeRound(code, e, 1) /\ e[2] = DecodeRound(code, e, 2)
          /\ e[3] = DecodeRound(code, e, 3) /\ e[4] = DecodeRound(code, e, 4)
      BY <1>6, <1>8, <1>9, <1>10, <1>11
    <3>2. \A i \in 1 .. 4 : i = 1 \/ i = 2 \/ i = 3 \/ i = 4
      OBVIOUS
    <3> QED BY <3>1, <3>2
  <2>3. e = [i \in 1 .. 4 |-> DecodeRound(code, e, i)]
    BY <2>1, <2>2
  <2> QED BY <1>3, <2>3 DEF IsDecoding
<1>13. \A i \in 1 .. Len(code) + 1 : e[i] \subseteq Seq(Symbols)
  <2>1. {<<x>>} \subseteq Seq(Symbols) /\ {<<b>>} \subseteq Seq(Symbols) /\ {<< >>} \subseteq Seq(Symbols)
    BY <1>1
  <2>2. tail \subseteq Seq(Symbols)
    BY <1>1, <1>4, <2>1, PrefixedText
  <2>3. \A i \in 1 .. 4 : e[i] \subseteq Seq(Symbols)
    <3>1. \A i \in 1 .. 4 : i = 1 \/ i = 2 \/ i = 3 \/ i = 4
      OBVIOUS
    <3> QED BY <1>6, <2>1, <2>2, <3>1
  <2> QED BY <1>3, <2>3
<1>14. \A i \in 1 .. Len(code) : code[i] = "%" => i + 2 <= Len(code)
  BY <1>1, <1>3
<1> QED BY <1>2, <1>6, <1>12, <1>13, <1>14 DEF Decodes

\* However a client writes a character, it is read back.
LEMMA EncodingsDecode ==
    ASSUME NEW x \in Symbols \ {"%", "+"}, NEW code \in Encodings(x)
    PROVE  \E e : Decodes(code, e, <<x>>)
<1>1. CASE code = <<x>> /\ x # " "
  BY <1>1, OneSignDecodes DEF SignRead
<1>2. CASE code = <<"+">> /\ x = " "
  BY <1>2, SomeSymbols, OneSignDecodes DEF SignRead
<1>3. CASE \E a, b \in DOMAIN Hex : code = <<"%", a, b>> /\ Char(16 * Hex[a] + Hex[b]) = x
  BY <1>3, SpelledOut
<1> QED BY <1>1, <1>2, <1>3 DEF Encodings

\* What may be written without a code: its decoding is itself.
LEMMA PlainDecodes ==
    ASSUME NEW in \in Seq(Symbols \ {"%", "+"})
    PROVE  \E g : Decodes(in, g, in)
<1>1. PICK n \in Nat : n = Len(in)
  OBVIOUS
<1>2. in \in Seq(Symbols) /\ \A i \in 1 .. n : in[i] \in Symbols \ {"%", "+"}
  BY <1>1
<1>3. PICK g : g = [i \in 1 .. n + 1 |-> {SubSeq(in, i, n)}]
  OBVIOUS
<1>4. ASSUME NEW i \in 1 .. n + 1
      PROVE  g[i] = {SubSeq(in, i, n)} /\ SubSeq(in, i, n) \in Seq(Symbols)
  <2>1. g[i] = {SubSeq(in, i, n)}
    BY <1>3
  <2>2. SubSeq(in, i, n) \in Seq(Symbols)
    BY <1>1, <1>2
  <2> QED BY <2>1, <2>2
<1>5. ASSUME NEW i \in 1 .. n + 1 PROVE g[i] = DecodeRound(in, g, i)
  <2>1. i \in 1 .. Len(in) + 1
    BY <1>1
  <2>2. CASE i = n + 1
    <3>1. SubSeq(in, n + 1, n) = << >>
      BY <1>1, <1>2
    <3>2. DecodeRound(in, g, i) = {<< >>}
      BY <1>1, <1>2, <2>1, <2>2, RoundCases
    <3> QED BY <1>4, <2>2, <3>1, <3>2
  <2>3. CASE i \in 1 .. n
    <3>1. i <= Len(in) /\ in[i] \notin {"%", "+"} /\ i + 1 \in 1 .. n + 1
      BY <1>1, <1>2, <2>3
    <3>2. DecodeRound(in, g, i) = Prefixed(in[i], g[i + 1])
      BY <1>2, <2>1, <3>1, RoundCases
    <3>3. Cons(in[i], SubSeq(in, i + 1, n)) = SubSeq(in, i, n)
      <4>1. PICK rest \in Seq(Symbols) : rest = SubSeq(in, i + 1, n)
        BY <1>4, <3>1
      <4>2. PICK all \in Seq(Symbols) : all = SubSeq(in, i, n)
        BY <1>4
      <4>3. in[i] \in Symbols
        BY <1>2, <2>3
      <4>4. PICK both \in Seq(Symbols) : both = Cons(in[i], rest)
        BY <4>3, ConsIsText
      <4>5. Len(rest) = n - i /\ \A j \in 1 .. n - i : rest[j] = in[i + j]
        <5>1. Len(rest) = n - i
          BY <1>1, <1>2, <2>3, <4>1
        <5>2. ASSUME NEW j \in 1 .. n - i PROVE rest[j] = in[i + j]
          <6>1. rest[j] = in[(i + 1) + j - 1] /\ (i + 1) + j - 1 = i + j
            BY <1>1, <1>2, <2>3, <4>1
          <6> QED BY <6>1
        <5> QED BY <5>1, <5>2
      <4>6. Len(all) = n - i + 1 /\ \A j \in 1 .. n - i + 1 : all[j] = in[i + j - 1]
        BY <1>1, <1>2, <2>3, <4>2
      <4>7. /\ Len(both) = Len(rest) + 1 /\ both[1] = in[i]
            /\ \A j \in 1 .. Len(rest) : both[j + 1] = rest[j]
        BY <4>4 DEF Cons
      <4>8. Len(both) = Len(all)
        BY <2>3, <4>5, <4>6, <4>7
      <4>9. ASSUME NEW k \in 1 .. Len(both) PROVE both[k] = all[k]
        <5>1. CASE k = 1
          <6>1. all[1] = in[i + 1 - 1] /\ i + 1 - 1 = i
            BY <2>3, <4>6
          <6> QED BY <4>7, <5>1, <6>1
        <5>2. CASE k # 1
          <6>1. PICK j \in 1 .. n - i : k = j + 1
            <7>1. k - 1 \in 1 .. n - i /\ k = (k - 1) + 1
              BY <2>3, <4>5, <4>7, <5>2
            <7> QED BY <7>1
          <6>2. both[k] = in[i + j]
            BY <4>5, <4>7, <6>1
          <6>3. all[k] = in[i + (j + 1) - 1] /\ i + (j + 1) - 1 = i + j
            BY <2>3, <4>6, <6>1
          <6> QED BY <6>2, <6>3
        <5> QED BY <5>1, <5>2
      <4>10. both = all
        BY <4>8, <4>9, SeqEqual
      <4> QED BY <4>1, <4>2, <4>4, <4>10
    <3>4. Prefixed(in[i], {SubSeq(in, i + 1, n)}) = {SubSeq(in, i, n)}
      BY <3>3 DEF Prefixed
    <3>5. g[i + 1] = {SubSeq(in, i + 1, n)} /\ g[i] = {SubSeq(in, i, n)}
      BY <1>4, <3>1
    <3> QED BY <3>2, <3>4, <3>5
  <2> QED BY <2>2, <2>3
<1>6. IsDecoding(in, g)
  <2>1. g = [i \in 1 .. n + 1 |-> g[i]]
    BY <1>3
  <2>2. g = [i \in 1 .. n + 1 |-> DecodeRound(in, g, i)]
    BY <1>5, <2>1
  <2> QED BY <1>1, <2>2 DEF IsDecoding
<1>7. g[1] = {in}
  <2>1. g[1] = {SubSeq(in, 1, n)}
    BY <1>4
  <2>2. SubSeq(in, 1, n) = in
    BY <1>1, <1>2
  <2> QED BY <2>1, <2>2
<1>8. \A i \in 1 .. Len(in) + 1 : g[i] \subseteq Seq(Symbols)
  BY <1>1, <1>4
<1>9. \A i \in 1 .. Len(in) : in[i] = "%" => i + 2 <= Len(in)
  BY <1>1, <1>2
<1> QED BY <1>2, <1>6, <1>7, <1>8, <1>9 DEF Decodes

\* The inductive invariant: what was sent decodes to what was meant, and to
\* nothing that what is sent next could change.
UriInv == \E g : Decodes(uri, g, plain)

LEMMA UriInductive == Spec => []UriInv
<1>1. Init => UriInv
  <2> SUFFICES ASSUME Init PROVE UriInv
    OBVIOUS
  <2>1. plain \in Seq(STRING \ {"%", "+"}) /\ uri = plain
    BY ClientsWritePlainly DEF Init
  <2>2. plain \in Seq(Symbols \ {"%", "+"})
    <3>1. STRING \ {"%", "+"} \subseteq Symbols \ {"%", "+"}
      BY DEF Symbols
    <3>2. \A S, T : S \subseteq T => Seq(S) \subseteq Seq(T)
      OBVIOUS
    <3> QED BY <2>1, <3>1, <3>2
  <2> QED BY <2>1, <2>2, PlainDecodes DEF UriInv
<1>2. UriInv /\ [Next]_vars => UriInv'
  <2> SUFFICES ASSUME UriInv, [Next]_vars PROVE UriInv'
    OBVIOUS
  <2>1. PICK g : Decodes(uri, g, plain)
    BY DEF UriInv
  <2>2. ASSUME NEW x \in Written, Write(x) PROVE UriInv'
    <3>1. x \in Symbols \ {"%", "+"}
      BY ClientsWritePlainly DEF Symbols
    <3>2. PICK code \in Encodings(x) : uri' = uri \o code
      BY <2>2 DEF Write
    <3>3. PICK e : Decodes(code, e, <<x>>)
      BY <3>1, <3>2, EncodingsDecode
    <3>4. PICK h : Decodes(uri \o code, h, Append(plain, x))
      BY <2>1, <3>1, <3>3, DecodedTogether
    <3> QED BY <2>2, <3>2, <3>4 DEF UriInv, Write
  <2>3. CASE UNCHANGED vars
    BY <2>3 DEF UriInv, vars
  <2> QED BY <2>2, <2>3 DEF Next
<1> QED BY <1>1, <1>2, PTL DEF Spec

\* Whatever a client chose to encode, url_decode gives back what it meant: for
\* all characters it may write, except the percent sign and the plus, which
\* mean something else when they are not encoded, and paths of every length.
THEOREM UrlsDecode == Spec => []DecodeInverts
<1>1. UriInv => DecodeInverts
  BY DecodedText DEF UriInv, DecodeInverts
<1> QED BY <1>1, UriInductive, PTL

-----------------------------------------------------------------------------
(* The action of a path. *)

LEMMA GreatestFromZero ==
    ASSUME NEW n \in Nat, NEW T \in SUBSET (0 .. n), T # {}
    PROVE  Max(T) \in T /\ \A k \in T : k <= Max(T)
<1> DEFINE Below == {d \in 0 .. n : n - d \in T}
<1>1. PICK d \in Below : \A e \in Below : d <= e
  <2>1. Below \in SUBSET Nat
    OBVIOUS
  <2>2. PICK k \in T : TRUE
    OBVIOUS
  <2>3. n - k \in 0 .. n /\ n - (n - k) = k
    OBVIOUS
  <2>4. Below # {}
    BY <2>3
  <2> HIDE DEF Below
  <2> QED BY <2>1, <2>4, LeastNumber
<1>2. ASSUME NEW k \in T PROVE n - d >= k
  <2>1. n - k \in 0 .. n /\ n - (n - k) = k /\ d \in 0 .. n
    OBVIOUS
  <2>2. n - k \in Below
    BY <2>1
  <2>3. d <= n - k
    BY <1>1, <2>2
  <2> QED BY <2>1, <2>3
<1>3. n - d \in T /\ \A k \in T : n - d >= k
  BY <1>2
<1>4. Max(T) \in T /\ \A k \in T : Max(T) >= k
  BY <1>3 DEF Max
<1> QED BY <1>4

LEMMA GreatestNumber ==
    ASSUME NEW n \in Nat, NEW T \in SUBSET (1 .. n), T # {}
    PROVE  Max(T) \in T /\ \A k \in T : k <= Max(T)
<1>1. T \in SUBSET (0 .. n)
  OBVIOUS
<1> QED BY <1>1, GreatestFromZero

LEMMA SmallestNumber ==
    ASSUME NEW T \in SUBSET Nat, T # {}
    PROVE  Min(T) \in T /\ \A k \in T : Min(T) <= k
<1>1. \E m \in T : \A k \in T : m <= k
  BY LeastNumber
<1> QED BY <1>1 DEF Min

\* Three places are three in a row.
LEMMA ThreePlaces ==
    ASSUME NEW n \in Nat, NEW T \in SUBSET (1 .. n)
    PROVE  Cardinality(T) >= 3 <=> \E i, j, k \in T : i < j /\ j < k
<1>1. IsFiniteSet(T) /\ Cardinality(T) \in Nat
  <2>1. IsFiniteSet(1 .. n)
    BY FS_Interval
  <2>2. IsFiniteSet(T)
    BY <2>1, FS_Subset
  <2> QED BY <2>2, FS_CardinalityType
<1>2. ASSUME NEW i \in T, NEW j \in T, NEW k \in T, i < j, j < k
      PROVE  Cardinality(T) >= 3
  <2>1. IsFiniteSet({i}) /\ Cardinality({i}) = 1
    BY FS_Singleton
  <2>2. j \notin {i} /\ k \notin {i} \cup {j}
    BY <1>2
  <2>3. IsFiniteSet({i} \cup {j}) /\ Cardinality({i} \cup {j}) = 2
    BY <2>1, <2>2, FS_AddElement
  <2>4. Cardinality(({i} \cup {j}) \cup {k}) = 3
    BY <2>2, <2>3, FS_AddElement
  <2>5. ({i} \cup {j}) \cup {k} \in SUBSET T
    OBVIOUS
  <2>6. Cardinality(({i} \cup {j}) \cup {k}) <= Cardinality(T)
    BY <1>1, <2>5, FS_Subset
  <2> QED BY <1>1, <2>4, <2>6
<1>3. ASSUME Cardinality(T) >= 3 PROVE \E i, j, k \in T : i < j /\ j < k
  <2>0. \A S : IsFiniteSet(S) /\ Cardinality(S) # 0 => \E x \in S : TRUE
    <3> SUFFICES ASSUME NEW S, IsFiniteSet(S), Cardinality(S) # 0 PROVE S # {}
      OBVIOUS
    <3> QED BY FS_EmptySet
  <2>1. PICK a \in T : TRUE
    <3>1. Cardinality(T) # 0
      BY <1>1, <1>3
    <3> QED BY <1>1, <2>0, <3>1
  <2>2. IsFiniteSet(T \ {a}) /\ Cardinality(T \ {a}) = Cardinality(T) - 1
    BY <1>1, FS_RemoveElement
  <2>3. PICK b \in T \ {a} : TRUE
    <3>1. Cardinality(T \ {a}) # 0
      BY <1>1, <1>3, <2>2
    <3> QED BY <2>0, <2>2, <3>1
  <2>4. IsFiniteSet((T \ {a}) \ {b}) /\ Cardinality((T \ {a}) \ {b}) = Cardinality(T) - 2
    BY <1>1, <2>2, FS_RemoveElement
  <2>5. PICK c \in (T \ {a}) \ {b} : TRUE
    <3>1. Cardinality((T \ {a}) \ {b}) # 0
      BY <1>1, <1>3, <2>4
    <3> QED BY <2>0, <2>4, <3>1
  <2>6. /\ a \in 1 .. n /\ b \in 1 .. n /\ c \in 1 .. n
        /\ a # b /\ a # c /\ b # c
    OBVIOUS
  <2>7. \/ a < b /\ b < c
        \/ a < c /\ c < b
        \/ b < a /\ a < c
        \/ b < c /\ c < a
        \/ c < a /\ a < b
        \/ c < b /\ b < a
    BY <2>6
  <2> QED BY <2>7
<1> QED BY <1>2, <1>3

\* The greedy match ends with the last mark and the last slash before it.
LEMMA GreedyIsLast ==
    ASSUME NEW n \in Nat, NEW slashes \in SUBSET (1 .. n), NEW marks \in SUBSET (1 .. n),
           HasMatch(slashes, marks)
    PROVE  /\ Max(marks) \in marks
           /\ {i \in slashes : i < Max(marks)} # {}
           /\ Greedy(slashes, marks) = [slash |-> Max({i \in slashes : i < Max(marks)}),
                                        mark |-> Max(marks)]
<1>1. PICK a \in slashes, b \in slashes, c \in slashes, q \in marks : a < b /\ b < c /\ c < q
  BY DEF HasMatch
<1>2. PICK last \in marks : last = Max(marks) /\ \A r \in marks : r <= last
  BY <1>1, GreatestNumber
<1>3. PICK first \in slashes : first = Min(slashes) /\ first <= a
  <2>1. slashes \in SUBSET Nat
    OBVIOUS
  <2> QED BY <1>1, <2>1, SmallestNumber
<1> DEFINE Seconds == {i \in slashes : i > first /\ \E j \in slashes : \E r \in marks : i < j /\ j < r}
<1>4. PICK second \in Seconds : second = Max(Seconds)
  <2>1. b \in Seconds
    BY <1>1, <1>3
  <2>2. Seconds \in SUBSET (1 .. n)
    OBVIOUS
  <2> HIDE DEF Seconds
  <2> QED BY <2>1, <2>2, GreatestNumber
<1>5. PICK j \in slashes : second < j /\ j < last
  <2>1. PICK j \in slashes, r \in marks : second < j /\ j < r
    OBVIOUS
  <2> QED BY <1>2, <2>1
<1> DEFINE Thirds == {i \in slashes : i > second /\ \E r \in marks : i < r}
           Before == {i \in slashes : i < last}
<1>6. Thirds = {i \in Before : i > second}
  <2>1. ASSUME NEW i \in slashes PROVE (\E r \in marks : i < r) <=> i < last
    BY <1>2
  <2> QED BY <2>1
<1>7. PICK third \in Before : third = Max(Before) /\ \A i \in Before : i <= third
  <2>1. Before \in SUBSET (1 .. n) /\ Before # {}
    BY <1>5
  <2> HIDE DEF Before
  <2> QED BY <2>1, GreatestNumber
<1>8. third \in Thirds /\ \A i \in Thirds : i <= third
  <2>1. j \in Before
    BY <1>5
  <2>2. j <= third
    BY <1>7, <2>1
  <2>3. third > second
    BY <1>5, <2>2
  <2> QED BY <1>6, <1>7, <2>3
<1>9. Max(Thirds) = third
  <2>1. Thirds \in SUBSET (1 .. n)
    OBVIOUS
  <2>2. third \in Nat
    OBVIOUS
  <2> HIDE DEF Thirds
  <2>3. Max(Thirds) \in Thirds /\ \A i \in Thirds : i <= Max(Thirds)
    BY <1>8, <2>1, GreatestNumber
  <2>4. Max(Thirds) <= third /\ third <= Max(Thirds) /\ Max(Thirds) \in 1 .. n
    BY <1>8, <2>1, <2>3
  <2> QED BY <2>2, <2>4
<1> DEFINE Beyond == {r \in marks : r > third}
<1>10. Max(Beyond) = last
  <2>1. last \in Beyond /\ Beyond \in SUBSET (1 .. n) /\ \A r \in Beyond : r <= last
    BY <1>2, <1>7
  <2> HIDE DEF Beyond
  <2>2. Max(Beyond) \in Beyond /\ \A r \in Beyond : r <= Max(Beyond)
    BY <2>1, GreatestNumber
  <2>3. Max(Beyond) <= last /\ last <= Max(Beyond) /\ Max(Beyond) \in 1 .. n /\ last \in 1 .. n
    BY <2>1, <2>2
  <2> QED BY <2>3
<1>11. Greedy(slashes, marks) = [slash |-> Max(Thirds), mark |-> Max(Beyond)]
  <2>1. Min(slashes) = first /\ Max(Seconds) = second /\ Max(Thirds) = third
    BY <1>3, <1>4, <1>9
  <2>2. Greedy(slashes, marks) =
          LET f == Min(slashes)
              s == Max({i \in slashes : i > f /\ \E k \in slashes : \E r \in marks : i < k /\ k < r})
              t == Max({i \in slashes : i > s /\ \E r \in marks : i < r})
          IN  [slash |-> t, mark |-> Max({r \in marks : r > t})]
    BY DEF Greedy
  <2> QED BY <2>1, <2>2
<1> QED BY <1>2, <1>5, <1>7, <1>9, <1>10, <1>11

\* The action of a segment is that of the only word it can be.
LEMMA ActionOfWord ==
    ASSUME NEW S, NEW segment \in Seq(S), NEW actions
    PROVE  LET named == {a \in DOMAIN actions : segment = <<a>>}
           IN  ActionOf(segment, actions) =
                   IF named = {} THEN "WEBI_ACTION_NOT_RECOGNIZED"
                   ELSE actions[CHOOSE a \in named : TRUE]
<1> DEFINE named == {a \in DOMAIN actions : segment = <<a>>}
<1>1. CASE Len(segment) = 1 /\ segment[1] \in DOMAIN actions
  <2>1. segment = <<segment[1]>>
    BY <1>1
  <2>2. named = {segment[1]}
    <3>1. \A a : segment = <<a>> => a = segment[1]
      OBVIOUS
    <3> QED BY <1>1, <2>1, <3>1
  <2>3. (CHOOSE a \in named : TRUE) = segment[1]
    BY <2>2
  <2> QED BY <1>1, <2>2, <2>3 DEF ActionOf
<1>2. CASE ~(Len(segment) = 1 /\ segment[1] \in DOMAIN actions)
  <2>1. \A a : segment = <<a>> => Len(segment) = 1 /\ segment[1] = a
    OBVIOUS
  <2>2. named = {}
    BY <1>2, <2>1
  <2> QED BY <1>2, <2>2 DEF ActionOf
<1> QED BY <1>1, <1>2

LEMMA PartsOfText ==
    ASSUME NEW s, NEW t
    PROVE  t \in SubSeqs(s) <=> \E i, j \in 0 .. Len(s) : t = SubSeq(s, i + 1, j)
BY DEF SubSeqs

\* Two dots in a row are a part of the path.
LEMMA DotsAreAPart ==
    ASSUME NEW path \in Seq(Symbols)
    PROVE  <<".", ".">> \in SubSeqs(path) <=>
               \E i \in 1 .. Len(path) - 1 : path[i] = "." /\ path[i + 1] = "."
<1>1. PICK n \in Nat : n = Len(path)
  OBVIOUS
<1>2. ASSUME NEW i \in 1 .. n - 1, path[i] = ".", path[i + 1] = "."
      PROVE  <<".", ".">> \in SubSeqs(path)
  <2>1. /\ i - 1 \in 0 .. Len(path) /\ i + 1 \in 0 .. Len(path) /\ (i - 1) + 1 = i
        /\ i \in 1 .. n /\ i + 1 \in 1 .. n
    BY <1>1
  <2>2. SubSeq(path, (i - 1) + 1, i + 1) \in SubSeqs(path)
    BY <2>1, PartsOfText
  <2>3. PICK two \in Seq(Symbols) : two = SubSeq(path, i, i + 1)
    <3>1. SubSeq(path, i, i + 1) \in Seq(Symbols)
      BY <1>1, <2>1
    <3> QED BY <3>1
  <2>4. PICK dot \in Symbols : dot = "."
    BY <1>1, <1>2, <2>1
  <2>5. PICK dots \in Seq(Symbols) : dots = <<dot, dot>>
    <3>1. <<dot, dot>> \in Seq(Symbols)
      OBVIOUS
    <3> QED BY <3>1
  <2>6. Len(two) = 2 /\ two[1] = dot /\ two[2] = dot
    <3>1. Len(two) = (i + 1) - i + 1
      BY <1>1, <2>1, <2>3
    <3>2. two[1] = path[i + 1 - 1] /\ two[2] = path[i + 2 - 1]
      BY <1>1, <2>1, <2>3
    <3>3. i + 1 - 1 = i /\ i + 2 - 1 = i + 1
      OBVIOUS
    <3> QED BY <1>2, <2>4, <3>1, <3>2, <3>3
  <2>7. Len(dots) = 2 /\ dots[1] = dot /\ dots[2] = dot
    BY <2>5
  <2>8. two = dots
    <3>1. \A k \in 1 .. 2 : two[k] = dots[k]
      <4>1. \A k \in 1 .. 2 : k = 1 \/ k = 2
        OBVIOUS
      <4> QED BY <2>6, <2>7, <4>1
    <3> QED BY <2>6, <2>7, <3>1, SeqEqual
  <2> QED BY <2>1, <2>2, <2>3, <2>4, <2>5, <2>8
<1>3. ASSUME <<".", ".">> \in SubSeqs(path)
      PROVE  \E i \in 1 .. n - 1 : path[i] = "." /\ path[i + 1] = "."
  <2>1. PICK i \in 0 .. n, j \in 0 .. n : SubSeq(path, i + 1, j) = <<".", ".">>
    BY <1>1, <1>3, PartsOfText
  <2>2. PICK two : two = SubSeq(path, i + 1, j)
    OBVIOUS
  <2>3. Len(two) = 2 /\ two[1] = "." /\ two[2] = "."
    <3>1. PICK dot : dot = "."
      OBVIOUS
    <3>2. two = <<dot, dot>>
      BY <2>1, <2>2, <3>1
    <3>3. Len(two) = 2 /\ two[1] = dot /\ two[2] = dot
      BY <3>2
    <3> QED BY <3>1, <3>3
  <2>4. j = i + 2
    <3>1. i + 1 <= j => Len(two) = j - (i + 1) + 1
      BY <1>1, <2>2
    <3>2. ~(i + 1 <= j) => Len(two) = 0
      BY <1>1, <2>2
    <3>3. Len(two) = 2
      BY <2>3
    <3>4. i + 1 <= j /\ 2 = j - (i + 1) + 1
      BY <3>1, <3>2, <3>3
    <3> QED BY <3>4
  <2>5. two[1] = path[(i + 1) + 1 - 1] /\ two[2] = path[(i + 1) + 2 - 1]
    BY <1>1, <2>2, <2>4
  <2>6. (i + 1) + 1 - 1 = i + 1 /\ (i + 1) + 2 - 1 = (i + 1) + 1 /\ i + 1 \in 1 .. n - 1
    BY <2>4
  <2> QED BY <2>3, <2>5, <2>6
<1> QED BY <1>1, <1>2, <1>3

\* The index of a directory has the slashes and marks of the directory.
LEMMA IndexSegments ==
    ASSUME NEW path \in Seq(Symbols), path # << >>
    PROVE  LET n     == Len(path)
               index == WithIndex(path)
           IN  /\ n \in Nat \ {0}
               /\ Len(index) = n + (IF path[n] = "/" THEN 1 ELSE 0)
               /\ Slashes(path) \in SUBSET (1 .. n) /\ Marks(path) \in SUBSET (1 .. n)
               /\ Slashes(index) = Slashes(path) /\ Marks(index) = Marks(path)
               /\ \A i \in 1 .. n + 1, j \in 0 .. n :
                      SubSeq(index, i, j) = SubSeq(path, i, j) /\ SubSeq(path, i, j) \in Seq(Symbols)
               /\ path[n] = "/" => SubSeq(index, n + 1, n + 1) = <<"index.html">>
<1>1. PICK n \in Nat \ {0} : n = Len(path)
  BY EmptySeq
<1>2. PICK index : index = WithIndex(path)
  OBVIOUS
<1>3. Slashes(path) \in SUBSET (1 .. n) /\ Marks(path) \in SUBSET (1 .. n)
  BY <1>1 DEF Slashes, Marks
<1>4. ASSUME NEW i \in 1 .. n + 1, NEW j \in 0 .. n PROVE SubSeq(path, i, j) \in Seq(Symbols)
  BY <1>1
<1>5. CASE path[n] # "/"
  BY <1>1, <1>2, <1>3, <1>4, <1>5 DEF WithIndex
<1>6. CASE path[n] = "/"
  <2>1. index = Append(path, "index.html")
    BY <1>1, <1>2, <1>6 DEF WithIndex
  <2>2. PICK wide : wide = Symbols \cup {"index.html"}
    OBVIOUS
  <2>3. path \in Seq(wide) /\ index \in Seq(wide)
    BY <2>1, <2>2
  <2>4. /\ Len(index) = n + 1 /\ index[n + 1] = "index.html"
        /\ \A i \in 1 .. n : index[i] = path[i]
    BY <1>1, <2>1
  <2>5. Slashes(index) = Slashes(path) /\ Marks(index) = Marks(path)
    <3>1. DOMAIN index = 1 .. n + 1 /\ DOMAIN path = 1 .. n
      BY <1>1, <2>3, <2>4
    <3>2. index[n + 1] # "/" /\ index[n + 1] # "?"
      BY <2>4
    <3> QED BY <2>4, <3>1, <3>2 DEF Slashes, Marks
  <2>6. ASSUME NEW i \in 1 .. n + 1, NEW j \in 0 .. n
        PROVE  SubSeq(index, i, j) = SubSeq(path, i, j)
    BY <1>1, <2>3, <2>4
  <2>7. SubSeq(index, n + 1, n + 1) = <<"index.html">>
    <3>1. PICK last \in wide : last = "index.html"
      BY <2>2
    <3>2. SubSeq(index, n + 1, n + 1) = <<last>>
      <4>1. PICK one \in Seq(wide) : one = SubSeq(index, n + 1, n + 1)
        <5>1. SubSeq(index, n + 1, n + 1) \in Seq(wide)
          BY <2>3, <2>4
        <5> QED BY <5>1
      <4>2. Len(one) = 1 /\ one[1] = last
        <5>1. Len(one) = (n + 1) - (n + 1) + 1
          BY <2>3, <2>4, <4>1
        <5>2. one[1] = index[(n + 1) + 1 - 1] /\ (n + 1) + 1 - 1 = n + 1
          BY <2>3, <2>4, <4>1
        <5> QED BY <2>4, <3>1, <5>1, <5>2
      <4>3. PICK same \in Seq(wide) : same = <<last>>
        <5>1. <<last>> \in Seq(wide)
          OBVIOUS
        <5> QED BY <5>1
      <4>4. Len(same) = 1 /\ same[1] = last
        BY <4>3
      <4>5. one = same
        <5>1. \A k \in 1 .. Len(one) : k = 1
          BY <4>2
        <5> QED BY <4>2, <4>4, <5>1, SeqEqual
      <4> QED BY <4>1, <4>3, <4>5
    <3> QED BY <3>1, <3>2
  <2> QED BY <1>1, <1>2, <1>3, <1>4, <1>6, <2>4, <2>5, <2>6, <2>7
<1> QED BY <1>5, <1>6

\* What UrlHandling says a path means, of any path.
MarkOf(path) == {q \in Marks(path) :
                    /\ Cardinality({i \in Slashes(path) : i < q}) >= 3
                    /\ \A r \in Marks(path) : r <= q}

WordOf(path, actions, end) ==
    LET start == Max({i \in Slashes(path) : i < end})
        named == {a \in DOMAIN actions : SubSeq(path, start + 1, end - 1) = <<a>>}
    IN  IF named = {} THEN "WEBI_ACTION_NOT_RECOGNIZED" ELSE actions[CHOOSE a \in named : TRUE]

MeantBy(path) ==
    IF MarkOf(path) # {} THEN WordOf(path, ActionsWithParams, Max(MarkOf(path)))
    ELSE IF Cardinality(Slashes(path)) >= 3 THEN WordOf(path, ActionsNoParams, Len(path) + 1)
    ELSE "WEBI_ACTION_NOT_RECOGNIZED"

LEMMA WordOfSegment ==
    ASSUME NEW path, NEW actions, NEW end,
           SubSeq(path, Max({i \in Slashes(path) : i < end}) + 1, end - 1) \in Seq(Symbols)
    PROVE  WordOf(path, actions, end) =
               ActionOf(SubSeq(path, Max({i \in Slashes(path) : i < end}) + 1, end - 1), actions)
BY ActionOfWord DEF WordOf

\* There is a match where the last mark has three slashes before it.
LEMMA MatchIsMeant ==
    ASSUME NEW path \in Seq(Symbols)
    PROVE  /\ HasMatch(Slashes(path), Marks(path)) <=> MarkOf(path) # {}
           /\ MarkOf(path) # {} => Max(MarkOf(path)) = Max(Marks(path))
<1>1. PICK n \in Nat : n = Len(path)
  OBVIOUS
<1>2. PICK slashes \in SUBSET (1 .. n) : slashes = Slashes(path)
  <2>1. Slashes(path) \in SUBSET (1 .. n)
    BY <1>1 DEF Slashes
  <2> QED BY <2>1
<1>3. PICK marks \in SUBSET (1 .. n) : marks = Marks(path)
  <2>1. Marks(path) \in SUBSET (1 .. n)
    BY <1>1 DEF Marks
  <2> QED BY <2>1
<1>4. ASSUME NEW q \in marks
      PROVE  Cardinality({i \in slashes : i < q}) >= 3 <=>
                 \E i, j, k \in slashes : i < j /\ j < k /\ k < q
  <2>1. PICK before \in SUBSET (1 .. n) : before = {i \in slashes : i < q}
    OBVIOUS
  <2>2. Cardinality(before) >= 3 <=> \E i, j, k \in before : i < j /\ j < k
    BY ThreePlaces
  <2>3. (\E i, j, k \in before : i < j /\ j < k) <=>
            \E i, j, k \in slashes : i < j /\ j < k /\ k < q
    BY <2>1
  <2> QED BY <2>1, <2>2, <2>3
<1>5. MarkOf(path) = {q \in marks : /\ \E i, j, k \in slashes : i < j /\ j < k /\ k < q
                                    /\ \A r \in marks : r <= q}
  BY <1>2, <1>3, <1>4 DEF MarkOf
<1>6. ASSUME NEW q \in MarkOf(path)
      PROVE  HasMatch(slashes, marks) /\ q = Max(marks)
  <2>1. HasMatch(slashes, marks) /\ q \in marks /\ \A r \in marks : r <= q
    <3>1. /\ q \in marks /\ \A r \in marks : r <= q
          /\ \E i, j, k \in slashes : i < j /\ j < k /\ k < q
      BY <1>5
    <3> QED BY <3>1 DEF HasMatch
  <2>2. Max(marks) \in marks /\ q <= Max(marks)
    BY <2>1, GreatestNumber
  <2>3. Max(marks) <= q /\ Max(marks) \in 1 .. n /\ q \in 1 .. n
    BY <2>1, <2>2
  <2> QED BY <2>1, <2>2, <2>3
<1>7. ASSUME HasMatch(slashes, marks) PROVE Max(marks) \in MarkOf(path)
  <2>1. PICK i \in slashes, j \in slashes, k \in slashes, q \in marks : i < j /\ j < k /\ k < q
    BY <1>7 DEF HasMatch
  <2>2. PICK last \in marks : last = Max(marks) /\ \A r \in marks : r <= last
    BY <2>1, GreatestNumber
  <2>3. k < last
    BY <2>1, <2>2
  <2> QED BY <1>5, <2>1, <2>2, <2>3
<1>8. MarkOf(path) # {} => Max(MarkOf(path)) = Max(marks)
  <2>1. ASSUME NEW q \in MarkOf(path) PROVE Max(MarkOf(path)) = Max(marks)
    <3>1. MarkOf(path) \in SUBSET (1 .. n)
      BY <1>5
    <3>2. Max(MarkOf(path)) \in MarkOf(path)
      BY <3>1, GreatestNumber
    <3> QED BY <1>6, <3>2
  <2> QED BY <2>1
<1>9. MarkOf(path) # {} <=> HasMatch(slashes, marks)
  BY <1>6, <1>7
<1> QED BY <1>2, <1>3, <1>8, <1>9

LEMMA DispatchIsMeant ==
    ASSUME NEW path \in Seq(Symbols), path # << >>
    PROVE  dispatch(WithIndex(path)).action = MeantBy(path)
<1>1. PICK n \in Nat \ {0} : n = Len(path)
  BY IndexSegments
<1>2. PICK index : index = WithIndex(path)
  OBVIOUS
<1>3. PICK slashes \in SUBSET (1 .. n) : slashes = Slashes(path)
  BY <1>1, IndexSegments
<1>4. PICK marks \in SUBSET (1 .. n) : marks = Marks(path)
  BY <1>1, IndexSegments
<1>5. /\ Slashes(index) = slashes /\ Marks(index) = marks
      /\ path[n] # "/" => Len(index) = n
      /\ path[n] = "/" => Len(index) = n + 1 /\ SubSeq(index, n + 1, n + 1) = <<"index.html">>
      /\ \A i \in 1 .. n + 1, j \in 0 .. n :
             SubSeq(index, i, j) = SubSeq(path, i, j) /\ SubSeq(path, i, j) \in Seq(Symbols)
  BY <1>1, <1>2, <1>3, <1>4, IndexSegments
<1>6. CASE HasMatch(slashes, marks)
  <2>1. PICK m : m = Greedy(slashes, marks)
    OBVIOUS
  <2>2. PICK last \in marks : last = Max(marks)
    BY <1>6, GreedyIsLast
  <2>3. {i \in slashes : i < last} # {} /\ m.mark = last
        /\ m.slash = Max({i \in slashes : i < last})
    <3>1. /\ {i \in slashes : i < Max(marks)} # {}
          /\ m = [slash |-> Max({i \in slashes : i < Max(marks)}), mark |-> Max(marks)]
      BY <1>6, <2>1, GreedyIsLast
    <3>2. m = [slash |-> Max({i \in slashes : i < last}), mark |-> last]
      BY <2>2, <3>1, Zenon
    <3> QED BY <2>2, <3>1, <3>2
  <2>4. m.slash \in 1 .. n
    <3>1. PICK before \in SUBSET (1 .. n) : before = {i \in slashes : i < last}
      OBVIOUS
    <3> QED BY <2>3, <3>1, GreatestNumber
  <2>5. m.slash + 1 \in 1 .. n + 1 /\ last - 1 \in 0 .. n
    BY <2>4
  <2>6. PICK segment \in Seq(Symbols) : /\ segment = SubSeq(path, m.slash + 1, last - 1)
                                        /\ segment = SubSeq(index, m.slash + 1, last - 1)
    BY <1>5, <2>5
  <2>7. dispatch(index).action = ActionOf(segment, ActionsWithParams)
    BY <1>5, <1>6, <2>1, <2>3, <2>6 DEF dispatch, Handled
  <2>8. MeantBy(path) = WordOf(path, ActionsWithParams, last)
    BY <1>3, <1>4, <1>6, <2>2, MatchIsMeant DEF MeantBy
  <2>9. WordOf(path, ActionsWithParams, last) = ActionOf(segment, ActionsWithParams)
    <3>1. SubSeq(path, Max({i \in Slashes(path) : i < last}) + 1, last - 1) = segment
      BY <1>3, <2>3, <2>6
    <3> QED BY <3>1, WordOfSegment
  <2> QED BY <1>2, <2>7, <2>8, <2>9
<1>7. CASE ~HasMatch(slashes, marks) /\ HasMatch(slashes, {Len(index) + 1})
  <2>1. PICK end \in 1 .. n + 2 : end = Len(index) + 1 /\ end > n
    BY <1>1, <1>5
  <2>2. PICK m : m = Greedy(slashes, {end})
    OBVIOUS
  <2>3. Max({end}) = end
    BY DEF Max
  <2>4. slashes # {} /\ m.mark = end /\ m.slash = Max({i \in slashes : i < end})
    <3>1. slashes \in SUBSET (1 .. n + 2) /\ {end} \in SUBSET (1 .. n + 2) /\ n + 2 \in Nat
      OBVIOUS
    <3>2. /\ {i \in slashes : i < Max({end})} # {}
          /\ m = [slash |-> Max({i \in slashes : i < Max({end})}), mark |-> Max({end})]
      BY <1>7, <2>1, <2>2, <3>1, GreedyIsLast
    <3>3. m = [slash |-> Max({i \in slashes : i < end}), mark |-> end]
      BY <2>3, <3>2, Zenon
    <3> QED BY <3>2, <3>3
  <2>5. {i \in slashes : i < end} = slashes /\ {i \in slashes : i < n + 1} = slashes
    <3>1. \A i \in slashes : i < end /\ i < n + 1
      BY <2>1
    <3> QED BY <3>1
  <2>6. PICK slash \in 1 .. n : /\ slash = m.slash /\ slash = Max(slashes) /\ slash \in slashes
                                /\ \A i \in slashes : i <= slash
    BY <2>4, <2>5, GreatestNumber
  <2>7. PICK segment : segment = SubSeq(index, slash + 1, Len(index))
    OBVIOUS
  <2>8. dispatch(index).action = ActionOf(segment, ActionsNoParams)
    BY <1>5, <1>7, <2>1, <2>2, <2>6, <2>7 DEF dispatch, Handled
  <2>9. Cardinality(slashes) >= 3
    <3>1. \E i, j, k \in slashes : i < j /\ j < k
      BY <1>7 DEF HasMatch
    <3> QED BY <3>1, ThreePlaces
  <2>10. MeantBy(path) = WordOf(path, ActionsNoParams, n + 1)
    BY <1>1, <1>3, <1>4, <1>7, <2>9, MatchIsMeant DEF MeantBy
  <2>11. PICK word \in Seq(Symbols) : word = SubSeq(path, slash + 1, n)
    <3>1. slash + 1 \in 1 .. n + 1 /\ n \in 0 .. n
      BY <2>6
    <3> QED BY <1>5, <3>1
  <2>12. MeantBy(path) = ActionOf(word, ActionsNoParams)
    <3>1. PICK past : past = n + 1 /\ past - 1 = n /\ {i \in slashes : i < past} = slashes
      <4>1. n + 1 = n + 1 /\ n + 1 - 1 = n
        OBVIOUS
      <4> QED BY <2>5, <4>1
    <3>2. SubSeq(path, Max({i \in Slashes(path) : i < past}) + 1, past - 1) = word
      BY <1>3, <2>6, <2>11, <3>1
    <3>3. WordOf(path, ActionsNoParams, past) = ActionOf(word, ActionsNoParams)
      BY <3>2, WordOfSegment
    <3> QED BY <2>10, <3>1, <3>3
  <2>13. CASE path[n] # "/"
    <3>1. segment = word
      <4>1. slash + 1 \in 1 .. n + 1 /\ n \in 0 .. n
        BY <2>6
      <4> QED BY <1>5, <2>7, <2>11, <2>13, <4>1
    <3> QED BY <1>2, <2>8, <2>12, <3>1
  <2>14. CASE path[n] = "/"
    <3>1. n \in slashes
      BY <1>1, <1>3, <2>14 DEF Slashes
    <3>2. slash = n
      BY <2>6, <3>1
    <3>3. segment = <<"index.html">>
      BY <1>5, <2>7, <2>14, <3>2
    <3>4. word = << >>
      BY <1>1, <2>11, <3>2
    <3>5. "index.html" \notin DOMAIN ActionsNoParams
      BY DEF ActionsNoParams
    <3>6. ActionOf(segment, ActionsNoParams) = "WEBI_ACTION_NOT_RECOGNIZED"
      <4>1. segment[1] = "index.html"
        BY <3>3
      <4> QED BY <3>5, <4>1 DEF ActionOf
    <3>7. ActionOf(word, ActionsNoParams) = "WEBI_ACTION_NOT_RECOGNIZED"
      <4>1. Len(word) # 1
        BY <3>4
      <4> QED BY <4>1 DEF ActionOf
    <3> QED BY <1>2, <2>8, <2>12, <3>6, <3>7
  <2> QED BY <2>13, <2>14
<1>8. CASE ~HasMatch(slashes, marks) /\ ~HasMatch(slashes, {Len(index) + 1})
  <2>1. ~(Cardinality(slashes) >= 3)
    <3>1. ASSUME NEW i \in slashes, NEW j \in slashes, NEW k \in slashes, i < j, j < k PROVE FALSE
      <4>1. k < Len(index) + 1
        BY <1>1, <1>5
      <4> QED BY <1>8, <3>1, <4>1 DEF HasMatch
    <3> QED BY <3>1, ThreePlaces
  <2>2. dispatch(index).action = "WEBI_ACTION_NOT_RECOGNIZED"
    BY <1>5, <1>8 DEF dispatch, Handled
  <2>3. MeantBy(path) = "WEBI_ACTION_NOT_RECOGNIZED"
    BY <1>3, <1>4, <1>8, <2>1, MatchIsMeant DEF MeantBy
  <2> QED BY <1>2, <2>2, <2>3
<1> QED BY <1>6, <1>7, <1>8

\* The session handler is asked for the action the client named, whatever is
\* encoded, whatever the number of slashes, marks and parameters; what is not a
\* path, or goes up, is refused: for all characters a client may write plainly,
\* and paths of every length.
THEOREM NamedActionIsDone == Spec => []ActionIsTheNamedOne
<1>1. UriInv => ActionIsTheNamedOne
  <2> SUFFICES ASSUME UriInv PROVE ActionIsTheNamedOne
    OBVIOUS
  <2>1. url_decode(uri) = {plain}
    BY DecodedText DEF UriInv
  <2>2. plain \in Seq(Symbols)
    <3>1. PICK g : Decodes(uri, g, plain)
      BY DEF UriInv
    <3>2. PICK n \in Nat : n = Len(uri)
      BY <3>1 DEF Decodes
    <3>3. 1 \in 1 .. n + 1
      OBVIOUS
    <3> QED BY <3>1, <3>2, <3>3 DEF Decodes
  <2>3. IsAbsolute(plain) <=>
            ~(plain = << >> \/ plain[1] # "/" \/ <<".", ".">> \in SubSeqs(plain))
    BY <2>2, DotsAreAPart DEF IsAbsolute
  <2>4. handle_request(uri).action =
            IF plain = << >> \/ plain[1] # "/" \/ <<".", ".">> \in SubSeqs(plain) THEN ""
            ELSE MeantBy(plain)
    <3>1. CASE IsAbsolute(plain)
      <4>1. plain # << >>
        BY <3>1 DEF IsAbsolute
      <4>2. handle_request(uri) = dispatch(WithIndex(plain))
        <5>1. (CHOOSE path \in {plain} : TRUE) = plain
          OBVIOUS
        <5>2. \E path \in {plain} : IsAbsolute(path)
          BY <3>1
        <5> QED BY <2>1, <5>1, <5>2 DEF handle_request
      <4>3. dispatch(WithIndex(plain)).action = MeantBy(plain)
        BY <2>2, <4>1, DispatchIsMeant
      <4> QED BY <2>3, <3>1, <4>2, <4>3
    <3>2. CASE ~IsAbsolute(plain)
      <4>1. ~(\E path \in url_decode(uri) : IsAbsolute(path))
        BY <2>1, <3>2
      <4>2. handle_request(uri) = BadRequest
        BY <4>1 DEF handle_request
      <4>3. BadRequest.action = ""
        BY DEF BadRequest
      <4> QED BY <2>3, <3>2, <4>2, <4>3
    <3> QED BY <3>1, <3>2
  <2>5. ActionIsTheNamedOne <=>
            handle_request(uri).action =
                IF plain = << >> \/ plain[1] # "/" \/ <<".", ".">> \in SubSeqs(plain) THEN ""
                ELSE MeantBy(plain)
    <3>1. MeantMark = MarkOf(plain)
      BY DEF MeantMark, MarkOf
    <3>2. \A actions, end : MeantAction(actions, end) = WordOf(plain, actions, end)
      BY DEF MeantAction, WordOf
    <3> QED BY <3>1, <3>2 DEF ActionIsTheNamedOne, MeantBy
  <2> QED BY <2>4, <2>5
<1> QED BY <1>1, UriInductive, PTL

-----------------------------------------------------------------------------
(* The parameters, character by character. *)

\* The fold of urlParams, on every set of places.
IsParsing(query, f) ==
    f = [s \in SUBSET (DOMAIN query) |->
            IF s = {} THEN NoPair ELSE ParamStep(f[s \ {Max(s)}], query[Max(s)])]

LEMMA ParsingIsChosen ==
    ASSUME NEW query
    PROVE  FoldLeft(ParamStep, NoPair, query) = (CHOOSE f : IsParsing(query, f))[DOMAIN query]
BY DEF FoldLeft, MapThenFoldSet, IsParsing, Max

LEMMA ParsingExists ==
    ASSUME NEW query \in Seq(Symbols)
    PROVE  \E f : IsParsing(query, f)
<1>1. PICK n \in Nat : n = Len(query) /\ DOMAIN query = 1 .. n
  OBVIOUS
<1> DEFINE Upto(k, f) ==
        f = [s \in SUBSET (1 .. k) |->
                IF s = {} THEN NoPair ELSE ParamStep(f[s \ {Max(s)}], query[Max(s)])]
           Without == {k \in 0 .. n : ~ \E f : Upto(k, f)}
<1>2. ASSUME Without # {} PROVE FALSE
  <2>1. PICK k \in Without : \A j \in Without : k <= j
    <3>1. Without \in SUBSET Nat
      OBVIOUS
    <3> HIDE DEF Without
    <3> QED BY <1>2, <3>1, LeastNumber
  <2>2. CASE k = 0
    <3>1. SUBSET (1 .. 0) = {{}}
      OBVIOUS
    <3>2. PICK f : f = [s \in SUBSET (1 .. 0) |-> NoPair]
      OBVIOUS
    <3>3. Upto(0, f)
      BY <3>1, <3>2
    <3> QED BY <2>1, <2>2, <3>3
  <2>3. CASE k # 0
    <3>1. PICK j \in 0 .. n : k = j + 1
      <4>1. k - 1 \in 0 .. n /\ k = (k - 1) + 1
        BY <2>3
      <4> QED BY <4>1
    <3>2. j \notin Without
      <4>1. ~(k <= j)
        BY <3>1
      <4> HIDE DEF Without
      <4> QED BY <2>1, <4>1
    <3>3. PICK f : Upto(j, f)
      BY <3>2
    <3>4. PICK g : g = [s \in SUBSET (1 .. k) |->
                           IF k \in s THEN ParamStep(f[s \ {k}], query[k]) ELSE f[s]]
      OBVIOUS
    <3>5. \A s \in SUBSET (1 .. k) : /\ k \notin s => s \in SUBSET (1 .. j)
                                     /\ s \ {k} \in SUBSET (1 .. j)
      BY <3>1
    <3>6. \A s \in SUBSET (1 .. j) : g[s] = f[s]
      <4>1. \A s \in SUBSET (1 .. j) : s \in SUBSET (1 .. k) /\ k \notin s
        BY <3>1
      <4> QED BY <3>4, <4>1
    <3>7. ASSUME NEW s \in SUBSET (1 .. k)
          PROVE  g[s] = IF s = {} THEN NoPair ELSE ParamStep(g[s \ {Max(s)}], query[Max(s)])
      <4>1. CASE k \in s
        <5>1. Max(s) = k
          <6>1. k \in Nat /\ s # {}
            BY <3>1, <4>1
          <6>2. Max(s) \in s /\ k <= Max(s)
            BY <4>1, <6>1, GreatestNumber
          <6>3. Max(s) \in 1 .. k
            BY <6>2
          <6> QED BY <6>1, <6>2, <6>3
        <5>2. g[s] = ParamStep(f[s \ {k}], query[k])
          BY <3>4, <4>1
        <5>3. g[s \ {k}] = f[s \ {k}]
          BY <3>5, <3>6
        <5> QED BY <4>1, <5>1, <5>2, <5>3
      <4>2. CASE k \notin s
        <5>1. s \in SUBSET (1 .. j) /\ s \ {Max(s)} \in SUBSET (1 .. j)
          BY <3>5, <4>2
        <5>2. f[s] = IF s = {} THEN NoPair ELSE ParamStep(f[s \ {Max(s)}], query[Max(s)])
          BY <3>3, <5>1
        <5> QED BY <3>6, <5>1, <5>2
      <4> QED BY <4>1, <4>2
    <3>8. Upto(k, g)
      <4>1. g = [s \in SUBSET (1 .. k) |-> g[s]]
        BY <3>4
      <4> QED BY <3>7, <4>1
    <3> QED BY <2>1, <3>8
  <2> QED BY <2>2, <2>3
<1>3. \E f : Upto(n, f)
  <2>1. n \in 0 .. n
    OBVIOUS
  <2> QED BY <1>2, <2>1
<1> QED BY <1>1, <1>3 DEF IsParsing

\* The states of urlParams, one after each character.
LEMMA ParsingSteps ==
    ASSUME NEW query \in Seq(Symbols)
    PROVE  \E p : /\ p[0] = NoPair
                  /\ \A k \in 1 .. Len(query) : p[k] = ParamStep(p[k - 1], query[k])
                  /\ FoldLeft(ParamStep, NoPair, query) = p[Len(query)]
<1>1. PICK n \in Nat : n = Len(query) /\ DOMAIN query = 1 .. n
  OBVIOUS
<1>2. PICK f : IsParsing(query, f) /\ FoldLeft(ParamStep, NoPair, query) = f[1 .. n]
  BY <1>1, ParsingExists, ParsingIsChosen
<1>3. PICK p : p = [k \in 0 .. n |-> f[1 .. k]]
  OBVIOUS
<1>4. ASSUME NEW s \in SUBSET (1 .. n)
      PROVE  f[s] = IF s = {} THEN NoPair ELSE ParamStep(f[s \ {Max(s)}], query[Max(s)])
  BY <1>1, <1>2 DEF IsParsing
<1>5. p[0] = NoPair
  <2>1. 1 .. 0 = {} /\ 1 .. 0 \in SUBSET (1 .. n)
    OBVIOUS
  <2> QED BY <1>3, <1>4, <2>1
<1>6. ASSUME NEW k \in 1 .. n PROVE p[k] = ParamStep(p[k - 1], query[k])
  <2>1. 1 .. k \in SUBSET (1 .. n) /\ 1 .. k # {} /\ k - 1 \in 0 .. n /\ k \in 0 .. n
    <3>1. k \in 1 .. k
      OBVIOUS
    <3>2. 1 .. k \in SUBSET (1 .. n)
      OBVIOUS
    <3>3. k - 1 \in 0 .. n /\ k \in 0 .. n
      OBVIOUS
    <3> QED BY <3>1, <3>2, <3>3
  <2>2. Max(1 .. k) = k
    <3>1. k \in 1 .. k /\ k \in Nat /\ 1 .. k \in SUBSET (1 .. k)
      OBVIOUS
    <3>2. Max(1 .. k) \in 1 .. k /\ k <= Max(1 .. k)
      BY <2>1, <3>1, GreatestNumber
    <3> QED BY <3>2
  <2>3. (1 .. k) \ {k} = 1 .. k - 1
    OBVIOUS
  <2>4. f[1 .. k] = ParamStep(f[(1 .. k) \ {Max(1 .. k)}], query[Max(1 .. k)])
    BY <1>4, <2>1
  <2> QED BY <1>3, <2>1, <2>2, <2>3, <2>4
<1>7. p[n] = f[1 .. n]
  BY <1>3
<1> QED BY <1>1, <1>2, <1>5, <1>6, <1>7

Parsed(params, key, value, at) == [params |-> params, key |-> key, value |-> value, at |-> at]

\* The parameters with one more.
With(params, key, value) ==
    [k \in (DOMAIN params) \cup {key} |-> IF k \in DOMAIN params THEN params[k] ELSE value]

LEMMA ParsedFields ==
    ASSUME NEW params, NEW key, NEW value, NEW at,
           NEW p \in [params : {params}, key : {key}, value : {value}, at : {at}]
    PROVE  p = Parsed(params, key, value, at)
BY DEF Parsed

\* The steps of urlParams through a pair that is well formed.
LEMMA NothingRead == NoPair = Parsed(<< >>, << >>, << >>, "pair")
BY DEF NoPair, Parsed

LEMMA KeyBegins ==
    ASSUME NEW params, NEW key, NEW value, NEW x, IsLetter(x)
    PROVE  ParamStep(Parsed(params, key, value, "pair"), x) = Parsed(params, <<x>>, << >>, "key")
<1> DEFINE p == Parsed(params, key, value, "pair")
<1>1. p.at = "pair"
  BY DEF Parsed
<1>2. ParamStep(p, x) = [p EXCEPT !.key = <<x>>, !.value = << >>, !.at = "key"]
  BY <1>1 DEF ParamStep
<1>3. [p EXCEPT !.key = <<x>>, !.value = << >>, !.at = "key"] \in
          [params : {params}, key : {<<x>>}, value : {<< >>}, at : {"key"}]
  BY DEF Parsed
<1> QED BY <1>2, <1>3, ParsedFields

LEMMA KeyGrows ==
    ASSUME NEW params, NEW key, NEW value, NEW x, IsAlnum(x)
    PROVE  ParamStep(Parsed(params, key, value, "key"), x) =
               Parsed(params, Append(key, x), value, "key")
<1> DEFINE p == Parsed(params, key, value, "key")
<1>1. p.at = "key"
  BY DEF Parsed
<1>2. ParamStep(p, x) = [p EXCEPT !.key = Append(@, x)]
  BY <1>1 DEF ParamStep, IsAlnum, Punctuation
<1>3. [p EXCEPT !.key = Append(@, x)] = Parsed(params, Append(key, x), value, "key")
  BY DEF Parsed
<1> QED BY <1>2, <1>3

LEMMA KeyEnds ==
    ASSUME NEW params, NEW key, NEW value, NEW x, x = "="
    PROVE  ParamStep(Parsed(params, key, value, "key"), x) = Parsed(params, key, value, "equals")
<1> DEFINE p == Parsed(params, key, value, "key")
<1>1. p.at = "key"
  BY DEF Parsed
<1>2. ParamStep(p, x) = [p EXCEPT !.at = "equals"]
  BY <1>1 DEF ParamStep, IsAlnum, Punctuation
<1>3. [p EXCEPT !.at = "equals"] = Parsed(params, key, value, "equals")
  BY DEF Parsed
<1> QED BY <1>2, <1>3

LEMMA ValueGrows ==
    ASSUME NEW params, NEW key, NEW value, NEW x, IsAlnum(x),
           NEW at, at = "equals" \/ at = "value"
    PROVE  ParamStep(Parsed(params, key, value, at), x) =
               Parsed(params, key, Append(value, x), "value")
<1> DEFINE p == Parsed(params, key, value, at)
<1>1. p.at \in {"equals", "value"}
  BY DEF Parsed
<1>2. p.value = value
  BY DEF Parsed
<1>3. PICK longer : longer = Append(value, x)
  OBVIOUS
<1>4. ParamStep(p, x) = [p EXCEPT !.value = longer, !.at = "value"]
  <2>1. ParamStep(p, x) = [p EXCEPT !.value = Append(p.value, x), !.at = "value"]
    BY <1>1 DEF ParamStep, IsAlnum, Punctuation
  <2> HIDE DEF p
  <2> QED BY <1>2, <1>3, <2>1
<1>5. PICK r \in [params : {params}, key : {key}, value : {longer}, at : {"value"}] :
          r = [p EXCEPT !.value = longer, !.at = "value"]
  <2>1. [p EXCEPT !.value = longer, !.at = "value"] \in
            [params : {params}, key : {key}, value : {longer}, at : {"value"}]
    BY DEF Parsed
  <2> QED BY <2>1, Zenon
<1>6. r = Parsed(params, key, longer, "value")
  BY ParsedFields
<1> QED BY <1>3, <1>4, <1>5, <1>6, Zenon

\* Counting from a to b.
LEMMA CountUp ==
    ASSUME NEW a \in Nat, NEW b \in Nat, a <= b, NEW S \in SUBSET (a .. b),
           a \in S, \A k \in S : k < b => k + 1 \in S
    PROVE  S = a .. b
<1> DEFINE Missing == {k \in a .. b : k \notin S}
<1>1. ASSUME Missing # {} PROVE FALSE
  <2>1. PICK k \in Missing : \A j \in Missing : k <= j
    <3>1. Missing \in SUBSET Nat
      OBVIOUS
    <3> HIDE DEF Missing
    <3> QED BY <1>1, <3>1, LeastNumber
  <2>2. PICK j \in a .. b : k = j + 1
    <3>1. k - 1 \in a .. b /\ k = (k - 1) + 1
      OBVIOUS
    <3> QED BY <3>1
  <2>3. j \in S
    <3>1. ~(k <= j)
      BY <2>2
    <3> QED BY <2>1, <2>2, <3>1
  <2> QED BY <2>2, <2>3
<1> QED BY <1>1

\* A part of a query grows with its end.
LEMMA PartGrows ==
    ASSUME NEW query \in Seq(Symbols), NEW a \in Nat, NEW k \in Nat,
           1 <= a, a <= k + 1, k + 1 <= Len(query)
    PROVE  SubSeq(query, a, k + 1) = Append(SubSeq(query, a, k), query[k + 1])
<1>1. PICK b \in 1 .. Len(query) : b = k + 1 /\ b - 1 = k
  <2>1. k + 1 \in 1 .. Len(query) /\ k + 1 - 1 = k
    OBVIOUS
  <2> QED BY <2>1
<1>2. PICK s \in Seq(Symbols) : s = SubSeq(query, a, b)
  <2>1. SubSeq(query, a, b) \in Seq(Symbols)
    BY <1>1
  <2> QED BY <2>1
<1>3. PICK r \in Seq(Symbols) : r = SubSeq(query, a, k)
  <2>1. SubSeq(query, a, k) \in Seq(Symbols)
    BY <1>1
  <2> QED BY <2>1
<1>4. Len(s) = b - a + 1 /\ \A i \in 1 .. Len(s) : s[i] = query[a + i - 1]
  BY <1>1, <1>2
<1>5. Len(r) = k - a + 1 /\ \A i \in 1 .. Len(r) : r[i] = query[a + i - 1]
  BY <1>1, <1>3
<1>6. query[b] \in Symbols
  OBVIOUS
<1>7. PICK t \in Seq(Symbols) : t = Append(r, query[b])
  <2>1. Append(r, query[b]) \in Seq(Symbols)
    BY <1>6
  <2> QED BY <2>1
<1>8. Len(t) = Len(r) + 1 /\ t[Len(t)] = query[b] /\ \A i \in 1 .. Len(r) : t[i] = r[i]
  BY <1>6, <1>7
<1>9. Len(s) = Len(t) /\ Len(s) \in Nat /\ Len(r) \in Nat
  BY <1>1, <1>4, <1>5, <1>8
<1>10. ASSUME NEW i \in 1 .. Len(s) PROVE s[i] = t[i]
  <2>1. CASE i = Len(s)
    <3>1. a + i - 1 = b
      BY <1>1, <1>4, <2>1
    <3> QED BY <1>4, <1>8, <1>9, <2>1, <3>1
  <2>2. CASE i # Len(s)
    <3>1. i \in 1 .. Len(r)
      BY <1>8, <1>9, <2>2
    <3> QED BY <1>4, <1>5, <1>8, <3>1
  <2> QED BY <2>1, <2>2
<1>11. s = t
  BY <1>9, <1>10, SeqEqual
<1> QED BY <1>1, <1>2, <1>3, <1>7, <1>11

LEMMA OneCharacter ==
    ASSUME NEW query \in Seq(Symbols), NEW b \in 1 .. Len(query)
    PROVE  SubSeq(query, b, b) = <<query[b]>>
<1>1. PICK x \in Symbols : x = query[b]
  OBVIOUS
<1>2. PICK s \in Seq(Symbols) : s = SubSeq(query, b, b)
  <2>1. SubSeq(query, b, b) \in Seq(Symbols)
    OBVIOUS
  <2> QED BY <2>1
<1>3. Len(s) = 1 /\ s[1] = x
  <2>1. Len(s) = b - b + 1
    BY <1>2
  <2>2. s[1] = query[b + 1 - 1] /\ b + 1 - 1 = b
    BY <1>2, <2>1
  <2> QED BY <1>1, <2>1, <2>2
<1>4. s = <<x>>
  BY <1>3
<1> QED BY <1>1, <1>2, <1>4

\* Where the piece after a cut ends.
NextCut(query, cut) == Min({c \in Cuts(query) : c > cut} \cup {Len(query) + 1})

LEMMA CutsAreInside ==
    ASSUME NEW query \in Seq(Symbols), NEW cut \in Cuts(query)
    PROVE  /\ Cuts(query) \in SUBSET (0 .. Len(query))
           /\ NextCut(query, cut) \in cut + 1 .. Len(query) + 1
           /\ NextCut(query, cut) \in Cuts(query) \cup {Len(query) + 1}
           /\ \A c \in Cuts(query) : c <= cut \/ NextCut(query, cut) <= c
<1>1. PICK n \in Nat : n = Len(query)
  OBVIOUS
<1>2. Cuts(query) \in SUBSET (0 .. n)
  <2>1. DOMAIN query = 1 .. n
    BY <1>1
  <2>2. ASSUME NEW c \in Cuts(query) PROVE c \in 0 .. n
    <3>1. c = 0 \/ c \in DOMAIN query
      BY DEF Cuts
    <3> QED BY <2>1, <3>1
  <2> QED BY <2>2
<1>3. PICK later \in SUBSET (0 .. n + 1) : later = {c \in Cuts(query) : c > cut} \cup {n + 1}
  <2>1. PICK cuts \in SUBSET (0 .. n) : cuts = Cuts(query)
    BY <1>2
  <2>2. PICK m \in 0 .. n + 1 : m = n + 1
    OBVIOUS
  <2>3. \A c \in cuts : c \in 0 .. n + 1
    <3>1. \A c \in 0 .. n : c \in 0 .. n + 1
      OBVIOUS
    <3> QED BY <3>1
  <2>4. {c \in cuts : c > cut} \cup {m} \in SUBSET (0 .. n + 1)
    BY <2>3
  <2> QED BY <2>1, <2>2, <2>4
<1>4. PICK m \in later : \A c \in later : m <= c
  <2>1. later \in SUBSET Nat /\ later # {}
    BY <1>3
  <2> QED BY <2>1, LeastNumber
<1>5. NextCut(query, cut) = m
  <2>1. Min(later) = m
    <3>1. \A x \in later : (\A y \in later : x <= y) => x = m
      BY <1>4
    <3>2. Min(later) = CHOOSE x \in later : \A y \in later : x <= y
      BY DEF Min
    <3> QED BY <1>4, <3>1, <3>2
  <2> QED BY <1>1, <1>3, <2>1 DEF NextCut
<1>6. ASSUME NEW c \in Cuts(query) PROVE c <= cut \/ m <= c
  <2>1. c \in 0 .. n /\ cut \in 0 .. n
    BY <1>2
  <2> QED BY <1>3, <1>4, <2>1
<1>7. m \in cut + 1 .. n + 1 /\ m \in Cuts(query) \cup {n + 1}
  BY <1>2, <1>3, <1>4
<1> QED BY <1>1, <1>2, <1>5, <1>6, <1>7
LEMMA PartOfPart ==
    ASSUME NEW s \in Seq(Symbols), NEW a \in Nat, NEW b \in Nat, 1 <= a, a <= b + 1, b <= Len(s),
           NEW i \in Nat, NEW j \in Nat, 1 <= i, i <= j + 1, j <= b - a + 1
    PROVE  SubSeq(SubSeq(s, a, b), i, j) = SubSeq(s, a + i - 1, a + j - 1)
<1>1. PICK t \in Seq(Symbols) : t = SubSeq(s, a, b)
  <2>1. SubSeq(s, a, b) \in Seq(Symbols)
    OBVIOUS
  <2> QED BY <2>1
<1>2. Len(t) = b - a + 1 /\ \A k \in 1 .. Len(t) : t[k] = s[a + k - 1]
  BY <1>1
<1>3. PICK c \in Nat, d \in Nat : c = a + i - 1 /\ d = a + j - 1
  OBVIOUS
<1>4. PICK u \in Seq(Symbols) : u = SubSeq(t, i, j)
  <2>1. SubSeq(t, i, j) \in Seq(Symbols)
    BY <1>2
  <2> QED BY <2>1
<1>5. PICK v \in Seq(Symbols) : v = SubSeq(s, c, d)
  <2>1. SubSeq(s, c, d) \in Seq(Symbols)
    BY <1>3
  <2> QED BY <2>1
<1>6. Len(u) = j - i + 1 /\ \A k \in 1 .. Len(u) : u[k] = t[i + k - 1]
  BY <1>2, <1>4
<1>7. Len(v) = d - c + 1 /\ \A k \in 1 .. Len(v) : v[k] = s[c + k - 1]
  BY <1>3, <1>5
<1>8. Len(u) = Len(v)
  BY <1>3, <1>6, <1>7
<1>9. ASSUME NEW k \in 1 .. Len(u) PROVE u[k] = v[k]
  <2>1. i + k - 1 \in 1 .. Len(t) /\ a + (i + k - 1) - 1 = c + k - 1
    BY <1>2, <1>3, <1>6
  <2>2. u[k] = s[c + k - 1]
    <3>1. PICK at \in 1 .. Len(t) : at = i + k - 1 /\ a + at - 1 = c + k - 1
      BY <2>1
    <3> QED BY <1>2, <1>6, <3>1
  <2> QED BY <1>7, <1>8, <2>2
<1>10. u = v
  BY <1>8, <1>9, SeqEqual
<1> QED BY <1>1, <1>3, <1>4, <1>5, <1>10

LEMMA Characters ==
    /\ \A x : IsLetter(x) => IsAlnum(x)
    /\ ~IsAlnum("=") /\ ~IsAlnum("&") /\ ~IsAlnum(";") /\ ~IsAlnum("/")
BY Zenon DEF IsLetter, IsAlnum, Punctuation

LEMMA ParsingStops ==
    ASSUME NEW p, p.at = "stop", NEW x
    PROVE  ParamStep(p, x) = p
BY DEF ParamStep

LEMMA NoKeyStops ==
    ASSUME NEW params, NEW key, NEW value, NEW x, ~IsLetter(x)
    PROVE  ParamStep(Parsed(params, key, value, "pair"), x) = Parsed(params, key, value, "stop")
<1> DEFINE p == Parsed(params, key, value, "pair")
<1>1. p.at = "pair"
  BY DEF Parsed
<1>2. ParamStep(p, x) = [p EXCEPT !.at = "stop"]
  BY <1>1 DEF ParamStep
<1>3. [p EXCEPT !.at = "stop"] = Parsed(params, key, value, "stop")
  BY DEF Parsed
<1> QED BY <1>2, <1>3

\* Committing a pair.
Committed(p, to) == [p EXCEPT !.params = Commit(p), !.at = to]

LEMMA PairCommits ==
    ASSUME NEW params, NEW key, NEW value, NEW at, NEW to
    PROVE  Committed(Parsed(params, key, value, at), to) = Parsed(With(params, key, value), key, value, to)
<1> DEFINE p == Parsed(params, key, value, at)
<1>1. Commit(p) = With(params, key, value)
  BY DEF Commit, Parsed, With
<1>2. [p EXCEPT !.params = With(params, key, value), !.at = to] \in
          [params : {With(params, key, value)}, key : {key}, value : {value}, at : {to}]
  BY DEF Parsed
<1> QED BY <1>1, <1>2, ParsedFields DEF Committed

\* The end of a pair.
Separates(x) == x \in {"&", ";"}

LEMMA PairEnds ==
    ASSUME NEW params, NEW key, NEW value, NEW at, at \in {"key", "value"}, NEW x, Separates(x)
    PROVE  ParamStep(Parsed(params, key, value, at), x) =
               Parsed(With(params, key, value), key, value, "pair")
<1> DEFINE p == Parsed(params, key, value, at)
<1>1. p.at = at
  BY DEF Parsed
<1>2. ParamStep(p, x) = Committed(p, "pair")
  BY <1>1 DEF ParamStep, IsAlnum, Punctuation, Committed, Separates
<1> QED BY <1>2, PairCommits

\* The character goes on after a word.
GoesOn(at, x) ==
    \/ at = "key" /\ x = "="
    \/ at \in {"key", "value"} /\ Separates(x)

\* The last pair is the one before the first character that fits nowhere.
LEMMA PairStops ==
    ASSUME NEW params, NEW key, NEW value, NEW at, at \in {"key", "equals", "value"},
           NEW x, ~IsAlnum(x), ~GoesOn(at, x)
    PROVE  ParamStep(Parsed(params, key, value, at), x) =
               Parsed(With(params, key, value), key, value, "stop")
<1> DEFINE p == Parsed(params, key, value, at)
<1>1. p.at = at
  BY DEF Parsed
<1>2. ParamStep(p, x) = Committed(p, "stop")
  BY <1>1 DEF ParamStep, Committed, GoesOn, Separates
<1>3. Committed(p, "stop") = Parsed(With(params, key, value), key, value, "stop")
  BY PairCommits
<1> QED BY <1>2, <1>3, Zenon

-----------------------------------------------------------------------------
(* The words of a piece. *)

LEMMA Joined ==
    ASSUME NEW S, NEW s \in Seq(S), NEW t \in Seq(S), NEW both, both = s \o t
    PROVE  /\ both \in Seq(S) /\ Len(both) = Len(s) + Len(t)
           /\ \A i \in 1 .. Len(s) : both[i] = s[i]
           /\ \A i \in 1 .. Len(t) : both[Len(s) + i] = t[i]
<1>1. both \in Seq(S) /\ Len(both) = Len(s) + Len(t)
  BY ConcatProperties
<1>2. ASSUME NEW i \in 1 .. Len(s) PROVE both[i] = s[i]
  BY <1>1, ConcatProperties
<1>3. ASSUME NEW i \in 1 .. Len(t) PROVE both[Len(s) + i] = t[i]
  BY <1>1, ConcatProperties
<1> QED BY <1>1, <1>2, <1>3

LEMMA WordEnds ==
    ASSUME NEW text \in Seq(Symbols), NEW i \in 1 .. Len(text) + 1, NEW e \in i .. Len(text) + 1,
           \A k \in i .. e - 1 : IsAlnum(text[k]),
           e = Len(text) + 1 \/ ~IsAlnum(text[e])
    PROVE  WordFrom(text, i) = SubSeq(text, i, e - 1)
<1>1. PICK n \in Nat : n = Len(text) /\ DOMAIN text = 1 .. n
  OBVIOUS
<1>2. PICK ends : ends = {k \in DOMAIN text : k >= i /\ ~IsAlnum(text[k])} \cup {Len(text) + 1}
  OBVIOUS
<1>3. e \in ends
  BY <1>1, <1>2
<1>4. ASSUME NEW k \in ends PROVE k \in Nat /\ e <= k
  BY <1>1, <1>2
<1>5. Min(ends) = e
  <2>1. \A x \in ends : (\A y \in ends : x <= y) => x = e
    BY <1>3, <1>4
  <2>2. Min(ends) = CHOOSE x \in ends : \A y \in ends : x <= y
    BY DEF Min
  <2> QED BY <1>3, <1>4, <2>1, <2>2
<1> QED BY <1>2, <1>5 DEF WordFrom

LEMMA PieceText ==
    ASSUME NEW query \in Seq(Symbols), NEW cut \in Cuts(query)
    PROVE  LET piece == Piece(query, cut)
               next  == NextCut(query, cut)
           IN  /\ piece \in Seq(Symbols) /\ Len(piece) = next - 1 - cut
               /\ piece = SubSeq(query, cut + 1, next - 1)
               /\ \A i \in cut + 1 .. next - 1 : query[i] = piece[i - cut]
               /\ \A i \in 1 .. Len(piece) + 1, j \in 0 .. Len(piece) :
                      i <= j + 1 => SubSeq(piece, i, j) = SubSeq(query, cut + i, cut + j)
<1>1. PICK n \in Nat : n = Len(query)
  OBVIOUS
<1>2. PICK c \in 0 .. n : c = cut
  BY <1>1, CutsAreInside
<1>3. PICK next \in c + 1 .. n + 1 : next = NextCut(query, cut)
  BY <1>1, <1>2, CutsAreInside
<1>4. PICK piece \in Seq(Symbols) : piece = Piece(query, cut) /\ piece = SubSeq(query, c + 1, next - 1)
  <2>1. SubSeq(query, c + 1, next - 1) \in Seq(Symbols)
    BY <1>1
  <2>2. Piece(query, cut) = SubSeq(query, c + 1, next - 1)
    BY <1>2, <1>3 DEF Piece, NextCut
  <2> QED BY <2>1, <2>2
<1>5. Len(piece) = next - 1 - c
  <2>1. Len(piece) = (next - 1) - (c + 1) + 1
    BY <1>1, <1>4
  <2> QED BY <2>1
<1>6. ASSUME NEW i \in c + 1 .. next - 1 PROVE query[i] = piece[i - c]
  <2>1. PICK j \in 1 .. Len(piece) : j = i - c
    BY <1>5
  <2>2. piece[j] = query[(c + 1) + j - 1] /\ (c + 1) + j - 1 = i
    BY <1>1, <1>4, <1>5, <2>1
  <2> QED BY <2>1, <2>2
<1>7. ASSUME NEW i \in 1 .. Len(piece) + 1, NEW j \in 0 .. Len(piece), i <= j + 1
      PROVE  SubSeq(piece, i, j) = SubSeq(query, c + i, c + j)
  <2>1. /\ c + 1 \in Nat /\ next - 1 \in Nat /\ 1 <= c + 1 /\ c + 1 <= (next - 1) + 1
        /\ next - 1 <= n /\ i \in Nat /\ 1 <= i /\ j \in Nat
        /\ j <= (next - 1) - (c + 1) + 1
    BY <1>5
  <2>2. SubSeq(SubSeq(query, c + 1, next - 1), i, j) = SubSeq(query, (c + 1) + i - 1, (c + 1) + j - 1)
    BY <1>1, <1>7, <2>1, PartOfPart
  <2>3. (c + 1) + i - 1 = c + i /\ (c + 1) + j - 1 = c + j
    BY <2>1
  <2> QED BY <1>4, <2>2, <2>3
<1> QED BY <1>2, <1>3, <1>4, <1>5, <1>6, <1>7

\* A key has been read up to e.
KeyRead(query, cut, e) ==
    /\ e \in cut + 2 .. NextCut(query, cut)
    /\ IsLetter(query[cut + 1])
    /\ \A i \in cut + 1 .. e - 1 : IsAlnum(query[i])

LEMMA KeyIsRead ==
    ASSUME NEW query \in Seq(Symbols), NEW cut \in Cuts(query), NEW e, KeyRead(query, cut, e),
           e = NextCut(query, cut) \/ ~IsAlnum(query[e])
    PROVE  LET piece == Piece(query, cut)
           IN  /\ HasKey(piece)
               /\ KeyIn(piece) = SubSeq(query, cut + 1, e - 1)
               /\ KeyIn(piece) = SubSeq(piece, 1, e - 1 - cut)
               /\ KeyIn(piece) \in Seq(Symbols) /\ Len(KeyIn(piece)) = e - 1 - cut
<1>1. PICK n \in Nat : n = Len(query)
  OBVIOUS
<1>2. PICK c \in 0 .. n : c = cut
  BY <1>1, CutsAreInside
<1>3. PICK next \in c + 1 .. n + 1 : next = NextCut(query, cut)
  BY <1>1, <1>2, CutsAreInside
<1>4. PICK piece \in Seq(Symbols) : piece = Piece(query, cut) /\ Len(piece) = next - 1 - c
  BY <1>2, <1>3, PieceText
<1>5. \A i \in c + 1 .. next - 1 : query[i] = piece[i - c]
  BY <1>2, <1>3, <1>4, PieceText
<1>6. PICK f \in 2 .. Len(piece) + 1 : f = e - c
  BY <1>2, <1>3, <1>4 DEF KeyRead
<1>7. \A k \in 1 .. f - 1 : IsAlnum(piece[k])
  <2>1. ASSUME NEW k \in 1 .. f - 1 PROVE IsAlnum(piece[k])
    <3>1. PICK i \in c + 1 .. next - 1 : i = c + k /\ i - c = k /\ i \in c + 1 .. e - 1
      <4>1. e \in c + 2 .. next
        BY <1>2, <1>3 DEF KeyRead
      <4>2. c + k \in c + 1 .. next - 1 /\ (c + k) - c = k /\ c + k \in c + 1 .. e - 1
        BY <1>4, <1>6, <4>1
      <4> QED BY <4>2
    <3>2. IsAlnum(query[i])
      BY <1>2, <3>1 DEF KeyRead
    <3> QED BY <1>5, <3>1, <3>2
  <2> QED BY <2>1
<1>8. f = Len(piece) + 1 \/ ~IsAlnum(piece[f])
  <2>1. CASE e = next
    BY <1>4, <1>6, <2>1
  <2>2. CASE e # next
    <3>1. e \in c + 1 .. next - 1
      BY <1>2, <1>3, <2>2 DEF KeyRead
    <3> QED BY <1>3, <1>5, <1>6, <2>2, <3>1
  <2> QED BY <2>1, <2>2
<1>9. KeyIn(piece) = SubSeq(piece, 1, f - 1)
  <2>1. 1 \in 1 .. Len(piece) + 1 /\ f \in 1 .. Len(piece) + 1
    BY <1>6
  <2> QED BY <1>7, <1>8, <2>1, WordEnds DEF KeyIn
<1>10. SubSeq(piece, 1, f - 1) = SubSeq(query, c + 1, e - 1)
  <2>1. 1 \in 1 .. Len(piece) + 1 /\ f - 1 \in 0 .. Len(piece) /\ 1 <= (f - 1) + 1 /\ c + (f - 1) = e - 1
    BY <1>2, <1>6 DEF KeyRead
  <2> QED BY <1>2, <1>4, <2>1, PieceText
<1>11. SubSeq(piece, 1, f - 1) \in Seq(Symbols) /\ Len(SubSeq(piece, 1, f - 1)) = f - 1
  BY <1>6
<1>12. HasKey(piece)
  <2>1. piece[1] = query[c + 1] /\ Len(piece) # 0
    BY <1>4, <1>5, <1>6
  <2> QED BY <1>2, <2>1 DEF HasKey, KeyRead
<1>13. f - 1 = e - 1 - cut
  BY <1>2, <1>6 DEF KeyRead
<1> QED BY <1>2, <1>4, <1>9, <1>10, <1>11, <1>12, <1>13

\* A piece that is a key.
LEMMA OnlyKey ==
    ASSUME NEW query \in Seq(Symbols), NEW cut \in Cuts(query), KeyRead(query, cut, NextCut(query, cut))
    PROVE  Fits(Piece(query, cut)) /\ ValueIn(Piece(query, cut)) = << >>
<1>0. PICK n \in Nat : n = Len(query)
  OBVIOUS
<1>1. PICK c \in 0 .. n : n = Len(query) /\ c = cut
  BY <1>0, CutsAreInside
<1>2. PICK next \in c + 1 .. n + 1 : next = NextCut(query, cut)
  BY <1>1, CutsAreInside
<1>3. PICK piece \in Seq(Symbols) : piece = Piece(query, cut) /\ Len(piece) = next - 1 - c
  BY <1>1, <1>2, PieceText
<1>4. HasKey(piece) /\ KeyIn(piece) = SubSeq(piece, 1, next - 1 - c) /\ Len(KeyIn(piece)) = next - 1 - c
  BY <1>1, <1>2, <1>3, KeyIsRead
<1>5. SubSeq(piece, 1, Len(piece)) = piece
  OBVIOUS
<1>6. Len(KeyIn(piece)) + 1 \notin DOMAIN piece
  BY <1>3, <1>4
<1>7. Fits(piece)
  BY <1>3, <1>4, <1>5 DEF Fits
<1>8. ValueIn(piece) = << >>
  BY <1>6 DEF ValueIn
<1> QED BY <1>3, <1>7, <1>8

\* A piece that goes on after its key, but not with an equals sign.
LEMMA KeyIsFollowed ==
    ASSUME NEW query \in Seq(Symbols), NEW cut \in Cuts(query), NEW e, KeyRead(query, cut, e),
           e # NextCut(query, cut), ~IsAlnum(query[e]), query[e] # "="
    PROVE  ~Fits(Piece(query, cut)) /\ ValueIn(Piece(query, cut)) = << >>
<1>0. PICK n \in Nat : n = Len(query)
  OBVIOUS
<1>1. PICK c \in 0 .. n : n = Len(query) /\ c = cut
  BY <1>0, CutsAreInside
<1>2. PICK next \in c + 1 .. n + 1 : next = NextCut(query, cut)
  BY <1>1, CutsAreInside
<1>3. PICK piece \in Seq(Symbols) : piece = Piece(query, cut) /\ Len(piece) = next - 1 - c
  BY <1>1, <1>2, PieceText
<1>4. Len(KeyIn(piece)) = e - 1 - c
  BY <1>1, <1>3, KeyIsRead
<1>5. PICK f \in 2 .. Len(piece) : f = e - c /\ f = Len(KeyIn(piece)) + 1 /\ c + f = e /\ e \in c + 1 .. next - 1
  BY <1>1, <1>2, <1>3, <1>4 DEF KeyRead
<1>6. piece[f] # "="
  <2>1. query[e] = piece[e - c]
    BY <1>1, <1>2, <1>3, <1>5, PieceText
  <2> QED BY <1>5, <2>1
<1>7. ValueIn(piece) = << >>
  BY <1>5, <1>6 DEF ValueIn
<1>8. piece # KeyIn(piece)
  <2>1. Len(piece) # Len(KeyIn(piece))
    BY <1>5
  <2> QED BY <2>1
<1> QED BY <1>3, <1>7, <1>8 DEF Fits

\* A piece that goes on with an equals sign.
LEMMA ValueIsRead ==
    ASSUME NEW query \in Seq(Symbols), NEW cut \in Cuts(query), NEW e, KeyRead(query, cut, e),
           query[e] = "=", NEW f \in e + 1 .. NextCut(query, cut),
           \A i \in e + 1 .. f - 1 : IsAlnum(query[i]),
           f = NextCut(query, cut) \/ ~IsAlnum(query[f])
    PROVE  /\ ValueIn(Piece(query, cut)) = SubSeq(query, e + 1, f - 1)
           /\ Fits(Piece(query, cut)) <=> f = NextCut(query, cut) /\ f # e + 1
<1>0. PICK n \in Nat : n = Len(query)
  OBVIOUS
<1>1. PICK c \in 0 .. n : n = Len(query) /\ c = cut
  BY <1>0, CutsAreInside
<1>2. PICK next \in c + 1 .. n + 1 : next = NextCut(query, cut)
  BY <1>1, CutsAreInside
<1>3. PICK piece \in Seq(Symbols) : piece = Piece(query, cut) /\ Len(piece) = next - 1 - c
  BY <1>1, <1>2, PieceText
<1>4. ASSUME NEW i \in c + 1 .. next - 1 PROVE query[i] = piece[i - c]
  BY <1>1, <1>2, <1>3, PieceText
<1>5. e \in c + 2 .. next - 1
  <2>1. e \in c + 2 .. next
    BY <1>1, <1>2 DEF KeyRead
  <2> QED BY <1>2, <2>1
<1>6. PICK key \in Seq(Symbols) : /\ key = KeyIn(piece) /\ Len(key) = e - 1 - c
                                  /\ key = SubSeq(piece, 1, e - 1 - c) /\ HasKey(piece)
  BY <1>1, <1>3, KeyIsRead, Characters
<1>7. PICK at \in 2 .. Len(piece) : at = e - c /\ at = Len(key) + 1 /\ piece[at] = "="
  <2>1. e - c \in 2 .. Len(piece)
    BY <1>3, <1>5
  <2>2. query[e] = piece[e - c]
    BY <1>4, <1>5
  <2> QED BY <1>5, <1>6, <2>1, <2>2
<1>17. PICK h \in e + 1 .. next : h = f
  BY <1>2
<1>8. PICK g \in at + 1 .. Len(piece) + 1 : g = f - c /\ g = h - c
  BY <1>2, <1>3, <1>5, <1>7, <1>17
<1>9. \A k \in at + 1 .. g - 1 : IsAlnum(piece[k])
  <2>1. ASSUME NEW k \in at + 1 .. g - 1 PROVE IsAlnum(piece[k])
    <3>1. PICK i \in e + 1 .. f - 1 : i = c + k /\ i - c = k /\ i \in c + 1 .. next - 1
      BY <1>2, <1>3, <1>5, <1>7, <1>8
    <3> QED BY <1>4, <3>1
  <2> QED BY <2>1
<1>10. g = Len(piece) + 1 <=> f = next
  BY <1>3, <1>5, <1>8, <1>17
<1>11. g = Len(piece) + 1 \/ ~IsAlnum(piece[g])
  <2>1. CASE f # next
    <3>1. f \in c + 1 .. next - 1
      BY <1>2, <1>5, <2>1
    <3> QED BY <1>2, <1>4, <1>8, <2>1, <3>1
  <2> QED BY <1>10, <2>1
<1>12. PICK value \in Seq(Symbols) : /\ value = ValueIn(piece) /\ value = SubSeq(piece, at + 1, g - 1)
                                     /\ Len(value) = g - 1 - at
  <2>1. WordFrom(piece, at + 1) = SubSeq(piece, at + 1, g - 1)
    <3>1. at + 1 \in 1 .. Len(piece) + 1
      BY <1>7
    <3> QED BY <1>9, <1>11, <3>1, WordEnds
  <2>2. ValueIn(piece) = WordFrom(piece, at + 1)
    <3>1. at \in DOMAIN piece
      OBVIOUS
    <3> QED BY <1>6, <1>7, <3>1 DEF ValueIn
  <2>3. SubSeq(piece, at + 1, g - 1) \in Seq(Symbols)
    BY <1>7, <1>8
  <2>4. Len(SubSeq(piece, at + 1, g - 1)) = g - 1 - at
    <3>1. PICK a \in 1 .. Len(piece) + 1 : a = at + 1
      OBVIOUS
    <3>2. PICK b \in a - 1 .. Len(piece) : b = g - 1
      BY <1>8, <3>1
    <3>3. Len(SubSeq(piece, a, b)) = b - a + 1
      OBVIOUS
    <3> QED BY <3>1, <3>2, <3>3
  <2> QED BY <2>1, <2>2, <2>3, <2>4
<1>13. SubSeq(piece, at + 1, g - 1) = SubSeq(query, e + 1, f - 1)
  <2>1. /\ at + 1 \in 1 .. Len(piece) + 1 /\ g - 1 \in 0 .. Len(piece) /\ at + 1 <= (g - 1) + 1
        /\ c + (at + 1) = e + 1 /\ c + (g - 1) = f - 1
    BY <1>5, <1>7, <1>8, <1>17
  <2>2. PICK a \in 1 .. Len(piece) + 1 : a = at + 1
    BY <2>1
  <2>3. PICK b \in 0 .. Len(piece) : b = g - 1
    BY <2>1
  <2>4. SubSeq(piece, a, b) = SubSeq(query, c + a, c + b)
    BY <1>1, <1>3, <2>1, <2>2, <2>3, PieceText
  <2>5. c + a = e + 1 /\ c + b = f - 1
    BY <2>1, <2>2, <2>3
  <2> QED BY <2>2, <2>3, <2>4, <2>5
<1>18. PICK wide : wide = Symbols \cup {"="}
  OBVIOUS
<1>19. /\ key \in Seq(wide) /\ <<"=">> \in Seq(wide) /\ value \in Seq(wide) /\ piece \in Seq(wide)
      /\ Len(<<"=">>) = 1 /\ <<"=">>[1] = "="
  BY <1>18
<1>21. PICK sign \in Seq(wide) : sign = <<"=">> /\ Len(sign) = 1 /\ sign[1] = "="
  BY <1>19
<1>23. key \in Seq(wide) /\ value \in Seq(wide)
  BY <1>18
<1>22. PICK front \in Seq(wide) : /\ front = key \o sign /\ Len(front) = at
                                  /\ \A i \in 1 .. at - 1 : front[i] = key[i]
                                  /\ front[at] = "="
  <2>4. PICK front : front = key \o sign
    OBVIOUS
  <2>1. /\ front \in Seq(wide) /\ Len(front) = Len(key) + Len(sign)
        /\ \A i \in 1 .. Len(key) : front[i] = key[i]
        /\ \A i \in 1 .. Len(sign) : front[Len(key) + i] = sign[i]
    BY <1>23, <2>4, Joined
  <2>2. Len(front) = at /\ \A i \in 1 .. at - 1 : front[i] = key[i]
    BY <1>7, <1>21, <2>1
  <2>3. front[at] = "="
    <3>1. PICK one \in 1 .. Len(sign) : one = 1 /\ Len(key) + one = at
      BY <1>7, <1>21
    <3> QED BY <1>21, <2>1, <3>1
  <2> QED BY <2>1, <2>2, <2>3, <2>4
<1>14. PICK both \in Seq(wide) :
          /\ both = key \o <<"=">> \o value /\ Len(both) = at + Len(value)
          /\ \A i \in 1 .. at : both[i] = front[i]
          /\ \A i \in 1 .. Len(value) : both[at + i] = value[i]
  <2>5. PICK both : both = front \o value
    OBVIOUS
  <2>6. PICK tail \in Seq(wide) : tail = value
    BY <1>23
  <2>1. /\ both \in Seq(wide) /\ Len(both) = Len(front) + Len(value)
        /\ \A i \in 1 .. Len(front) : both[i] = front[i]
        /\ \A i \in 1 .. Len(value) : both[Len(front) + i] = value[i]
    <3>1. both = front \o tail
      BY <2>5, <2>6
    <3>2. /\ both \in Seq(wide) /\ Len(both) = Len(front) + Len(tail)
          /\ \A i \in 1 .. Len(front) : both[i] = front[i]
          /\ \A i \in 1 .. Len(tail) : both[Len(front) + i] = tail[i]
      BY <3>1, Joined
    <3> QED BY <2>6, <3>2
  <2>2. both = key \o <<"=">> \o value
    BY <1>21, <1>22, <2>5, Zenon
  <2>3. Len(both) = at + Len(value) /\ \A i \in 1 .. at : both[i] = front[i]
    BY <1>22, <2>1
  <2>4. \A i \in 1 .. Len(value) : both[at + i] = value[i]
    BY <1>22, <2>1
  <2> QED BY <2>1, <2>2, <2>3, <2>4
<1>15. Fits(piece) => f = next /\ f # e + 1
  <2>1. SUFFICES ASSUME Fits(piece) PROVE f = next /\ f # e + 1
    OBVIOUS
  <2>2. piece # key
    <3>1. Len(piece) # Len(key)
      BY <1>7
    <3> QED BY <3>1
  <2>3. value # << >> /\ piece = both
    BY <1>6, <1>12, <1>14, <2>1, <2>2 DEF Fits
  <2>4. Len(piece) = at + Len(value) /\ Len(value) # 0
    BY <1>14, <2>3
  <2>5. f # e + 1
    BY <1>5, <1>7, <1>8, <1>12, <1>17, <2>4
  <2>6. g = Len(piece) + 1
    BY <1>7, <1>8, <1>12, <2>4
  <2> QED BY <1>10, <2>5, <2>6
<1>16. ASSUME f = next, f # e + 1 PROVE Fits(piece)
  <2>1. g = Len(piece) + 1 /\ Len(both) = Len(piece) /\ Len(value) # 0
    <3>1. g = Len(piece) + 1
      BY <1>10, <1>16
    <3>2. g # at + 1
      BY <1>5, <1>7, <1>8, <1>16, <1>17
    <3>3. Len(value) = Len(piece) - at
      BY <1>12, <3>1
    <3>4. Len(both) = Len(piece)
      BY <1>14, <3>3
    <3>5. Len(value) # 0
      BY <1>12, <3>2
    <3> QED BY <3>1, <3>4, <3>5
  <2>2. \A k \in 1 .. Len(key) : key[k] = piece[k]
    BY <1>6, <1>7
  <2>3. \A k \in 1 .. Len(value) : value[k] = piece[at + k]
    <3>1. ASSUME NEW k \in 1 .. Len(value) PROVE value[k] = piece[at + k]
      <4>1. PICK a \in 1 .. Len(piece) + 1 : a = at + 1
        OBVIOUS
      <4>2. PICK b \in a - 1 .. Len(piece) : b = g - 1
        BY <1>8, <4>1
      <4>3. value = SubSeq(piece, a, b) /\ Len(value) = b - a + 1
        BY <1>12, <4>1, <4>2
      <4>4. value[k] = piece[a + k - 1]
        BY <4>3
      <4>5. a + k - 1 = at + k
        BY <4>1
      <4> QED BY <4>4, <4>5
    <3> QED BY <3>1
  <2>4. ASSUME NEW k \in 1 .. Len(piece) PROVE piece[k] = both[k]
    <3>1. k \in 1 .. at \/ at < k
      OBVIOUS
    <3>2. CASE k \in 1 .. at
      <4>1. both[k] = front[k]
        BY <1>14, <3>2
      <4>2. front[k] = piece[k]
        <5>1. CASE k < at
          BY <1>7, <1>22, <2>2, <3>2, <5>1
        <5>2. CASE k = at
          BY <1>7, <1>22, <3>2, <5>2
        <5> QED BY <3>2, <5>1, <5>2
      <4> QED BY <4>1, <4>2
    <3>3. CASE at < k
      <4>1. PICK j \in 1 .. Len(value) : k = at + j /\ j = k - at
        <5>1. k - at \in 1 .. Len(value)
          BY <1>14, <2>1, <3>3
        <5>2. k = at + (k - at)
          OBVIOUS
        <5> QED BY <5>1, <5>2
      <4>2. both[k] = value[j]
        BY <1>14, <4>1
      <4> QED BY <2>3, <4>1, <4>2
    <3> QED BY <3>1, <3>2, <3>3
  <2>5. piece = both
    BY <1>19, <2>1, <2>4, SeqEqual
  <2>6. value # << >>
    BY <2>1
  <2> QED BY <1>6, <1>12, <1>14, <2>5, <2>6 DEF Fits
<1> QED BY <1>2, <1>3, <1>12, <1>13, <1>15, <1>16

-----------------------------------------------------------------------------
(* From cut to cut. *)

KeyAt(query, cut)   == KeyIn(Piece(query, cut))
ValueAt(query, cut) == ValueIn(Piece(query, cut))

\* The pieces before a cut, and that each of them fits.
Before(query, cut) == {c \in Cuts(query) : c < cut}
FitBefore(query, cut) == \A c \in Before(query, cut) : Fits(Piece(query, c))

\* The parameters are those of these pieces.
Arrived(query, params, pieces) ==
    /\ DOMAIN params = {KeyAt(query, c) : c \in pieces}
    /\ \A c \in pieces : \/ params[KeyAt(query, c)] = ValueAt(query, c)
                         \/ \E d \in pieces : d < c /\ KeyAt(query, d) = KeyAt(query, c)

LEMMA PieceArrives ==
    ASSUME NEW query \in Seq(Symbols), NEW params, NEW cut \in Cuts(query),
           Arrived(query, params, Before(query, cut))
    PROVE  Arrived(query, With(params, KeyAt(query, cut), ValueAt(query, cut)),
                   Before(query, cut) \cup {cut})
<1>1. PICK n \in Nat : n = Len(query)
  OBVIOUS
<1>2. PICK cuts \in SUBSET (0 .. n) : cuts = Cuts(query)
  <2>1. 0 \in Cuts(query)
    BY DEF Cuts
  <2> QED BY <1>1, <2>1, CutsAreInside
<1>3. PICK before \in SUBSET cuts : before = Before(query, cut) /\ \A c \in before : c < cut
  <2>1. Before(query, cut) \in SUBSET cuts /\ \A c \in Before(query, cut) : c < cut
    BY <1>2 DEF Before
  <2> QED BY <2>1
<1>4. PICK key, value : key = KeyAt(query, cut) /\ value = ValueAt(query, cut)
  OBVIOUS
<1>5. PICK both : both = With(params, key, value)
  OBVIOUS
<1>6. /\ DOMAIN both = (DOMAIN params) \cup {key}
      /\ \A k \in DOMAIN params : both[k] = params[k]
      /\ key \notin DOMAIN params => both[key] = value
  BY <1>5 DEF With
<1>7. /\ DOMAIN params = {KeyAt(query, c) : c \in before}
      /\ \A c \in before : \/ params[KeyAt(query, c)] = ValueAt(query, c)
                           \/ \E d \in before : d < c /\ KeyAt(query, d) = KeyAt(query, c)
  BY <1>3 DEF Arrived
<1>8. DOMAIN both = {KeyAt(query, c) : c \in before \cup {cut}}
  BY <1>4, <1>6, <1>7
<1>9. ASSUME NEW c \in before \cup {cut}
      PROVE  \/ both[KeyAt(query, c)] = ValueAt(query, c)
             \/ \E d \in before \cup {cut} : d < c /\ KeyAt(query, d) = KeyAt(query, c)
  <2>1. CASE c \in before
    <3>1. KeyAt(query, c) \in DOMAIN params
      BY <1>7, <2>1
    <3>2. both[KeyAt(query, c)] = params[KeyAt(query, c)]
      BY <1>6, <3>1
    <3> QED BY <1>7, <2>1, <3>2
  <2>2. CASE c = cut /\ key \in DOMAIN params
    <3>1. PICK d \in before : key = KeyAt(query, d)
      BY <1>7, <2>2
    <3> QED BY <1>3, <1>4, <2>2, <3>1
  <2>3. CASE c = cut /\ key \notin DOMAIN params
    BY <1>4, <1>6, <2>3
  <2> QED BY <2>1, <2>2, <2>3
<1> QED BY <1>3, <1>4, <1>5, <1>8, <1>9 DEF Arrived

\* Up to where a query is heard.
LEMMA HeardUpTo ==
    ASSUME NEW query \in Seq(Symbols), NEW cut \in Cuts(query), FitBefore(query, cut)
    PROVE  /\ ~HasKey(Piece(query, cut)) => Heard(query) = Before(query, cut)
           /\ /\ HasKey(Piece(query, cut))
              /\ ~Fits(Piece(query, cut)) \/ NextCut(query, cut) = Len(query) + 1
              => Heard(query) = Before(query, cut) \cup {cut}
<1>1. PICK n \in Nat : n = Len(query)
  OBVIOUS
<1>2. PICK cuts \in SUBSET (0 .. n) : cuts = Cuts(query) /\ cut \in cuts
  BY <1>1, CutsAreInside
<1>3. \A c \in cuts : c < cut => Fits(Piece(query, c))
  BY <1>2 DEF FitBefore, Before
<1>4. \A c \in cuts : Fits(Piece(query, c)) => HasKey(Piece(query, c))
  BY DEF Fits
<1>5. Heard(query) = {c \in cuts : /\ HasKey(Piece(query, c))
                                   /\ \A d \in cuts : d < c => Fits(Piece(query, d))}
  BY <1>2 DEF Heard
<1>6. Before(query, cut) = {c \in cuts : c < cut}
  BY <1>2 DEF Before
<1>7. \A c, d \in cuts : c < d \/ d < c \/ c = d
  BY <1>2
<1>8. \A c, d \in cuts : c < cut /\ d < c => d < cut
  BY <1>2
<1>9. \A c \in cuts : c < cut => c \in Heard(query)
  BY <1>3, <1>4, <1>5, <1>8
<1>10. ASSUME ~HasKey(Piece(query, cut)) PROVE Heard(query) = Before(query, cut)
  <2>1. ~Fits(Piece(query, cut))
    BY <1>2, <1>4, <1>10
  <2>2. ASSUME NEW c \in Heard(query) PROVE c \in cuts /\ c < cut
    <3>1. c \in cuts /\ HasKey(Piece(query, c)) /\ (cut < c => Fits(Piece(query, cut)))
      BY <1>2, <1>5
    <3> QED BY <1>2, <1>7, <1>10, <2>1, <3>1
  <2> QED BY <1>6, <1>9, <2>2
<1>11. ASSUME HasKey(Piece(query, cut)),
              ~Fits(Piece(query, cut)) \/ NextCut(query, cut) = Len(query) + 1
       PROVE  Heard(query) = Before(query, cut) \cup {cut}
  <2>1. cut \in Heard(query)
    BY <1>2, <1>3, <1>5, <1>11
  <2>2. ASSUME NEW c \in Heard(query) PROVE c \in cuts /\ (c < cut \/ c = cut)
    <3>1. c \in cuts /\ (cut < c => Fits(Piece(query, cut)))
      BY <1>2, <1>5
    <3>2. NextCut(query, cut) = Len(query) + 1 => ~(cut < c)
      <4>1. c <= cut \/ NextCut(query, cut) <= c
        BY <1>2, <3>1, CutsAreInside
      <4> QED BY <1>1, <1>2, <3>1, <4>1
    <3> QED BY <1>2, <1>7, <1>11, <3>1, <3>2
  <2> QED BY <1>6, <1>9, <2>1, <2>2
<1> QED BY <1>10, <1>11

LEMMA BeforeNext ==
    ASSUME NEW query \in Seq(Symbols), NEW cut \in Cuts(query), NEW next, next = NextCut(query, cut),
           next \in Cuts(query), FitBefore(query, cut), Fits(Piece(query, cut))
    PROVE  Before(query, next) = Before(query, cut) \cup {cut} /\ FitBefore(query, next)
<1>1. PICK n \in Nat : n = Len(query)
  OBVIOUS
<1>2. PICK cuts \in SUBSET (0 .. n) : cuts = Cuts(query) /\ cut \in cuts /\ next \in cuts
  BY <1>1, CutsAreInside
<1>3. cut < next /\ \A c \in cuts : c <= cut \/ next <= c
  BY <1>1, <1>2, CutsAreInside
<1>4. \A c \in cuts : c < next <=> c < cut \/ c = cut
  BY <1>2, <1>3
<1>5. Before(query, next) = Before(query, cut) \cup {cut}
  BY <1>2, <1>4 DEF Before
<1> QED BY <1>5 DEF FitBefore

-----------------------------------------------------------------------------
(* Character by character. *)

\* How much of a piece has been read at a place.
PartRead(query, cut, k, key, value, at) ==
    \/ at = "pair" /\ k = cut
    \/ at = "key" /\ value = << >> /\ KeyRead(query, cut, k + 1) /\ key = SubSeq(query, cut + 1, k)
    \/ \E e \in cut + 2 .. k :
          /\ at \in {"equals", "value"} /\ (at = "equals" <=> e = k)
          /\ KeyRead(query, cut, e) /\ query[e] = "=" /\ key = SubSeq(query, cut + 1, e - 1)
          /\ value = SubSeq(query, e + 1, k)
          /\ \A i \in e + 1 .. k : IsAlnum(query[i])

\* What is left of a piece that fits nowhere: its key and what was read of its value.
LeftAt(query, cut, params, more) ==
    \/ ~HasKey(Piece(query, cut)) /\ more = params
    \/ /\ HasKey(Piece(query, cut)) /\ ~Fits(Piece(query, cut))
       /\ more = With(params, KeyAt(query, cut), ValueAt(query, cut))

\* One more character of the piece after a cut.
ReadOn(query, cut, b, params, s) ==
    \/ \E key, value, at : s = Parsed(params, key, value, at) /\ PartRead(query, cut, b, key, value, at)
    \/ \E more, key, value : s = Parsed(more, key, value, "stop") /\ LeftAt(query, cut, params, more)

LEMMA InPiece ==
    ASSUME NEW query \in Seq(Symbols), NEW cut \in Cuts(query), NEW b \in cut + 1 .. NextCut(query, cut) - 1
    PROVE  b \in 1 .. Len(query) /\ ~Separates(query[b])
<1>1. PICK n \in Nat : n = Len(query) /\ DOMAIN query = 1 .. n
  OBVIOUS
<1>2. PICK c \in 0 .. n : c = cut
  BY <1>1, CutsAreInside
<1>3. PICK next \in c + 1 .. n + 1 : next = NextCut(query, cut)
  BY <1>1, <1>2, CutsAreInside
<1>4. b \in 1 .. n
  BY <1>2, <1>3
<1>5. b \notin Cuts(query)
  <2>1. ~(b <= cut) /\ ~(next <= b)
    BY <1>2, <1>3
  <2> QED BY <1>3, <2>1, CutsAreInside
<1> QED BY <1>1, <1>4, <1>5 DEF Cuts, Separates

LEMMA FirstOfPiece ==
    ASSUME NEW query \in Seq(Symbols), NEW cut \in Cuts(query), NEW params, NEW key, NEW value,
           NEW b \in cut + 1 .. NextCut(query, cut) - 1, b = cut + 1
    PROVE  ReadOn(query, cut, b, params, ParamStep(Parsed(params, key, value, "pair"), query[b]))
<1>1. PICK n \in Nat : n = Len(query)
  OBVIOUS
<1>2. PICK c \in 0 .. n : c = cut
  BY <1>1, CutsAreInside
<1>3. PICK next \in c + 1 .. n + 1 : next = NextCut(query, cut)
  BY <1>1, <1>2, CutsAreInside
<1>4. PICK a \in 1 .. n : a = b /\ a = c + 1 /\ a < next
  BY <1>1, <1>2, <1>3, InPiece
<1>5. CASE IsLetter(query[b])
  <2>1. ParamStep(Parsed(params, key, value, "pair"), query[b]) = Parsed(params, <<query[b]>>, << >>, "key")
    BY <1>5, KeyBegins
  <2>2. <<query[b]>> = SubSeq(query, cut + 1, b)
    BY <1>1, <1>2, <1>4, OneCharacter
  <2>3. KeyRead(query, cut, b + 1)
    <3>1. b + 1 \in cut + 2 .. NextCut(query, cut)
      BY <1>2, <1>3, <1>4
    <3>2. \A i \in cut + 1 .. (b + 1) - 1 : i = b
      BY <1>2, <1>4
    <3> QED BY <1>2, <1>4, <1>5, <3>1, <3>2, Characters DEF KeyRead
  <2>4. PartRead(query, cut, b, <<query[b]>>, << >>, "key")
    BY <2>2, <2>3 DEF PartRead
  <2> QED BY <2>1, <2>4 DEF ReadOn
<1>6. CASE ~IsLetter(query[b])
  <2>1. ParamStep(Parsed(params, key, value, "pair"), query[b]) = Parsed(params, key, value, "stop")
    BY <1>6, NoKeyStops
  <2>2. Piece(query, cut)[1] = query[b]
    <3>1. query[b] = Piece(query, cut)[b - cut]
      BY <1>2, <1>3, <1>4, PieceText
    <3> QED BY <1>2, <1>4, <3>1
  <2>3. LeftAt(query, cut, params, params)
    BY <1>6, <2>2 DEF LeftAt, HasKey
  <2> QED BY <2>1, <2>3 DEF ReadOn
<1> QED BY <1>5, <1>6

LEMMA NextOfKey ==
    ASSUME NEW query \in Seq(Symbols), NEW cut \in Cuts(query), NEW params,
           NEW b \in cut + 2 .. NextCut(query, cut) - 1, KeyRead(query, cut, b)
    PROVE  ReadOn(query, cut, b, params,
                  ParamStep(Parsed(params, SubSeq(query, cut + 1, b - 1), << >>, "key"), query[b]))
<1>1. PICK n \in Nat : n = Len(query)
  OBVIOUS
<1>2. PICK c \in 0 .. n : c = cut
  BY <1>1, CutsAreInside
<1>3. PICK next \in c + 1 .. n + 1 : next = NextCut(query, cut)
  BY <1>1, <1>2, CutsAreInside
<1>4. PICK a \in 1 .. n : a = b /\ c + 1 < a /\ a < next
  BY <1>1, <1>2, <1>3
<1>5. PICK key : key = SubSeq(query, cut + 1, b - 1)
  OBVIOUS
<1>6. CASE IsAlnum(query[b])
  <2>1. ParamStep(Parsed(params, key, << >>, "key"), query[b]) = Parsed(params, Append(key, query[b]), << >>, "key")
    BY <1>6, KeyGrows
  <2>2. Append(key, query[b]) = SubSeq(query, cut + 1, b)
    <3>1. PICK k \in Nat : k + 1 = a /\ k = b - 1
      BY <1>4
    <3>2. SubSeq(query, c + 1, k + 1) = Append(SubSeq(query, c + 1, k), query[k + 1])
      BY <1>1, <1>4, <3>1, PartGrows
    <3> QED BY <1>2, <1>4, <1>5, <3>1, <3>2
  <2>3. KeyRead(query, cut, b + 1)
    <3>1. b + 1 \in cut + 2 .. NextCut(query, cut)
      BY <1>2, <1>3, <1>4
    <3>2. \A i \in cut + 1 .. (b + 1) - 1 : i = b \/ i \in cut + 1 .. b - 1
      BY <1>2, <1>4
    <3> QED BY <1>6, <3>1, <3>2 DEF KeyRead
  <2>4. PartRead(query, cut, b, Append(key, query[b]), << >>, "key")
    BY <2>2, <2>3 DEF PartRead
  <2> QED BY <1>5, <2>1, <2>4 DEF ReadOn
<1>7. CASE query[b] = "="
  <2>1. ParamStep(Parsed(params, key, << >>, "key"), query[b]) = Parsed(params, key, << >>, "equals")
    BY <1>7, KeyEnds
  <2>2. SubSeq(query, b + 1, b) = << >>
    BY <1>4
  <2>3. PartRead(query, cut, b, key, << >>, "equals")
    <3>1. b \in cut + 2 .. b
      BY <1>2, <1>4
    <3>2. \A i \in b + 1 .. b : FALSE
      BY <1>4
    <3> QED BY <1>5, <1>7, <2>2, <3>1, <3>2 DEF PartRead
  <2> QED BY <1>5, <2>1, <2>3 DEF ReadOn
<1>8. CASE ~IsAlnum(query[b]) /\ query[b] # "="
  <2>1. ~GoesOn("key", query[b])
    <3>1. ~Separates(query[b])
      BY <1>2, <1>3, <1>4, InPiece
    <3> QED BY <1>8, <3>1 DEF GoesOn
  <2>2. ParamStep(Parsed(params, key, << >>, "key"), query[b]) = Parsed(With(params, key, << >>), key, << >>, "stop")
    BY <1>8, <2>1, PairStops
  <2>3. /\ HasKey(Piece(query, cut)) /\ KeyAt(query, cut) = key
        /\ ~Fits(Piece(query, cut)) /\ ValueAt(query, cut) = << >>
    <3>1. b # NextCut(query, cut)
      BY <1>3, <1>4
    <3> QED BY <1>5, <1>8, <3>1, KeyIsRead, KeyIsFollowed DEF KeyAt, ValueAt
  <2>4. LeftAt(query, cut, params, With(params, key, << >>))
    BY <2>3 DEF LeftAt
  <2> QED BY <1>5, <2>2, <2>4 DEF ReadOn
<1> QED BY <1>6, <1>7, <1>8

LEMMA NextOfValue ==
    ASSUME NEW query \in Seq(Symbols), NEW cut \in Cuts(query), NEW params,
           NEW e \in cut + 2 .. NextCut(query, cut) - 1, KeyRead(query, cut, e), query[e] = "=",
           NEW b \in e + 1 .. NextCut(query, cut) - 1, \A i \in e + 1 .. b - 1 : IsAlnum(query[i]),
           NEW at \in {"equals", "value"}
    PROVE  ReadOn(query, cut, b, params,
                  ParamStep(Parsed(params, SubSeq(query, cut + 1, e - 1), SubSeq(query, e + 1, b - 1), at),
                            query[b]))
<1>1. PICK n \in Nat : n = Len(query)
  OBVIOUS
<1>2. PICK c \in 0 .. n : c = cut
  BY <1>1, CutsAreInside
<1>3. PICK next \in c + 1 .. n + 1 : next = NextCut(query, cut)
  BY <1>1, <1>2, CutsAreInside
<1>4. PICK f \in 1 .. n : f = e /\ c + 1 < f
  BY <1>1, <1>2, <1>3
<1>5. PICK a \in 1 .. n : a = b /\ f < a /\ a < next
  BY <1>1, <1>2, <1>3, <1>4
<1>6. PICK key, value : key = SubSeq(query, cut + 1, e - 1) /\ value = SubSeq(query, e + 1, b - 1)
  OBVIOUS
<1>7. CASE IsAlnum(query[b])
  <2>1. ParamStep(Parsed(params, key, value, at), query[b]) = Parsed(params, key, Append(value, query[b]), "value")
    BY <1>7, ValueGrows
  <2>2. Append(value, query[b]) = SubSeq(query, e + 1, b)
    <3>1. PICK k \in Nat : k + 1 = a /\ k = b - 1 /\ f + 1 <= k + 1
      BY <1>5
    <3>2. SubSeq(query, f + 1, k + 1) = Append(SubSeq(query, f + 1, k), query[k + 1])
      BY <1>1, <1>5, <3>1, PartGrows
    <3> QED BY <1>4, <1>5, <1>6, <3>1, <3>2
  <2>3. PartRead(query, cut, b, key, Append(value, query[b]), "value")
    <3>1. e \in cut + 2 .. b /\ e # b
      BY <1>2, <1>4, <1>5
    <3>2. \A i \in e + 1 .. b : i = b \/ i \in e + 1 .. b - 1
      BY <1>4, <1>5
    <3> QED BY <1>6, <1>7, <2>2, <3>1, <3>2 DEF PartRead
  <2> QED BY <1>6, <2>1, <2>3 DEF ReadOn
<1>8. CASE ~IsAlnum(query[b])
  <2>1. ~GoesOn(at, query[b])
    <3>1. ~Separates(query[b])
      BY <1>2, <1>3, <1>4, <1>5, InPiece
    <3> QED BY <3>1 DEF GoesOn
  <2>2. ParamStep(Parsed(params, key, value, at), query[b]) = Parsed(With(params, key, value), key, value, "stop")
    <3>1. at \in {"key", "equals", "value"}
      OBVIOUS
    <3> QED BY <1>8, <2>1, <3>1, PairStops
  <2>3. HasKey(Piece(query, cut)) /\ KeyAt(query, cut) = key
    BY <1>6, KeyIsRead, Characters DEF KeyAt
  <2>4. ~Fits(Piece(query, cut)) /\ ValueAt(query, cut) = value
    <3>1. b \in e + 1 .. NextCut(query, cut) /\ b # NextCut(query, cut)
      BY <1>3, <1>4, <1>5
    <3> QED BY <1>6, <1>8, <3>1, ValueIsRead DEF ValueAt
  <2>5. LeftAt(query, cut, params, With(params, key, value))
    BY <2>3, <2>4 DEF LeftAt
  <2> QED BY <1>6, <2>2, <2>5 DEF ReadOn
<1> QED BY <1>7, <1>8

LEMMA PieceGoesOn ==
    ASSUME NEW query \in Seq(Symbols), NEW cut \in Cuts(query), NEW params, NEW key, NEW value, NEW at,
           NEW k \in cut .. NextCut(query, cut) - 2, PartRead(query, cut, k, key, value, at)
    PROVE  ReadOn(query, cut, k + 1, params, ParamStep(Parsed(params, key, value, at), query[k + 1]))
<1>1. PICK n \in Nat : n = Len(query)
  OBVIOUS
<1>2. PICK c \in 0 .. n : c = cut
  BY <1>1, CutsAreInside
<1>3. PICK next \in c + 1 .. n + 1 : next = NextCut(query, cut)
  BY <1>1, <1>2, CutsAreInside
<1>4. PICK b \in c + 1 .. next - 1 : b = k + 1 /\ b - 1 = k
  BY <1>2, <1>3
<1>5. CASE at = "pair" /\ k = cut
  <2>1. b \in cut + 1 .. NextCut(query, cut) - 1 /\ b = cut + 1
    BY <1>2, <1>3, <1>4, <1>5
  <2>2. ReadOn(query, cut, b, params, ParamStep(Parsed(params, key, value, "pair"), query[b]))
    BY <2>1, FirstOfPiece
  <2> QED BY <1>4, <1>5, <2>2
<1>6. CASE at = "key" /\ value = << >> /\ KeyRead(query, cut, k + 1) /\ key = SubSeq(query, cut + 1, k)
  <2>1. b \in cut + 2 .. NextCut(query, cut) - 1 /\ KeyRead(query, cut, b)
    <3>1. k + 1 \in cut + 2 .. NextCut(query, cut)
      BY <1>6 DEF KeyRead
    <3> QED BY <1>2, <1>3, <1>4, <1>6, <3>1
  <2>2. ReadOn(query, cut, b, params, ParamStep(Parsed(params, SubSeq(query, cut + 1, b - 1), << >>, "key"), query[b]))
    BY <2>1, NextOfKey
  <2> QED BY <1>4, <1>6, <2>2
<1>7. ASSUME NEW e \in cut + 2 .. k, at \in {"equals", "value"},
             KeyRead(query, cut, e), query[e] = "=", key = SubSeq(query, cut + 1, e - 1),
             value = SubSeq(query, e + 1, k), \A i \in e + 1 .. k : IsAlnum(query[i])
      PROVE  ReadOn(query, cut, k + 1, params, ParamStep(Parsed(params, key, value, at), query[k + 1]))
  <2>1. e \in cut + 2 .. NextCut(query, cut) - 1 /\ b \in e + 1 .. NextCut(query, cut) - 1
    BY <1>2, <1>3, <1>4
  <2>2. \A i \in e + 1 .. b - 1 : IsAlnum(query[i])
    BY <1>4, <1>7
  <2>3. ReadOn(query, cut, b, params,
               ParamStep(Parsed(params, SubSeq(query, cut + 1, e - 1), SubSeq(query, e + 1, b - 1), at), query[b]))
    BY <1>7, <2>1, <2>2, NextOfValue
  <2> QED BY <1>4, <1>7, <2>3
<1> QED BY <1>5, <1>6, <1>7 DEF PartRead

\* A piece whose end has been reached: not begun, or its key and its value.
EndRead(query, cut, key, value, at) ==
    /\ HasKey(Piece(query, cut)) /\ KeyAt(query, cut) = key /\ ValueAt(query, cut) = value
    /\ \/ at \in {"key", "value"} /\ Fits(Piece(query, cut))
       \/ at = "equals" /\ ~Fits(Piece(query, cut))

LEMMA PieceEnds ==
    ASSUME NEW query \in Seq(Symbols), NEW cut \in Cuts(query), NEW key, NEW value, NEW at,
           PartRead(query, cut, NextCut(query, cut) - 1, key, value, at)
    PROVE  \/ at = "pair" /\ ~HasKey(Piece(query, cut))
           \/ EndRead(query, cut, key, value, at)
<1>1. PICK n \in Nat : n = Len(query)
  OBVIOUS
<1>2. PICK c \in 0 .. n : c = cut
  BY <1>1, CutsAreInside
<1>3. PICK next \in c + 1 .. n + 1 : next = NextCut(query, cut)
  BY <1>1, <1>2, CutsAreInside
<1>4. PICK k \in c .. n : k = next - 1 /\ k + 1 = next
  BY <1>3
<1>5. CASE at = "pair" /\ k = cut
  <2>1. Len(Piece(query, cut)) = 0
    <3>1. Len(Piece(query, cut)) = next - 1 - c
      BY <1>2, <1>3, PieceText
    <3> QED BY <1>2, <1>4, <1>5, <3>1
  <2>2. Piece(query, cut) = << >>
    BY <2>1, PieceText, EmptySeq
  <2> QED BY <1>5, <2>2 DEF HasKey
<1>6. CASE at = "key" /\ value = << >> /\ KeyRead(query, cut, k + 1) /\ key = SubSeq(query, cut + 1, k)
  <2>1. KeyRead(query, cut, NextCut(query, cut)) /\ key = SubSeq(query, cut + 1, NextCut(query, cut) - 1)
    BY <1>3, <1>4, <1>6
  <2>2. HasKey(Piece(query, cut)) /\ KeyIn(Piece(query, cut)) = key
    BY <2>1, KeyIsRead
  <2>3. Fits(Piece(query, cut)) /\ ValueIn(Piece(query, cut)) = << >>
    BY <2>1, OnlyKey
  <2> QED BY <1>6, <2>2, <2>3 DEF EndRead, KeyAt, ValueAt
<1>7. ASSUME NEW e \in cut + 2 .. k, at \in {"equals", "value"}, at = "equals" <=> e = k,
             KeyRead(query, cut, e), query[e] = "=", key = SubSeq(query, cut + 1, e - 1),
             value = SubSeq(query, e + 1, k), \A i \in e + 1 .. k : IsAlnum(query[i])
      PROVE  EndRead(query, cut, key, value, at)
  <2>1. HasKey(Piece(query, cut)) /\ KeyIn(Piece(query, cut)) = key
    BY <1>7, KeyIsRead, Characters
  <2>2. /\ ValueIn(Piece(query, cut)) = value
        /\ Fits(Piece(query, cut)) <=> e # k
    <3>1. PICK f \in e + 1 .. NextCut(query, cut) : f = next /\ f - 1 = k
      BY <1>2, <1>3, <1>4
    <3>2. \A i \in e + 1 .. f - 1 : IsAlnum(query[i])
      BY <1>7, <3>1
    <3>3. /\ ValueIn(Piece(query, cut)) = SubSeq(query, e + 1, f - 1)
          /\ Fits(Piece(query, cut)) <=> f = NextCut(query, cut) /\ f # e + 1
      BY <1>3, <1>7, <3>1, <3>2, ValueIsRead
    <3>4. f # e + 1 <=> e # k
      BY <1>2, <1>4, <3>1
    <3> QED BY <1>3, <1>7, <3>1, <3>3, <3>4
  <2> QED BY <1>7, <2>1, <2>2 DEF EndRead, KeyAt, ValueAt
<1>8. PartRead(query, cut, k, key, value, at)
  BY <1>3, <1>4
<1> QED BY <1>5, <1>6, <1>7, <1>8 DEF PartRead

\* The states of urlParams: in a piece, or at an end.
Reading(query, s, k) ==
    \E cut \in Cuts(query) : \E params, key, value, at :
        /\ s = Parsed(params, key, value, at)
        /\ k \in cut .. NextCut(query, cut) - 1 /\ PartRead(query, cut, k, key, value, at)
        /\ FitBefore(query, cut) /\ Arrived(query, params, Before(query, cut))

Stopped(query, s) == s.at = "stop" /\ Arrived(query, s.params, Heard(query))

LEMMA OneMore ==
    ASSUME NEW query \in Seq(Symbols), NEW b \in 1 .. Len(query), NEW s,
           Reading(query, s, b - 1) \/ Stopped(query, s)
    PROVE  Reading(query, ParamStep(s, query[b]), b) \/ Stopped(query, ParamStep(s, query[b]))
<1>1. CASE Stopped(query, s)
  BY <1>1, ParsingStops DEF Stopped
<1>2. ASSUME Reading(query, s, b - 1)
      PROVE  Reading(query, ParamStep(s, query[b]), b) \/ Stopped(query, ParamStep(s, query[b]))
  <2>1. PICK n \in Nat : n = Len(query) /\ DOMAIN query = 1 .. n
    OBVIOUS
  <2>10. PICK cut \in Cuts(query) : \E params, key, value, at :
            /\ s = Parsed(params, key, value, at)
            /\ b - 1 \in cut .. NextCut(query, cut) - 1 /\ PartRead(query, cut, b - 1, key, value, at)
            /\ FitBefore(query, cut) /\ Arrived(query, params, Before(query, cut))
    BY <1>2 DEF Reading
  <2>2. PICK params, key, value, at :
            /\ s = Parsed(params, key, value, at)
            /\ b - 1 \in cut .. NextCut(query, cut) - 1 /\ PartRead(query, cut, b - 1, key, value, at)
            /\ FitBefore(query, cut) /\ Arrived(query, params, Before(query, cut))
    BY <2>10
  <2>3. PICK c \in 0 .. n : c = cut
    BY <2>1, CutsAreInside
  <2>4. PICK next \in c + 1 .. n + 1 : next = NextCut(query, cut)
    BY <2>1, <2>3, CutsAreInside
  <2>5. PICK a \in 1 .. n : a = b /\ c < a /\ a <= next
    BY <2>1, <2>2, <2>3, <2>4
  <2>6. PICK t : t = ParamStep(s, query[b])
    OBVIOUS
  <2>7. Arrived(query, With(params, KeyAt(query, cut), ValueAt(query, cut)), Before(query, cut) \cup {cut})
    BY <2>2, PieceArrives
  <2>8. CASE b # next
    <3>1. ReadOn(query, cut, b, params, t)
      <4>1. PICK k \in cut .. NextCut(query, cut) - 2 : k = b - 1 /\ k + 1 = b
        BY <2>3, <2>4, <2>5, <2>8
      <4>2. ReadOn(query, cut, k + 1, params, ParamStep(Parsed(params, key, value, at), query[k + 1]))
        BY <2>2, <4>1, PieceGoesOn
      <4> QED BY <2>2, <2>6, <4>1, <4>2
    <3>2. CASE \E k, v, w : t = Parsed(params, k, v, w) /\ PartRead(query, cut, b, k, v, w)
      <4>1. b \in cut .. NextCut(query, cut) - 1
        BY <2>3, <2>4, <2>5, <2>8
      <4> QED BY <2>2, <2>6, <3>2, <4>1 DEF Reading
    <3>3. ASSUME NEW more, NEW k, NEW v, t = Parsed(more, k, v, "stop"), LeftAt(query, cut, params, more)
          PROVE  Stopped(query, t)
      <4>1. t.at = "stop" /\ t.params = more
        BY <3>3 DEF Parsed
      <4>2. Arrived(query, more, Heard(query))
        <5>1. CASE ~HasKey(Piece(query, cut)) /\ more = params
          BY <2>2, <5>1, HeardUpTo
        <5>2. CASE /\ HasKey(Piece(query, cut)) /\ ~Fits(Piece(query, cut))
                   /\ more = With(params, KeyAt(query, cut), ValueAt(query, cut))
          BY <2>2, <2>7, <5>2, HeardUpTo
        <5> QED BY <3>3, <5>1, <5>2 DEF LeftAt
      <4> QED BY <4>1, <4>2 DEF Stopped
    <3> QED BY <2>6, <3>1, <3>2, <3>3 DEF ReadOn
  <2>9. CASE b = next
    <3>1. Separates(query[b]) /\ b \in Cuts(query)
      <4>1. next \in Cuts(query) \cup {n + 1}
        BY <2>1, <2>4, CutsAreInside
      <4>2. b \in Cuts(query)
        BY <2>5, <2>9, <4>1
      <4>3. b # 0
        OBVIOUS
      <4>4. b \in DOMAIN query /\ query[b] \in {"&", ";"}
        BY <4>2, <4>3 DEF Cuts
      <4> QED BY <4>2, <4>4 DEF Separates
    <3>2. PartRead(query, cut, NextCut(query, cut) - 1, key, value, at)
      BY <2>2, <2>4, <2>9
    <3>3. CASE at = "pair" /\ ~HasKey(Piece(query, cut))
      <4>1. ~IsLetter(query[b])
        BY <3>1, Characters DEF Separates
      <4>2. t = Parsed(params, key, value, "stop")
        BY <2>2, <2>6, <3>3, <4>1, NoKeyStops
      <4>3. t.at = "stop" /\ t.params = params
        BY <4>2 DEF Parsed
      <4>4. Heard(query) = Before(query, cut)
        BY <2>2, <3>3, HeardUpTo
      <4> QED BY <2>2, <2>6, <4>3, <4>4 DEF Stopped
    <3>4. CASE EndRead(query, cut, key, value, at) /\ at \in {"key", "value"} /\ Fits(Piece(query, cut))
      <4>1. t = Parsed(With(params, key, value), key, value, "pair")
        BY <2>2, <2>6, <3>1, <3>4, PairEnds
      <4>2. Before(query, b) = Before(query, cut) \cup {cut} /\ FitBefore(query, b)
        BY <2>2, <2>4, <2>9, <3>1, <3>4, BeforeNext
      <4>3. Arrived(query, With(params, key, value), Before(query, b))
        BY <2>7, <3>4, <4>2 DEF EndRead
      <4>4. PartRead(query, b, b, key, value, "pair")
        BY DEF PartRead
      <4>5. b \in b .. NextCut(query, b) - 1
        <5>1. NextCut(query, b) \in b + 1 .. n + 1
          BY <2>1, <3>1, CutsAreInside
        <5> QED BY <2>5, <5>1
      <4> QED BY <2>6, <3>1, <4>1, <4>2, <4>3, <4>4, <4>5 DEF Reading
    <3>5. CASE EndRead(query, cut, key, value, at) /\ at = "equals" /\ ~Fits(Piece(query, cut))
      <4>1. t = Parsed(With(params, key, value), key, value, "stop")
        <5>1. ~IsAlnum(query[b])
          BY <3>1, Characters DEF Separates
        <5>2. ~GoesOn("equals", query[b])
          BY DEF GoesOn
        <5>3. ParamStep(Parsed(params, key, value, "equals"), query[b]) =
                  Parsed(With(params, key, value), key, value, "stop")
          BY <5>1, <5>2, PairStops
        <5> QED BY <2>2, <2>6, <3>5, <5>3
      <4>2. t.at = "stop" /\ t.params = With(params, key, value)
        BY <4>1 DEF Parsed
      <4>3. Heard(query) = Before(query, cut) \cup {cut}
        BY <2>2, <3>5, HeardUpTo DEF EndRead
      <4>4. Arrived(query, t.params, Heard(query))
        BY <2>7, <3>5, <4>2, <4>3 DEF EndRead
      <4> QED BY <2>6, <4>2, <4>4 DEF Stopped
    <3> QED BY <3>2, <3>3, <3>4, <3>5, PieceEnds DEF EndRead
  <2> QED BY <2>8, <2>9
<1> QED BY <1>1, <1>2

\* The states of urlParams over a query, and over the beginning of a longer one.
LEMMA AllRead ==
    ASSUME NEW query \in Seq(Symbols), NEW p, p[0] = NoPair,
           \A k \in 1 .. Len(query) : p[k] = ParamStep(p[k - 1], query[k])
    PROVE  Reading(query, p[Len(query)], Len(query)) \/ Stopped(query, p[Len(query)])
<1>1. PICK n \in Nat : n = Len(query)
  OBVIOUS
<1>2. 0 \in Cuts(query)
  BY DEF Cuts
<1> DEFINE Done == {k \in 0 .. n : Reading(query, p[k], k) \/ Stopped(query, p[k])}
<1>3. 0 \in Done
  <2>1. PICK empty : empty = << >> /\ DOMAIN empty = {}
    <3>1. DOMAIN << >> = {}
      OBVIOUS
    <3> QED BY <3>1
  <2>2. Before(query, 0) = {}
    <3>1. ASSUME NEW c \in Cuts(query) PROVE ~(c < 0)
      <4>1. c \in 0 .. n
        BY <1>1, <1>2, CutsAreInside
      <4> QED BY <4>1
    <3> QED BY <3>1 DEF Before
  <2>3. Arrived(query, empty, Before(query, 0)) /\ FitBefore(query, 0)
    BY <2>1, <2>2 DEF Arrived, FitBefore
  <2>4. p[0] = Parsed(empty, << >>, << >>, "pair")
    BY <2>1, NothingRead
  <2>5. PartRead(query, 0, 0, << >>, << >>, "pair")
    BY DEF PartRead
  <2>6. 0 \in 0 .. NextCut(query, 0) - 1
    <3>1. NextCut(query, 0) \in 0 + 1 .. n + 1
      BY <1>1, <1>2, CutsAreInside
    <3> QED BY <3>1
  <2>7. Reading(query, p[0], 0)
    BY <1>2, <2>3, <2>4, <2>5, <2>6 DEF Reading
  <2> QED BY <2>7
<1>4. ASSUME NEW k \in Done, k < n PROVE k + 1 \in Done
  <2>1. PICK b \in 1 .. n : b = k + 1 /\ b - 1 = k
    BY <1>4
  <2>2. p[b] = ParamStep(p[k], query[b])
    BY <1>1, <2>1
  <2>3. Reading(query, p[k], b - 1) \/ Stopped(query, p[k])
    BY <2>1
  <2>4. Reading(query, p[b], b) \/ Stopped(query, p[b])
    BY <1>1, <2>2, <2>3, OneMore
  <2> QED BY <2>1, <2>4
<1>5. Done = 0 .. n
  <2>1. Done \in SUBSET (0 .. n) /\ 0 <= n
    OBVIOUS
  <2> HIDE DEF Done
  <2> QED BY <1>3, <1>4, <2>1, CountUp
<1>6. n \in Done
  BY <1>5
<1> QED BY <1>1, <1>6

\* What is heard of a query arrives.
LEMMA HeardArrives ==
    ASSUME NEW query \in Seq(Symbols)
    PROVE  Arrived(query, urlParams(query), Heard(query))
<1>1. PICK n \in Nat : n = Len(query)
  OBVIOUS
<1>2. PICK p : /\ p[0] = NoPair
               /\ \A k \in 1 .. n : p[k] = ParamStep(p[k - 1], query[k])
               /\ FoldLeft(ParamStep, NoPair, query) = p[n]
  BY <1>1, ParsingSteps
<1>3. PICK s : s = p[n] /\ urlParams(query) = IF s.at \in {"key", "equals", "value"} THEN Commit(s) ELSE s.params
  BY <1>2 DEF urlParams
<1>4. CASE Stopped(query, s)
  <2>1. s.at \notin {"key", "equals", "value"}
    BY <1>4 DEF Stopped
  <2>2. urlParams(query) = s.params
    BY <1>3, <2>1
  <2> QED BY <1>4, <2>2 DEF Stopped
<1>5. ASSUME Reading(query, s, n) PROVE Arrived(query, urlParams(query), Heard(query))
  <2>7. PICK cut \in Cuts(query) : \E params, key, value, at :
            /\ s = Parsed(params, key, value, at)
            /\ n \in cut .. NextCut(query, cut) - 1 /\ PartRead(query, cut, n, key, value, at)
            /\ FitBefore(query, cut) /\ Arrived(query, params, Before(query, cut))
    BY <1>5 DEF Reading
  <2>1. PICK params, key, value, at :
            /\ s = Parsed(params, key, value, at)
            /\ n \in cut .. NextCut(query, cut) - 1 /\ PartRead(query, cut, n, key, value, at)
            /\ FitBefore(query, cut) /\ Arrived(query, params, Before(query, cut))
    BY <2>7
  <2>2. NextCut(query, cut) = n + 1 /\ NextCut(query, cut) - 1 = n
    <3>1. NextCut(query, cut) \in cut + 1 .. n + 1 /\ cut \in 0 .. n
      BY <1>1, CutsAreInside
    <3> QED BY <2>1, <3>1
  <2>3. \/ at = "pair" /\ ~HasKey(Piece(query, cut))
        \/ EndRead(query, cut, key, value, at)
    BY <2>1, <2>2, PieceEnds
  <2>4. s.at = at /\ s.params = params
    BY <2>1 DEF Parsed
  <2>5. CASE at = "pair" /\ ~HasKey(Piece(query, cut))
    <3>1. urlParams(query) = params
      BY <1>3, <2>4, <2>5
    <3> QED BY <2>1, <2>5, <3>1, HeardUpTo
  <2>6. CASE EndRead(query, cut, key, value, at)
    <3>1. at \in {"key", "equals", "value"}
      BY <2>6 DEF EndRead
    <3>2. urlParams(query) = With(params, key, value)
      <4>1. Commit(Parsed(params, key, value, at)) = With(params, key, value)
        BY DEF Commit, Parsed, With
      <4>2. urlParams(query) = Commit(s)
        BY <1>3, <2>4, <3>1
      <4> QED BY <2>1, <4>1, <4>2
    <3>3. Arrived(query, With(params, KeyAt(query, cut), ValueAt(query, cut)), Before(query, cut) \cup {cut})
      BY <2>1, PieceArrives
    <3>4. Heard(query) = Before(query, cut) \cup {cut}
      BY <1>1, <2>1, <2>2, <2>6, HeardUpTo DEF EndRead
    <3> QED BY <2>6, <3>2, <3>3, <3>4 DEF EndRead
  <2> QED BY <2>3, <2>5, <2>6
<1>6. Reading(query, s, n) \/ Stopped(query, s)
  BY <1>1, <1>2, <1>3, AllRead
<1> QED BY <1>4, <1>5, <1>6

\* Nothing is heard after a slash, so that the name of an index changes nothing.
LEMMA IndexIsNotHeard ==
    ASSUME NEW query \in Seq(Symbols), NEW x \in Symbols,
           NEW m \in Nat \ {0}, m = Len(query), query[m] = "/"
    PROVE  Arrived(query, urlParams(Append(query, x)), Heard(query))
<1>1. PICK longer \in Seq(Symbols) : longer = Append(query, x)
  <2>1. Append(query, x) \in Seq(Symbols)
    OBVIOUS
  <2> QED BY <2>1
<1>2. Len(longer) = m + 1 /\ \A k \in 1 .. m : longer[k] = query[k]
  BY <1>1
<1>3. PICK p : /\ p[0] = NoPair
               /\ \A k \in 1 .. m + 1 : p[k] = ParamStep(p[k - 1], longer[k])
               /\ FoldLeft(ParamStep, NoPair, longer) = p[m + 1]
  BY <1>2, ParsingSteps
<1>4. Reading(query, p[m], m) \/ Stopped(query, p[m])
  <2>1. \A k \in 1 .. m : k \in 1 .. m + 1
    OBVIOUS
  <2>2. \A k \in 1 .. m : p[k] = ParamStep(p[k - 1], query[k])
    BY <1>2, <1>3, <2>1
  <2> QED BY <1>3, <2>2, AllRead
<1>5. ASSUME Reading(query, p[m], m) PROVE FALSE
  <2>1. PICK cut \in Cuts(query) : \E key, value, at : PartRead(query, cut, m, key, value, at)
    BY <1>5 DEF Reading
  <2>2. PICK key, value, at : PartRead(query, cut, m, key, value, at)
    BY <2>1
  <2>3. cut \in 0 .. m
    BY CutsAreInside
  <2>4. CASE m = cut
    <3>1. m \in DOMAIN query /\ query[m] \in {"&", ";"}
      BY <2>4 DEF Cuts
    <3> QED BY <3>1
  <2>5. CASE KeyRead(query, cut, m + 1)
    <3>1. m \in cut + 1 .. (m + 1) - 1
      BY <2>3, <2>5 DEF KeyRead
    <3> QED BY <2>5, <3>1, Characters DEF KeyRead
  <2>6. ASSUME NEW e \in cut + 2 .. m, query[e] = "=", \A i \in e + 1 .. m : IsAlnum(query[i]) PROVE FALSE
    <3>1. e = m \/ m \in e + 1 .. m
      BY <2>3
    <3> QED BY <2>6, <3>1, Characters
  <2> QED BY <2>2, <2>4, <2>5, <2>6 DEF PartRead
<1>6. PICK s : s = p[m] /\ s.at = "stop" /\ Arrived(query, s.params, Heard(query))
  BY <1>4, <1>5 DEF Stopped
<1>7. p[m + 1] = s
  <2>1. PICK b \in 1 .. m + 1 : b = m + 1 /\ b - 1 = m
    OBVIOUS
  <2>2. p[b] = ParamStep(s, longer[b])
    BY <1>3, <1>6, <2>1
  <2> QED BY <1>6, <2>1, <2>2, ParsingStops
<1>8. urlParams(longer) = s.params
  <2>1. s.at \notin {"key", "equals", "value"}
    BY <1>6
  <2> QED BY <1>3, <1>7, <2>1 DEF urlParams
<1> QED BY <1>1, <1>6, <1>8

\* The parameters of a path are those of the query after its last mark.
LEMMA PathParams ==
    ASSUME NEW path \in Seq(Symbols), path # << >>, HasMatch(Slashes(path), Marks(path)),
           NEW query, query = SubSeq(path, Max(Marks(path)) + 1, Len(path))
    PROVE  Arrived(query, dispatch(WithIndex(path)).params, Heard(query))
<1>1. PICK n \in Nat \ {0} : n = Len(path)
  BY IndexSegments
<1>2. PICK index : index = WithIndex(path)
  OBVIOUS
<1>3. PICK slashes \in SUBSET (1 .. n) : slashes = Slashes(path)
  BY <1>1, IndexSegments
<1>4. PICK marks \in SUBSET (1 .. n) : marks = Marks(path)
  BY <1>1, IndexSegments
<1>5. /\ Slashes(index) = slashes /\ Marks(index) = marks
      /\ path[n] # "/" => Len(index) = n
      /\ path[n] = "/" => Len(index) = n + 1
      /\ \A i \in 1 .. n + 1, j \in 0 .. n :
             SubSeq(index, i, j) = SubSeq(path, i, j) /\ SubSeq(path, i, j) \in Seq(Symbols)
  BY <1>1, <1>2, <1>3, <1>4, IndexSegments
<1>6. HasMatch(slashes, marks)
  BY <1>3, <1>4
<1>7. PICK last \in marks : last = Max(marks)
  BY <1>6, GreedyIsLast
<1>8. Greedy(slashes, marks).mark = last
  <2>1. PICK m : m = Greedy(slashes, marks)
    OBVIOUS
  <2>2. m = [slash |-> Max({i \in slashes : i < Max(marks)}), mark |-> Max(marks)]
    BY <1>6, <2>1, GreedyIsLast
  <2>3. PICK first : first = Max({i \in slashes : i < Max(marks)})
    OBVIOUS
  <2>4. m = [slash |-> first, mark |-> last]
    BY <1>7, <2>2, <2>3, Zenon
  <2> QED BY <2>1, <2>4
<1>9. dispatch(index).params = urlParams(SubSeq(index, last + 1, Len(index)))
  BY <1>5, <1>6, <1>8 DEF dispatch, Handled
<1>10. /\ SubSeq(index, last + 1, n) = query /\ query \in Seq(Symbols)
       /\ query = SubSeq(path, last + 1, n)
  <2>1. query = SubSeq(path, last + 1, n)
    BY <1>1, <1>4, <1>7
  <2>2. last + 1 \in 1 .. n + 1 /\ n \in 0 .. n
    OBVIOUS
  <2> QED BY <1>5, <2>1, <2>2
<1>11. CASE path[n] # "/"
  <2>1. dispatch(index).params = urlParams(query)
    BY <1>5, <1>9, <1>10, <1>11
  <2> QED BY <1>2, <1>10, <2>1, HeardArrives
<1>12. CASE path[n] = "/"
  <2>1. index \in Seq(Symbols) /\ Len(index) = n + 1
    <3>1. PICK html \in Symbols : html = "index.html"
      <4>1. "index.html" \in Symbols
        BY SomeSymbols, Zenon
      <4> QED BY <4>1, Zenon
    <3>2. index = Append(path, html)
      BY <1>1, <1>2, <1>12, <3>1 DEF WithIndex
    <3>3. Append(path, html) \in Seq(Symbols)
      OBVIOUS
    <3> QED BY <1>5, <1>12, <3>2, <3>3
  <2>2. PICK x \in Symbols : x = index[n + 1]
    BY <2>1
  <2>3. SubSeq(index, last + 1, n + 1) = Append(SubSeq(index, last + 1, n), index[n + 1])
    BY <2>1, PartGrows
  <2>4. dispatch(index).params = urlParams(Append(query, x))
    BY <1>9, <1>10, <2>1, <2>2, <2>3
  <2>5. last # n
    <3>1. path[last] = "?"
      BY <1>4 DEF Marks
    <3> QED BY <1>12, <3>1
  <2>6. PICK m \in Nat \ {0} : m = Len(query) /\ query[m] = "/"
    <3>1. PICK a \in 1 .. n : a = last + 1
      BY <2>5
    <3>2. Len(SubSeq(path, a, n)) = n - a + 1
      BY <1>1
    <3>3. PICK k \in 1 .. n - a + 1 : k = n - a + 1 /\ a + k - 1 = n
      OBVIOUS
    <3>4. SubSeq(path, a, n)[k] = path[a + k - 1]
      BY <1>1, <3>3
    <3>5. k = Len(query) /\ query[k] = "/"
      BY <1>10, <1>12, <3>1, <3>2, <3>3, <3>4
    <3>6. k \in Nat \ {0}
      OBVIOUS
    <3> QED BY <3>5, <3>6
  <2> QED BY <1>2, <1>10, <2>4, <2>6, IndexIsNotHeard
<1> QED BY <1>11, <1>12

\* A query arrives as far as it is well formed, whatever is encoded and whatever
\* the path before it: no parameter before the first character that fits nowhere
\* is lost, none after it is taken, none is made up, and a key given twice has
\* its first value, for queries of every length.
THEOREM EveryParamArrives == Spec => []ParamsArrive
<1>1. UriInv => ParamsArrive
  <2> SUFFICES ASSUME UriInv PROVE ParamsArrive
    OBVIOUS
  <2>1. url_decode(uri) = {plain}
    BY DecodedText DEF UriInv
  <2>2. plain \in Seq(Symbols)
    <3>1. PICK g : Decodes(uri, g, plain)
      BY DEF UriInv
    <3>2. PICK n \in Nat : n = Len(uri)
      BY <3>1 DEF Decodes
    <3>3. 1 \in 1 .. n + 1
      OBVIOUS
    <3> QED BY <3>1, <3>2, <3>3 DEF Decodes
  <2>3. MeantMark = MarkOf(plain)
    BY DEF MeantMark, MarkOf
  <2>4. SUFFICES ASSUME MeantMark # {}, handle_request(uri).status = "ok",
                        NEW query, query = SubSeq(plain, Max(MeantMark) + 1, Len(plain))
                 PROVE  Arrived(query, handle_request(uri).params, Heard(query))
    BY DEF ParamsArrive, Arrived, KeyAt, ValueAt
  <2>5. HasMatch(Slashes(plain), Marks(plain)) /\ Max(MeantMark) = Max(Marks(plain))
    BY <2>2, <2>3, <2>4, MatchIsMeant
  <2>6. plain # << >> /\ handle_request(uri) = dispatch(WithIndex(plain))
    <3>1. BadRequest.status # "ok"
      BY DEF BadRequest
    <3>2. \E path \in url_decode(uri) : IsAbsolute(path)
      BY <2>4, <3>1 DEF handle_request
    <3>3. (CHOOSE path \in {plain} : TRUE) = plain
      OBVIOUS
    <3>4. IsAbsolute(plain)
      BY <2>1, <3>2
    <3> QED BY <2>1, <3>2, <3>3, <3>4 DEF handle_request, IsAbsolute
  <2> QED BY <2>2, <2>4, <2>5, <2>6, PathParams
<1> QED BY <1>1, UriInductive, PTL
==============================================================================
