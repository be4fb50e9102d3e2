----------------------------- MODULE HttpProofs -----------------------------
(***************************************************************************)
(* Proofs about HttpServer, for every set of characters, every number of   *)
(* connections and threads, and every size of the buffer: the state is     *)
(* well typed; the parser adds to the last header only when there is one;  *)
(* and what is answered follows the grammar of requests, wherever the      *)
(* reads cut what a client sends.                                          *)
(*                                                                         *)
(* The last of these goes in five steps.  The grammar, which is about      *)
(* lines, becomes one about places of a text (WholeRequest), with one      *)
(* reading of each text.  Reads says what a state of the automaton says    *)
(* of the characters that led to it, and UriRead what uri they gave.       *)
(* Follows says that the automaton is where a request has it, so that it   *)
(* refuses none.  Rest is what makes a request of a text that was not      *)
(* refused, so that it refuses no beginning of one either.  Tracks is the  *)
(* three together; GrammarInv says it of every text that begins with what  *)
(* a connection has read.                                                  *)
(***************************************************************************)
EXTENDS HttpServer, SequenceTheorems, WellFoundedInduction, TLAPS

\* The states within a header line: those that add to the last header, and the
\* one after the colon, which leads to them.
WithinHeader == UsesLastHeader \cup {"space_before_header_value"}

ParserInv(p) == p \in Parsers /\ (p.state \in WithinHeader => p.headers > 0)

\* The inductive invariant: a client that is not there has sent nothing, so
\* that nothing was read when it chooses what to send.
Inv ==
    /\ TypeOK
    /\ \A c \in Connections : ParserInv(parser[c])
    /\ \A c \in Connections : phase[c] = "away" => read[c] = 0

-----------------------------------------------------------------------------
(* The parser *)

\* Every state a character leads to is a state.
LEMMA MovesToStates ==
    ASSUME NEW p, NEW x, NEW next \in Moves(p, x)
    PROVE  next \in States
<1>1. PICK m \in Transitions : next = m[3]
    BY DEF Moves
<1>2. \A t \in Transitions : t[1] \in States
    BY DEF States
<1>3. /\ <<"method", Space, "uri">> \in Transitions
      /\ <<"uri", Space, "http_version_h">> \in Transitions
      /\ <<"http_version_h", {"H"}, "http_version_t_1">> \in Transitions
      /\ <<"http_version_t_1", {"T"}, "http_version_t_2">> \in Transitions
      /\ <<"http_version_t_2", {"T"}, "http_version_p">> \in Transitions
      /\ <<"http_version_p", {"P"}, "http_version_slash">> \in Transitions
      /\ <<"http_version_slash", {"/"}, "http_version_major_start">> \in Transitions
      /\ <<"http_version_major_start", Digits, "http_version_major">> \in Transitions
      /\ <<"http_version_major", {"."}, "http_version_minor_start">> \in Transitions
      /\ <<"http_version_minor_start", Digits, "http_version_minor">> \in Transitions
      /\ <<"http_version_minor", {"cr"}, "expecting_newline_1">> \in Transitions
      /\ <<"expecting_newline_1", {"lf"}, "header_line_start">> \in Transitions
      /\ <<"header_line_start", {"cr"}, "expecting_newline_3">> \in Transitions
      /\ <<"header_lws", {"cr"}, "expecting_newline_2">> \in Transitions
      /\ <<"header_name", {":"}, "space_before_header_value">> \in Transitions
      /\ <<"space_before_header_value", Space, "header_value">> \in Transitions
      /\ <<"header_value", {"cr"}, "expecting_newline_2">> \in Transitions
      /\ <<"expecting_newline_2", {"lf"}, "header_line_start">> \in Transitions
      /\ <<"expecting_newline_3", {"lf"}, "complete">> \in Transitions
    BY DEF Transitions
<1>4. {"method", "uri", "http_version_h", "http_version_t_1", "http_version_t_2",
       "http_version_p", "http_version_slash", "http_version_major_start",
       "http_version_major", "http_version_minor_start", "http_version_minor",
       "expecting_newline_1", "header_line_start", "header_lws", "header_name",
       "space_before_header_value", "header_value", "expecting_newline_2",
       "expecting_newline_3", "complete"} \subseteq States
    <2>1. "complete" \in States
        BY DEF States
    <2> QED  BY <1>2, <1>3, <2>1
<1>5. m[3] \in {"method", "uri", "http_version_h", "http_version_t_1", "http_version_t_2",
                "http_version_p", "http_version_slash", "http_version_major_start",
                "http_version_major", "http_version_minor_start", "http_version_minor",
                "expecting_newline_1", "header_line_start", "header_lws", "header_name",
                "space_before_header_value", "header_value", "expecting_newline_2",
                "expecting_newline_3", "complete"}
    BY <1>1 DEF Transitions
<1> QED  BY <1>1, <1>4, <1>5

\* The ways into the states of a header line.
LEMMA WaysIntoHeader ==
    ASSUME NEW p, NEW x, NEW next \in Moves(p, x), next \in WithinHeader
    PROVE  \/ p.state \in WithinHeader
           \/ p.state = "header_line_start" /\ next = "header_name"
           \/ p.state = "header_line_start" /\ next = "header_lws" /\ p.headers > 0
<1>1. PICK m \in Transitions :
          /\ next = m[3]
          /\ m[1] = p.state
          /\ m[1] = "header_line_start" /\ m[3] = "header_lws" => p.headers > 0
    BY DEF Moves
<1>2. m[3] \in WithinHeader =>
          \/ m[1] \in WithinHeader
          \/ m[1] = "header_line_start" /\ m[3] \in {"header_name", "header_lws"}
    BY <1>1 DEF Transitions, WithinHeader, UsesLastHeader
<1> QED  BY <1>1, <1>2

\* A character keeps the parser's part of the invariant.
LEMMA AfterKeeps ==
    ASSUME NEW p, ParserInv(p), NEW x \in Chars, NEW next \in Moves(p, x)
    PROVE  ParserInv(After(p, x, next))
<1>1. next \in States
    BY MovesToStates
<1>2. /\ p.state \in States /\ p.uri \in Seq(Chars) /\ p.headers \in Nat
      /\ p = [state |-> p.state, uri |-> p.uri, headers |-> p.headers]
    BY DEF ParserInv, Parsers
<1>3. After(p, x, next) \in Parsers
    BY <1>1, <1>2 DEF After, Parsers
<1>4. ASSUME next \in WithinHeader
      PROVE  After(p, x, next).headers > 0
    <2>1. CASE p.state \in WithinHeader
        BY <1>2, <2>1 DEF After, ParserInv
    <2>2. CASE p.state = "header_line_start" /\ next = "header_name"
        BY <1>2, <2>2 DEF After
    <2>3. CASE p.state = "header_line_start" /\ next = "header_lws" /\ p.headers > 0
        BY <1>2, <2>3 DEF After
    <2> QED  BY <1>4, <2>1, <2>2, <2>3, WaysIntoHeader
<1>5. After(p, x, next).state = next
    BY DEF After
<1> QED  BY <1>3, <1>4, <1>5 DEF ParserInv

\* So does a character that is refused.
LEMMA BadKeeps ==
    ASSUME NEW p, ParserInv(p), NEW x \in Chars
    PROVE  ParserInv(After(p, x, "bad"))
<1>1. p.uri \in Seq(Chars) /\ p.headers \in Nat
    BY DEF ParserInv, Parsers
<1>2. "bad" \in States
    BY DEF States
<1>3. After(p, x, "bad") = [state |-> "bad", uri |-> p.uri, headers |-> p.headers]
    BY DEF After
<1> QED  BY <1>1, <1>2, <1>3 DEF ParserInv, Parsers, WithinHeader, UsesLastHeader

\* The first one is in order.
LEMMA NewParserKeeps == ParserInv(NewParser)
<1>1. "method_start" \in States
    <2>1. <<"method_start", Token, "method">> \in Transitions
        BY DEF Transitions
    <2> QED  BY <2>1 DEF States
<1> QED  BY <1>1 DEF ParserInv, Parsers, NewParser, WithinHeader, UsesLastHeader

-----------------------------------------------------------------------------
(* The connections *)

\* A byte that goes through the parser of c, whatever handle_read does then.
LEMMA ParseByteKeeps ==
    ASSUME Inv, NEW c \in Connections, phase[c] = "parsing", ParseByte(c, parser[c])
    PROVE  Inv'
<1> DEFINE x == text[c][parsed[c] + 1]
<1>1. /\ parsed[c] \in Nat /\ read[c] \in Nat
      /\ parsed[c] < read[c] /\ read[c] <= Len(text[c])
      /\ text[c] \in Seq(Chars)
    BY DEF Inv, TypeOK
<1>2. x \in Chars
    BY <1>1
<1>3. parsed' = [parsed EXCEPT ![c] = @ + 1]
    BY DEF ParseByte
<1>4. UNCHANGED <<running, accepting, deaf, text, read, failed>>
    BY DEF ParseByte
<1>5. PICK state : /\ parser' = [parser EXCEPT ![c] = After(parser[c], x, state)]
                   /\ AfterConsume(c, state)
                   /\ state \in Moves(parser[c], x) \/ state = "bad"
    BY DEF ParseByte
<1>6. ParserInv(After(parser[c], x, state))
    BY <1>2, <1>5, AfterKeeps, BadKeeps DEF Inv
<1>7. \A d \in Connections : ParserInv(parser'[d])
    BY <1>5, <1>6 DEF Inv, TypeOK
<1>8. parser' \in [Connections -> Parsers]
    BY <1>5, <1>6 DEF Inv, TypeOK, ParserInv
<1>9. /\ phase' \in [Connections -> Phases]
      /\ \A d \in Connections : d # c => phase'[d] = phase[d]
      /\ phase'[c] = "parsing" => read[c] > parsed[c] + 1
      /\ phase'[c] # "away"
    BY <1>1, <1>5 DEF Inv, TypeOK, AfterConsume, Goto, Phases
<1>10. /\ parsed' \in [Connections -> Nat]
       /\ \A d \in Connections : parsed'[d] = IF d = c THEN parsed[d] + 1 ELSE parsed[d]
    BY <1>1, <1>3 DEF Inv, TypeOK
<1>11. ASSUME NEW d \in Connections
       PROVE  /\ read'[d] <= Len(text'[d])
              /\ parsed'[d] <= read'[d]
              /\ phase'[d] = "parsing" => parsed'[d] < read'[d]
              /\ phase'[d] = "away" => read'[d] = 0
    <2>1. CASE d = c
        BY <1>1, <1>4, <1>9, <1>10, <2>1
    <2>2. CASE d # c
        BY <1>4, <1>9, <1>10, <2>2 DEF Inv, TypeOK
    <2> QED  BY <2>1, <2>2
<1>12. TypeOK'
    BY <1>4, <1>8, <1>9, <1>10, <1>11 DEF Inv, TypeOK
<1> QED  BY <1>7, <1>11, <1>12 DEF Inv

\* Every step keeps the invariant.
LEMMA NextKeeps ==
    ASSUME Inv, [Next]_vars
    PROVE  Inv'
<1> USE DEF Inv
<1>1. CASE \E c \in Connections : Connect(c)
    <2>1. PICK c \in Connections : Connect(c)
        BY <1>1
    <2>2. PICK t \in Seq(Chars) : text' = [text EXCEPT ![c] = t]
        BY <2>1, HttpServerAssumption DEF Connect
    <2>3. read[c] = 0 /\ parsed[c] \in Nat /\ parsed[c] <= read[c] /\ Len(t) \in Nat
        BY <2>1 DEF Connect, TypeOK
    <2>4. /\ phase' = [phase EXCEPT ![c] = "waiting"]
          /\ UNCHANGED <<running, accepting, deaf, read, parsed, parser, reply_, failed>>
        BY <2>1 DEF Connect, Goto
    <2>5. ASSUME NEW d \in Connections
          PROVE  /\ read'[d] <= Len(text'[d])
                 /\ parsed'[d] <= read'[d]
                 /\ phase'[d] = "parsing" => parsed'[d] < read'[d]
                 /\ phase'[d] = "away" => read'[d] = 0
        BY <2>2, <2>3, <2>4 DEF TypeOK
    <2> QED  BY <2>2, <2>4, <2>5 DEF TypeOK, Phases
<1>2. CASE \E c \in Connections : HandleAccept(c)
    BY <1>2 DEF HandleAccept, Goto, TypeOK, Phases
<1>3. CASE \E c \in Connections : HandleRead(c)
    <2>1. PICK c \in Connections : HandleRead(c)
        BY <1>3
    <2>2. PICK n \in read[c] + 1 .. Len(text[c]) : read' = [read EXCEPT ![c] = n]
        BY <2>1 DEF HandleRead
    <2>3. /\ read[c] \in Nat /\ parsed[c] \in Nat /\ parsed[c] <= read[c]
          /\ text[c] \in Seq(Chars) /\ Len(text[c]) \in Nat
        BY DEF TypeOK
    <2>4. n \in Nat /\ n <= Len(text[c]) /\ parsed[c] < n
        BY <2>2, <2>3
    <2> QED  BY <2>1, <2>2, <2>4 DEF HandleRead, Goto, TypeOK, Phases
<1>4. CASE \E c \in Connections : Consume(c)
    BY <1>4, ParseByteKeeps DEF Consume
<1>5. CASE \E c \in Connections : HandleRequest(c)
    BY <1>5 DEF HandleRequest, Goto, TypeOK, Phases
<1>6. CASE \E c \in Connections : HandleWrite(c)
    BY <1>6 DEF HandleWrite, Goto, TypeOK, Phases
<1>7. CASE \E c \in Connections : HandleError(c)
    BY <1>7 DEF HandleError, Goto, TypeOK, Phases
<1>8. CASE HandleAcceptError
    BY <1>8 DEF HandleAcceptError, connection, TypeOK
<1>9. CASE Stop
    BY <1>9 DEF Stop, connection, TypeOK
<1>10. CASE UNCHANGED vars
    BY <1>10 DEF vars, connection, TypeOK
<1> QED  BY <1>1, <1>2, <1>3, <1>4, <1>5, <1>6, <1>7, <1>8, <1>9, <1>10 DEF Next, Handlers

\* The first state is in order.
LEMMA InitKeeps == Init => Inv
<1> SUFFICES ASSUME Init  PROVE Inv
    OBVIOUS
<1>1. NewParser \in Parsers
    BY NewParserKeeps DEF ParserInv
<1>2. << >> \in Seq(Chars) /\ Len(<< >>) = 0
    OBVIOUS
<1>3. /\ running \in BOOLEAN /\ accepting \in BOOLEAN /\ deaf \in BOOLEAN
      /\ failed \in [Connections -> BOOLEAN]
      /\ phase \in [Connections -> Phases]
    BY DEF Init, Phases
<1>4. /\ text \in [Connections -> Seq(Chars)]
      /\ read \in [Connections -> Nat]
      /\ parsed \in [Connections -> Nat]
      /\ parser \in [Connections -> Parsers]
    BY <1>1, <1>2 DEF Init
<1>5. ASSUME NEW c \in Connections
      PROVE  /\ phase[c] = "away" /\ read[c] = 0 /\ parsed[c] = 0
             /\ Len(text[c]) = 0 /\ parser[c] = NewParser
    BY <1>2 DEF Init
<1> QED  BY <1>3, <1>4, <1>5, NewParserKeeps DEF Inv, TypeOK

\* The invariant holds in every reachable state.
LEMMA Invariance == Spec => []Inv
BY InitKeeps, NextKeeps, PTL DEF Spec

-----------------------------------------------------------------------------
(* The grammar on the places of a text, and what it makes of its beginnings. *)

\* The parts of a request line: the method ends before i, the uri before j, the
\* major version at the dot, the line before f.
MethodTo(s, i)   == 1 < i /\ AllIn(s, 1, i - 1, Token) /\ s[i] \in Space
UriTo(s, i, j)   == MethodTo(s, i) /\ i < j /\ AllIn(s, i + 1, j - 1, Visible) /\ s[j] \in Space
Protocol(s, j)   ==
    s[j + 1] = "H" /\ s[j + 2] = "T" /\ s[j + 3] = "T" /\ s[j + 4] = "P" /\ s[j + 5] = "/"
MajorTo(s, j, dot) == j + 6 < dot /\ AllIn(s, j + 6, dot - 1, Digits) /\ s[dot] = "."

\* A request line before f, cut into its parts.
RequestLineParts(s, i, j, dot, f) ==
    /\ UriTo(s, i, j) /\ Protocol(s, j) /\ MajorTo(s, j, dot)
    /\ dot + 1 < f /\ AllIn(s, dot + 1, f - 1, Digits)

\* The first line of s is a request line and ends at f.
FirstLine(s, f) ==
    /\ s[f] = "cr"
    /\ \E i, j, dot \in 1 .. f : RequestLineParts(s, i, j, dot, f)

\* A line from b on that ends before e.
HeaderParts(s, b, colon, e) ==
    /\ AllIn(s, b, colon - 1, Token)
    /\ s[colon] = ":" /\ s[colon + 1] \in Space
    /\ AllIn(s, colon + 2, e - 1, NonCtl)
HeaderAt(s, b, e) == \E colon \in b + 1 .. e - 2 : HeaderParts(s, b, colon, e)

ContinuationParts(s, b, i, e) == AllIn(s, b, i, Lws) /\ AllIn(s, i + 1, e - 1, NonCtl)
ContinuationAt(s, b, e) == \E i \in b .. e - 1 : ContinuationParts(s, b, i, e)

\* A line of headers from b that ends at e; the first one continues nothing.
LineAt(s, f, b, e) ==
    /\ s[e] = "cr"
    /\ \/ HeaderAt(s, b, e)
       \/ ContinuationAt(s, b, e) /\ b # f + 2

\* Whole lines up to b, the first of which ends at f.
LinesTo(s, f, b) ==
    /\ f + 2 <= b
    /\ FirstLine(s, f)
    /\ s[b - 2] = "cr"
    /\ \A k \in 1 .. b - 1 : s[k] = "cr" => k < b - 1 /\ s[k + 1] = "lf"
    /\ \A k \in f .. b - 3 : s[k] = "cr" => \E e \in k + 2 .. b - 2 : LineAt(s, f, k + 2, e)

\* A request whose first line ends at f.
WholeRequest(s, f) ==
    /\ LinesTo(s, f, Len(s) - 1)
    /\ s[Len(s) - 1] = "cr"
    /\ s[Len(s)] = "lf"

\* A set of places that is not empty has a first one.
LEMMA LeastEnd ==
    ASSUME NEW T \in SUBSET Nat, T # {}
    PROVE  \E m \in T : \A k \in T : m <= k
<1> DEFINE R == {ss \in Nat \X Nat : ss[1] < ss[2]}
<1>1. IsWellFoundedOn(R, Nat)
  <2>1. R = OpToRel(<, Nat)
    BY DEF OpToRel
  <2> QED BY <2>1, NatLessThanWellFounded
<1>2. PICK m \in T : \A k \in T : ~(<<k, m>> \in R)
  <2> HIDE DEF R
  <2> QED BY <1>1, WFMin
<1>3. ASSUME NEW k \in T PROVE m <= k
  <2>1. m \in Nat /\ k \in Nat /\ ~(<<k, m>> \in R)
    BY <1>2
  <2>2. ~(k < m)
    BY <2>1
  <2> QED BY <2>1, <2>2
<1> QED BY <1>3

\* How the sets of characters lie to one another.
LEMMA CharClasses ==
    /\ \A x \in Token : x \in Visible /\ x \notin Lws /\ x # ":"
    /\ \A x \in Visible : x \in NonCtl /\ x \notin Space /\ x \notin Lws
    /\ \A x \in NonCtl : x \in Chars /\ x \notin {"tab", "cr", "lf"} /\ (x \in Space \/ x \in Visible)
    /\ \A x \in Digits : x \in Chars /\ x \notin Space /\ x \notin {"cr", "lf", "."}
    /\ \A x \in Space : x \in Lws /\ x \notin {"cr", "lf", ":", "."}
    /\ \A x \in Lws : x \notin {"cr", "lf"}
    /\ Space \subseteq Chars
<1>1. \A x \in Space : x \in Lws /\ x \notin {"cr", "lf", ":", "."}
  BY Zenon DEF Space, Lws
<1>2. \A x \in Lws : x \notin {"cr", "lf"}
  BY <1>1 DEF Lws
<1>3. Space \subseteq Chars
  BY CharsAssumption, Zenon DEF Space
<1>4. \A x \in Token : x \in Visible /\ x \notin Lws /\ x # ":"
  BY DEF Token, Visible, NonCtl, Ctl, Tspecial, Lws
<1>5. \A x \in Visible : x \in NonCtl /\ x \notin Space /\ x \notin Lws
  BY DEF Visible, NonCtl, Ctl, Lws
<1>6. \A x \in NonCtl : x \in Chars /\ x \notin {"tab", "cr", "lf"} /\ (x \in Space \/ x \in Visible)
  BY DEF Visible, NonCtl, Ctl
<1>7. \A x \in Digits : x \in Chars /\ x \notin {"cr", "lf", "."}
  BY DEF Digits
<1>8. \A x \in Digits : x \notin Space
  BY Zenon DEF Digits, Space
<1> QED BY <1>1, <1>2, <1>3, <1>4, <1>5, <1>6, <1>7, <1>8

\* The part of a text before e, place by place.
LEMMA PartOfText ==
    ASSUME NEW s \in Seq(Chars), NEW b \in 1 .. Len(s), NEW e \in b .. Len(s)
    PROVE  /\ SubSeq(s, b, e - 1) \in Seq(Chars)
           /\ Len(SubSeq(s, b, e - 1)) = e - b
           /\ DOMAIN SubSeq(s, b, e - 1) = 1 .. e - b
           /\ \A k \in 1 .. e - b : SubSeq(s, b, e - 1)[k] = s[b + k - 1]
<1>1. PICK last \in 0 .. Len(s) : last = e - 1 /\ last - b + 1 = e - b
  <2>1. e - 1 \in 0 .. Len(s) /\ (e - 1) - b + 1 = e - b
    OBVIOUS
  <2> QED BY <2>1
<1>2. SubSeq(s, b, last) \in Seq(Chars)
  BY <1>1
<1>3. Len(SubSeq(s, b, last)) = e - b
  BY <1>1
<1>4. \A k \in 1 .. e - b : SubSeq(s, b, last)[k] = s[b + k - 1]
  BY <1>1
<1> QED BY <1>1, <1>2, <1>3, <1>4

\* A header on the places of the text it is in.
LEMMA HeaderInPlace ==
    ASSUME NEW s \in Seq(Chars), NEW b \in 1 .. Len(s), NEW e \in b .. Len(s)
    PROVE  IsHeader(SubSeq(s, b, e - 1)) <=> HeaderAt(s, b, e)
<1>1. PICK w : w = SubSeq(s, b, e - 1)
  OBVIOUS
<1>2. Len(w) = e - b /\ \A k \in 1 .. e - b : w[k] = s[b + k - 1]
  BY <1>1, PartOfText
<1>3. ASSUME IsHeader(w) PROVE HeaderAt(s, b, e)
  <2>1. PICK c \in 2 .. e - b - 1 : /\ AllIn(w, 1, c - 1, Token)
                                    /\ w[c] = ":" /\ w[c + 1] \in Space
                                    /\ AllIn(w, c + 2, e - b, NonCtl)
    BY <1>2, <1>3 DEF IsHeader
  <2>2. PICK colon \in b + 1 .. e - 2 : colon = b + c - 1
    OBVIOUS
  <2>3. ASSUME NEW k \in b .. e - 1 PROVE k - b + 1 \in 1 .. e - b /\ w[k - b + 1] = s[k]
    <3>1. PICK l \in 1 .. e - b : l = k - b + 1 /\ b + l - 1 = k
      OBVIOUS
    <3> QED BY <1>2, <3>1
  <2>4. ASSUME NEW k \in b .. colon - 1 PROVE s[k] \in Token
    <3>1. k \in b .. e - 1 /\ k - b + 1 \in 1 .. c - 1
      BY <2>2
    <3> QED BY <2>1, <2>3, <3>1 DEF AllIn
  <2>5. ASSUME NEW k \in colon + 2 .. e - 1 PROVE s[k] \in NonCtl
    <3>1. k \in b .. e - 1 /\ k - b + 1 \in c + 2 .. e - b
      BY <2>2
    <3> QED BY <2>1, <2>3, <3>1 DEF AllIn
  <2>6. s[colon] = ":" /\ s[colon + 1] \in Space
    <3>1. c \in 1 .. e - b /\ c + 1 \in 1 .. e - b /\ b + (c + 1) - 1 = colon + 1
      BY <2>2
    <3> QED BY <1>2, <2>1, <2>2, <3>1
  <2> QED BY <2>4, <2>5, <2>6 DEF HeaderAt, HeaderParts, AllIn
<1>4. ASSUME HeaderAt(s, b, e) PROVE IsHeader(w)
  <2>1. PICK colon \in b + 1 .. e - 2 : HeaderParts(s, b, colon, e)
    BY <1>4 DEF HeaderAt
  <2>2. PICK c \in 2 .. Len(w) - 1 : colon = b + c - 1
    <3>1. colon - b + 1 \in 2 .. Len(w) - 1 /\ colon = b + (colon - b + 1) - 1
      BY <1>2
    <3> QED BY <3>1
  <2>3. ASSUME NEW k \in 1 .. c - 1 PROVE w[k] \in Token
    <3>1. k \in 1 .. e - b /\ b + k - 1 \in b .. colon - 1
      BY <1>2, <2>2
    <3> QED BY <1>2, <2>1, <3>1 DEF HeaderParts, AllIn
  <2>4. ASSUME NEW k \in c + 2 .. Len(w) PROVE w[k] \in NonCtl
    <3>1. Len(w) = e - b
      BY <1>2
    <3>2. k \in Int /\ c + 2 <= k /\ k <= e - b
      BY <3>1
    <3>3. 1 <= k /\ b + k - 1 \in colon + 2 .. e - 1
      BY <2>2, <3>2
    <3> QED BY <1>2, <2>1, <3>2, <3>3 DEF HeaderParts, AllIn
  <2>5. w[c] = ":" /\ w[c + 1] \in Space
    <3>1. c \in 1 .. e - b /\ c + 1 \in 1 .. e - b /\ b + (c + 1) - 1 = colon + 1
      BY <1>2, <2>2
    <3> QED BY <1>2, <2>1, <2>2, <3>1 DEF HeaderParts
  <2> QED BY <2>3, <2>4, <2>5 DEF IsHeader, AllIn
<1> QED BY <1>1, <1>3, <1>4

\* So a line that goes on with a header.
LEMMA ContinuationInPlace ==
    ASSUME NEW s \in Seq(Chars), NEW b \in 1 .. Len(s), NEW e \in b .. Len(s)
    PROVE  IsContinuation(SubSeq(s, b, e - 1)) <=> ContinuationAt(s, b, e)
<1>1. PICK w : w = SubSeq(s, b, e - 1)
  OBVIOUS
<1>2. /\ Len(w) = e - b /\ DOMAIN w = 1 .. e - b
      /\ \A k \in 1 .. e - b : w[k] = s[b + k - 1]
  BY <1>1, PartOfText
<1>3. ASSUME IsContinuation(w) PROVE ContinuationAt(s, b, e)
  <2>1. PICK c \in 1 .. e - b : AllIn(w, 1, c, Lws) /\ AllIn(w, c + 1, e - b, NonCtl)
    BY <1>2, <1>3 DEF IsContinuation
  <2>2. PICK i \in b .. e - 1 : i = b + c - 1
    OBVIOUS
  <2>3. ASSUME NEW k \in b .. e - 1 PROVE k - b + 1 \in 1 .. e - b /\ w[k - b + 1] = s[k]
    <3>1. PICK l \in 1 .. e - b : l = k - b + 1 /\ b + l - 1 = k
      OBVIOUS
    <3> QED BY <1>2, <3>1
  <2>4. ASSUME NEW k \in b .. i PROVE s[k] \in Lws
    BY <2>1, <2>2, <2>3 DEF AllIn
  <2>5. ASSUME NEW k \in i + 1 .. e - 1 PROVE s[k] \in NonCtl
    <3>1. k \in b .. e - 1 /\ k - b + 1 \in c + 1 .. e - b
      BY <2>2
    <3> QED BY <2>1, <2>3, <3>1 DEF AllIn
  <2> QED BY <2>4, <2>5 DEF ContinuationAt, ContinuationParts, AllIn
<1>4. ASSUME ContinuationAt(s, b, e) PROVE IsContinuation(w)
  <2>1. PICK i \in b .. e - 1 : ContinuationParts(s, b, i, e)
    BY <1>4 DEF ContinuationAt
  <2>2. PICK c \in DOMAIN w : i = b + c - 1
    <3>1. i - b + 1 \in DOMAIN w /\ i = b + (i - b + 1) - 1
      BY <1>2
    <3> QED BY <3>1
  <2>3. ASSUME NEW k \in 1 .. c PROVE w[k] \in Lws
    <3>1. k \in 1 .. e - b /\ b + k - 1 \in b .. i
      BY <1>2, <2>2
    <3> QED BY <1>2, <2>1, <3>1 DEF ContinuationParts, AllIn
  <2>4. ASSUME NEW k \in c + 1 .. Len(w) PROVE w[k] \in NonCtl
    <3>1. k \in 1 .. e - b /\ b + k - 1 \in i + 1 .. e - 1
      BY <1>2, <2>2
    <3> QED BY <1>2, <2>1, <3>1 DEF ContinuationParts, AllIn
  <2> QED BY <2>3, <2>4 DEF IsContinuation, AllIn
<1> QED BY <1>1, <1>3, <1>4

\* The first line begins at 1: its places are those of the text.
LEMMA RequestLineInPlace ==
    ASSUME NEW s \in Seq(Chars), NEW f \in 1 .. Len(s)
    PROVE  IsRequestLine(SubSeq(s, 1, f - 1)) <=>
               \E i, j, dot \in 1 .. f : RequestLineParts(s, i, j, dot, f)
<1>1. PICK w \in Seq(Chars) : w = SubSeq(s, 1, f - 1)
  <2>1. 1 \in 1 .. Len(s)
    OBVIOUS
  <2> QED BY <2>1, PartOfText
<1>2. /\ Len(w) = f - 1 /\ DOMAIN w = 1 .. f - 1
      /\ \A k \in 1 .. f - 1 : w[k] = s[k]
  BY <1>1
<1>3. ASSUME NEW j \in 1 .. f - 1, j + 5 <= f - 1
      PROVE  SubSeq(w, j + 1, j + 5) = <<"H", "T", "T", "P", "/">> <=> Protocol(s, j)
  <2>1. PICK v \in Seq(Chars) : v = SubSeq(w, j + 1, j + 5)
    <3>1. SubSeq(w, j + 1, j + 5) \in Seq(Chars)
      BY <1>2, <1>3
    <3> QED BY <3>1
  <2>2. Len(v) = 5
    <3>1. (j + 5) - (j + 1) + 1 = 5
      OBVIOUS
    <3> QED BY <1>2, <1>3, <2>1, <3>1
  <2>3. ASSUME NEW k \in 1 .. 5 PROVE v[k] = s[j + k]
    <3>1. v[k] = w[(j + 1) + k - 1] /\ (j + 1) + k - 1 = j + k /\ j + k \in 1 .. f - 1
      BY <1>2, <1>3, <2>1, <2>2
    <3> QED BY <1>2, <3>1
  <2>4. PICK u \in Seq(Chars) : u = <<"H", "T", "T", "P", "/">>
    <3>1. PICK h \in Chars, t \in Chars, p \in Chars, slash \in Chars :
              h = "H" /\ t = "T" /\ p = "P" /\ slash = "/"
      BY CharsAssumption
    <3>2. <<h, t, t, p, slash>> \in Seq(Chars)
      OBVIOUS
    <3> QED BY <3>1, <3>2
  <2>5. Len(u) = 5 /\ u[1] = "H" /\ u[2] = "T" /\ u[3] = "T" /\ u[4] = "P" /\ u[5] = "/"
    BY <2>4
  <2>6. v = u <=> v[1] = "H" /\ v[2] = "T" /\ v[3] = "T" /\ v[4] = "P" /\ v[5] = "/"
    <3>1. ASSUME v[1] = u[1], v[2] = u[2], v[3] = u[3], v[4] = u[4], v[5] = u[5]
          PROVE  v = u
      <4>1. \A k \in 1 .. 5 : k = 1 \/ k = 2 \/ k = 3 \/ k = 4 \/ k = 5
        OBVIOUS
      <4>2. \A k \in 1 .. Len(v) : v[k] = u[k]
        BY <2>2, <3>1, <4>1
      <4> QED BY <2>2, <2>5, <4>2, SeqEqual
    <3> QED BY <2>5, <3>1
  <2>7. 1 \in 1 .. 5 /\ 2 \in 1 .. 5 /\ 3 \in 1 .. 5 /\ 4 \in 1 .. 5 /\ 5 \in 1 .. 5
    OBVIOUS
  <2>8. v[1] = s[j + 1] /\ v[2] = s[j + 2] /\ v[3] = s[j + 3] /\ v[4] = s[j + 4] /\ v[5] = s[j + 5]
    BY <2>3, <2>7
  <2> QED BY <2>1, <2>4, <2>6, <2>8 DEF Protocol
<1>4. ASSUME IsRequestLine(w) PROVE \E i, j, dot \in 1 .. f : RequestLineParts(s, i, j, dot, f)
  <2>1. PICK i \in 1 .. f - 1, j \in 1 .. f - 1 :
            /\ 1 < i /\ i < j
            /\ AllIn(w, 1, i - 1, Token) /\ w[i] \in Space
            /\ AllIn(w, i + 1, j - 1, Visible) /\ w[j] \in Space
            /\ j + 8 <= f - 1
            /\ SubSeq(w, j + 1, j + 5) = <<"H", "T", "T", "P", "/">>
            /\ \E dot \in j + 7 .. f - 2 : /\ w[dot] = "."
                                           /\ AllIn(w, j + 6, dot - 1, Digits)
                                           /\ AllIn(w, dot + 1, f - 1, Digits)
    <3>1. Len(w) - 1 = f - 2
      BY <1>2
    <3> QED BY <1>2, <1>4, <3>1 DEF IsRequestLine
  <2>2. PICK dot \in j + 7 .. f - 2 : /\ w[dot] = "."
                                      /\ AllIn(w, j + 6, dot - 1, Digits)
                                      /\ AllIn(w, dot + 1, f - 1, Digits)
    BY <2>1
  <2>3. i \in 1 .. f /\ j \in 1 .. f /\ dot \in 1 .. f
    OBVIOUS
  <2>10. /\ 1 < i /\ i < j
         /\ AllIn(w, 1, i - 1, Token) /\ w[i] \in Space
         /\ AllIn(w, i + 1, j - 1, Visible) /\ w[j] \in Space
         /\ j + 8 <= f - 1
    BY <2>1, Zenon
  <2>4. UriTo(s, i, j)
    <3>1. AllIn(s, 1, i - 1, Token)
      BY <1>2, <2>10 DEF AllIn
    <3>2. AllIn(s, i + 1, j - 1, Visible)
      BY <1>2, <2>10 DEF AllIn
    <3>3. s[i] \in Space /\ s[j] \in Space
      BY <1>2, <2>10
    <3> QED BY <2>10, <3>1, <3>2, <3>3 DEF UriTo, MethodTo
  <2>5. Protocol(s, j)
    <3>1. j + 5 <= f - 1
      BY <2>10
    <3>2. SubSeq(w, j + 1, j + 5) = <<"H", "T", "T", "P", "/">>
      BY <2>1
    <3> QED BY <1>3, <3>1, <3>2
  <2>6. MajorTo(s, j, dot) /\ dot + 1 < f /\ AllIn(s, dot + 1, f - 1, Digits)
    BY <1>2, <2>2 DEF MajorTo, AllIn
  <2> QED BY <2>3, <2>4, <2>5, <2>6 DEF RequestLineParts
<1>5. ASSUME NEW i \in 1 .. f, NEW j \in 1 .. f, NEW dot \in 1 .. f, RequestLineParts(s, i, j, dot, f)
      PROVE  IsRequestLine(w)
  <2>1. i < j /\ j + 6 < dot /\ dot + 1 < f
    BY <1>5 DEF RequestLineParts, UriTo, MajorTo
  <2>2. /\ i \in DOMAIN w /\ j \in DOMAIN w /\ j + 8 <= Len(w) /\ dot \in j + 7 .. Len(w) - 1
        /\ j \in 1 .. f - 1 /\ j + 5 <= f - 1
    BY <1>2, <2>1
  <2>3. /\ 1 < i /\ i < j
        /\ AllIn(w, 1, i - 1, Token) /\ w[i] \in Space
        /\ AllIn(w, i + 1, j - 1, Visible) /\ w[j] \in Space
    <3>1. UriTo(s, i, j)
      BY <1>5 DEF RequestLineParts
    <3>2. AllIn(w, 1, i - 1, Token)
      BY <1>2, <2>1, <3>1 DEF UriTo, MethodTo, AllIn
    <3>3. AllIn(w, i + 1, j - 1, Visible)
      BY <1>2, <2>1, <3>1 DEF UriTo, AllIn
    <3>4. w[i] \in Space /\ w[j] \in Space
      BY <1>2, <2>1, <3>1 DEF UriTo, MethodTo
    <3> QED BY <2>1, <3>1, <3>2, <3>3, <3>4 DEF UriTo, MethodTo
  <2>4. SubSeq(w, j + 1, j + 5) = <<"H", "T", "T", "P", "/">>
    BY <1>3, <1>5, <2>2 DEF RequestLineParts
  <2>5. /\ w[dot] = "."
        /\ AllIn(w, j + 6, dot - 1, Digits)
        /\ AllIn(w, dot + 1, Len(w), Digits)
    BY <1>2, <1>5, <2>1 DEF RequestLineParts, MajorTo, AllIn
  <2> QED BY <2>2, <2>3, <2>4, <2>5 DEF IsRequestLine
<1> QED BY <1>1, <1>4, <1>5

\* A whole line holds no end of a line.
LEMMA LinesAreLines ==
    ASSUME NEW s
    PROVE  /\ \A f \in Nat : FirstLine(s, f) =>
                 /\ f >= 9 /\ s[f] = "cr" /\ \A k \in 1 .. f - 1 : s[k] \notin {"cr", "lf"}
           /\ \A f \in Nat, b \in Nat, e \in Nat : LineAt(s, f, b, e) =>
                 /\ b < e /\ s[e] = "cr" /\ \A k \in b .. e - 1 : s[k] \notin {"cr", "lf"}
<1>1. ASSUME NEW f \in Nat, FirstLine(s, f)
      PROVE  f >= 9 /\ s[f] = "cr" /\ \A k \in 1 .. f - 1 : s[k] \notin {"cr", "lf"}
  <2>1. PICK i \in 1 .. f, j \in 1 .. f, dot \in 1 .. f : RequestLineParts(s, i, j, dot, f)
    BY <1>1 DEF FirstLine
  <2>2. /\ 1 < i /\ i < j /\ j + 6 < dot /\ dot + 1 < f
        /\ AllIn(s, 1, i - 1, Token) /\ s[i] \in Space
        /\ AllIn(s, i + 1, j - 1, Visible) /\ s[j] \in Space
        /\ s[j + 1] = "H" /\ s[j + 2] = "T" /\ s[j + 3] = "T" /\ s[j + 4] = "P" /\ s[j + 5] = "/"
        /\ AllIn(s, j + 6, dot - 1, Digits) /\ s[dot] = "."
        /\ AllIn(s, dot + 1, f - 1, Digits)
    BY <2>1 DEF RequestLineParts, UriTo, MethodTo, Protocol, MajorTo
  <2>3. ASSUME NEW k \in 1 .. f - 1 PROVE s[k] \notin {"cr", "lf"}
    <3>1. CASE k < i
      BY <2>2, <3>1, CharClasses DEF AllIn
    <3>2. CASE k = i \/ k = j
      BY <2>2, <3>2, CharClasses
    <3>3. CASE i < k /\ k < j
      BY <2>2, <3>3, CharClasses DEF AllIn
    <3>4. CASE j < k /\ k < j + 6
      <4>1. k = j + 1 \/ k = j + 2 \/ k = j + 3 \/ k = j + 4 \/ k = j + 5
        BY <3>4
      <4> QED BY <2>2, <4>1
    <3>5. CASE j + 6 <= k /\ k < dot
      BY <2>2, <3>5, CharClasses DEF AllIn
    <3>6. CASE k = dot
      BY <2>2, <3>6
    <3>7. CASE dot < k
      BY <2>2, <3>7, CharClasses DEF AllIn
    <3> QED BY <3>1, <3>2, <3>3, <3>4, <3>5, <3>6, <3>7
  <2>4. f >= 9
    BY <2>2
  <2> QED BY <1>1, <2>3, <2>4 DEF FirstLine
<1>2. ASSUME NEW f \in Nat, NEW b \in Nat, NEW e \in Nat, LineAt(s, f, b, e)
      PROVE  b < e /\ s[e] = "cr" /\ \A k \in b .. e - 1 : s[k] \notin {"cr", "lf"}
  <2>1. CASE HeaderAt(s, b, e)
    <3>1. PICK colon \in b + 1 .. e - 2 : HeaderParts(s, b, colon, e)
      BY <2>1 DEF HeaderAt
    <3>2. ASSUME NEW k \in b .. e - 1 PROVE s[k] \notin {"cr", "lf"}
      <4>1. CASE k < colon
        BY <3>1, <4>1, CharClasses DEF HeaderParts, AllIn
      <4>2. CASE k = colon \/ k = colon + 1
        BY <3>1, <4>2, CharClasses DEF HeaderParts
      <4>3. CASE colon + 1 < k
        BY <3>1, <4>3, CharClasses DEF HeaderParts, AllIn
      <4> QED BY <4>1, <4>2, <4>3
    <3> QED BY <1>2, <3>2 DEF LineAt
  <2>2. CASE ContinuationAt(s, b, e)
    <3>1. PICK i \in b .. e - 1 : ContinuationParts(s, b, i, e)
      BY <2>2 DEF ContinuationAt
    <3>2. ASSUME NEW k \in b .. e - 1 PROVE s[k] \notin {"cr", "lf"}
      BY <3>1, CharClasses DEF ContinuationParts, AllIn
    <3> QED BY <1>2, <3>2 DEF LineAt
  <2> QED BY <1>2, <2>1, <2>2 DEF LineAt
<1> QED BY <1>1, <1>2

\* Two texts that begin alike.
Alike(s, t, m) == \A k \in 1 .. m : t[k] = s[k]

\* The ends of lines.
EndsOf(s) == {k \in DOMAIN s : s[k] = "cr"}
EndFrom(s, b) == CHOOSE k \in EndsOf(s) : k >= b /\ \A e \in EndsOf(s) : e >= b => k <= e
StartsOf(s) == {1} \cup {k + 2 : k \in EndsOf(s)}

\* IsRequest, with its local names as operators.
LEMMA RequestByLines ==
    ASSUME NEW s
    PROVE  IsRequest(s) <=>
               /\ Len(s) >= 4
               /\ s[Len(s) - 1] = "cr"
               /\ \A k \in EndsOf(s) : s[k + 1] = "lf"
               /\ IsRequestLine(SubSeq(s, 1, EndFrom(s, 1) - 1))
               /\ \A b \in StartsOf(s) \ {1, Len(s) - 1, Len(s) + 1} :
                     \/ IsHeader(SubSeq(s, b, EndFrom(s, b) - 1))
                     \/ /\ IsContinuation(SubSeq(s, b, EndFrom(s, b) - 1))
                        /\ b # Len(SubSeq(s, 1, EndFrom(s, 1) - 1)) + 3
               /\ Len(s) - 1 \in StartsOf(s)
BY Zenon DEF IsRequest, EndsOf, EndFrom, StartsOf

\* EndFrom is the first end of a line from b on.
LEMMA EndIsFirst ==
    ASSUME NEW s \in Seq(Chars), NEW b \in Nat
    PROVE  /\ \A k \in EndsOf(s) : k >= b /\ (\A l \in b .. k - 1 : l \notin EndsOf(s)) => EndFrom(s, b) = k
           /\ (\E k \in EndsOf(s) : k >= b) =>
                 /\ EndFrom(s, b) \in EndsOf(s) /\ EndFrom(s, b) >= b
                 /\ \A e \in EndsOf(s) : e >= b => EndFrom(s, b) <= e
<1>1. PICK ends \in SUBSET Nat : ends = EndsOf(s)
  <2>1. \A k \in EndsOf(s) : k \in Nat
    BY DEF EndsOf
  <2> QED BY <2>1
<1>2. ASSUME NEW k \in ends, k >= b, \A l \in b .. k - 1 : l \notin ends
      PROVE  EndFrom(s, b) = k
  <2>1. \A e \in ends : e >= b => k <= e
    BY <1>2
  <2>2. \A m \in ends : m >= b /\ (\A e \in ends : e >= b => m <= e) => m = k
    BY <1>2, <2>1
  <2> QED BY <1>1, <1>2, <2>1, <2>2 DEF EndFrom
<1>3. ASSUME NEW k \in ends, k >= b
      PROVE  \E m \in ends : m >= b /\ \A e \in ends : e >= b => m <= e
  <2>1. PICK later \in SUBSET Nat : later = {e \in ends : e >= b}
    OBVIOUS
  <2>2. PICK m \in later : \A e \in later : m <= e
    BY <1>3, <2>1, LeastEnd
  <2> QED BY <2>1, <2>2
<1>4. (\E k \in ends : k >= b) =>
          /\ EndFrom(s, b) \in ends /\ EndFrom(s, b) >= b
          /\ \A e \in ends : e >= b => EndFrom(s, b) <= e
  BY <1>1, <1>3 DEF EndFrom
<1> QED BY <1>1, <1>2, <1>4

\* Whole lines and an empty line are a request of the grammar ...
LEMMA WholeIsRequest ==
    ASSUME NEW s \in Seq(Chars), NEW f \in Nat, WholeRequest(s, f)
    PROVE  IsRequest(s)
<1>1. PICK n \in Nat : n = Len(s) /\ DOMAIN s = 1 .. n
  OBVIOUS
<1>2. LinesTo(s, f, n - 1) /\ s[n - 1] = "cr" /\ s[n] = "lf"
  BY <1>1 DEF WholeRequest
<1>3. f + 2 <= n - 1 /\ FirstLine(s, f) /\ s[n - 3] = "cr"
  BY <1>2 DEF LinesTo
<1>4. f >= 9 /\ s[f] = "cr" /\ \A k \in 1 .. f - 1 : s[k] # "cr"
  BY <1>3, LinesAreLines
<1>5. \A k \in EndsOf(s) : k \in f .. n - 1 /\ k # n - 2 /\ s[k] = "cr" /\ s[k + 1] = "lf"
  <2> SUFFICES ASSUME NEW k \in EndsOf(s)
               PROVE k \in f .. n - 1 /\ k # n - 2 /\ s[k] = "cr" /\ s[k + 1] = "lf"
    OBVIOUS
  <2>1. k \in 1 .. n /\ s[k] = "cr"
    BY <1>1 DEF EndsOf
  <2>2. k # n
    BY <1>2, <2>1
  <2>3. k \in 1 .. n - 2 => k < n - 2 /\ s[k + 1] = "lf"
    BY <1>2, <2>1 DEF LinesTo
  <2>4. k = n - 1 => s[k + 1] = "lf"
    BY <1>1, <1>2
  <2>5. f <= k
    BY <1>4, <2>1
  <2> QED BY <1>3, <1>4, <2>1, <2>2, <2>3, <2>4, <2>5
<1>6. f \in EndsOf(s) /\ n - 3 \in EndsOf(s)
  BY <1>1, <1>3, <1>4 DEF EndsOf
<1>7. EndFrom(s, 1) = f
  <2>1. \A l \in 1 .. f - 1 : l \notin EndsOf(s)
    BY <1>4 DEF EndsOf
  <2>2. f >= 1
    BY <1>4
  <2> QED BY <1>6, <2>1, <2>2, EndIsFirst
<1>8. IsRequestLine(SubSeq(s, 1, f - 1)) /\ Len(SubSeq(s, 1, f - 1)) + 3 = f + 2
  <2>1. f \in 1 .. Len(s)
    BY <1>1, <1>3, <1>4
  <2>2. \E i, j, dot \in 1 .. f : RequestLineParts(s, i, j, dot, f)
    BY <1>3 DEF FirstLine
  <2>3. IsRequestLine(SubSeq(s, 1, f - 1))
    BY <2>1, <2>2, RequestLineInPlace
  <2>4. Len(SubSeq(s, 1, f - 1)) = f - 1
    BY <2>1
  <2> QED BY <2>3, <2>4
<1>9. ASSUME NEW b \in StartsOf(s) \ {1, n - 1, n + 1}
      PROVE  \/ IsHeader(SubSeq(s, b, EndFrom(s, b) - 1))
             \/ IsContinuation(SubSeq(s, b, EndFrom(s, b) - 1)) /\ b # f + 2
  <2>1. PICK k \in EndsOf(s) : b = k + 2
    BY DEF StartsOf
  <2>2. k \in f .. n - 4 /\ s[k] = "cr"
    BY <1>5, <2>1
  <2>3. PICK e \in k + 2 .. n - 3 : LineAt(s, f, k + 2, e)
    <3>1. k \in f .. (n - 1) - 3 /\ (n - 1) - 2 = n - 3
      BY <2>2
    <3> QED BY <1>2, <2>2, <3>1 DEF LinesTo
  <2>4. b \in Nat /\ e \in Nat /\ b \in 1 .. n /\ e \in b .. n
    BY <2>1, <2>2, <2>3
  <2>5. s[e] = "cr" /\ \A l \in b .. e - 1 : s[l] # "cr"
    BY <2>1, <2>3, <2>4, LinesAreLines
  <2>6. EndFrom(s, b) = e
    <3>1. e \in EndsOf(s) /\ e >= b /\ \A l \in b .. e - 1 : l \notin EndsOf(s)
      BY <1>1, <2>4, <2>5 DEF EndsOf
    <3> QED BY <2>4, <3>1, EndIsFirst
  <2>7. \/ HeaderAt(s, b, e)
        \/ ContinuationAt(s, b, e) /\ b # f + 2
    BY <2>1, <2>3 DEF LineAt
  <2> QED BY <1>1, <2>4, <2>6, <2>7, HeaderInPlace, ContinuationInPlace
<1>10. n - 1 \in StartsOf(s)
  <2>1. n - 1 = (n - 3) + 2
    OBVIOUS
  <2> QED BY <1>6, <2>1 DEF StartsOf
<1>11. n >= 4
  BY <1>3, <1>4
<1> QED BY <1>1, <1>2, <1>5, <1>7, <1>8, <1>9, <1>10, <1>11, RequestByLines

\* ... and there is no other.
LEMMA RequestIsWhole ==
    ASSUME NEW s \in Seq(Chars), IsRequest(s)
    PROVE  \E f \in Nat : WholeRequest(s, f)
<1>1. PICK n \in Nat : n = Len(s) /\ DOMAIN s = 1 .. n
  OBVIOUS
<1>2. /\ n >= 4
      /\ s[n - 1] = "cr"
      /\ \A k \in EndsOf(s) : s[k + 1] = "lf"
      /\ IsRequestLine(SubSeq(s, 1, EndFrom(s, 1) - 1))
      /\ \A b \in StartsOf(s) \ {1, n - 1, n + 1} :
            \/ IsHeader(SubSeq(s, b, EndFrom(s, b) - 1))
            \/ /\ IsContinuation(SubSeq(s, b, EndFrom(s, b) - 1))
               /\ b # Len(SubSeq(s, 1, EndFrom(s, 1) - 1)) + 3
      /\ n - 1 \in StartsOf(s)
  BY <1>1, RequestByLines
<1>3. n - 1 \in EndsOf(s) /\ n - 3 \in EndsOf(s)
  <2>1. n - 1 \in EndsOf(s)
    BY <1>1, <1>2 DEF EndsOf
  <2>2. PICK k \in EndsOf(s) : n - 1 = k + 2
    BY <1>2 DEF StartsOf
  <2>3. k = n - 3
    BY <1>1, <2>2 DEF EndsOf
  <2> QED BY <2>1, <2>2, <2>3
<1>4. \A k \in EndsOf(s) : k \in 1 .. n /\ s[k] = "cr" /\ s[k + 1] = "lf"
  BY <1>1, <1>2 DEF EndsOf
<1>5. s[n] = "lf"
  <2>1. (n - 1) + 1 = n
    OBVIOUS
  <2> QED BY <1>3, <1>4, <2>1
<1>6. PICK f \in EndsOf(s) : f = EndFrom(s, 1) /\ \A e \in EndsOf(s) : f <= e
  <2>1. n - 3 >= 1 /\ \A k \in EndsOf(s) : k >= 1
    BY <1>2, <1>3, <1>4
  <2> QED BY <1>3, <2>1, EndIsFirst
<1>7. f \in 1 .. n - 3 /\ s[f] = "cr"
  BY <1>3, <1>4, <1>6
<1>8. Len(SubSeq(s, 1, f - 1)) + 3 = f + 2
  <2>1. Len(SubSeq(s, 1, f - 1)) = f - 1
    BY <1>1, <1>7
  <2> QED BY <1>7, <2>1
<1>9. FirstLine(s, f)
  <2>1. f \in 1 .. Len(s)
    BY <1>1, <1>7
  <2>2. \E i, j, dot \in 1 .. f : RequestLineParts(s, i, j, dot, f)
    BY <1>2, <1>6, <2>1, RequestLineInPlace
  <2> QED BY <1>7, <2>2 DEF FirstLine
<1>10. ASSUME NEW k \in 1 .. n - 2, s[k] = "cr" PROVE k < n - 2 /\ s[k + 1] = "lf"
  <2>1. k \in EndsOf(s)
    BY <1>1, <1>10 DEF EndsOf
  <2>2. s[k + 1] = "lf"
    BY <1>4, <2>1
  <2> QED BY <1>2, <2>2
<1>11. ASSUME NEW k \in f .. n - 4, s[k] = "cr"
       PROVE \E e \in k + 2 .. n - 3 : LineAt(s, f, k + 2, e)
  <2>1. k \in EndsOf(s) /\ k \in 1 .. n
    BY <1>1, <1>7, <1>11 DEF EndsOf
  <2>2. k + 2 <= n - 3
    <3>1. k # n - 4
      <4>1. k = n - 4 => k + 1 = n - 3
        OBVIOUS
      <4> QED BY <1>3, <1>4, <2>1, <4>1
    <3> QED BY <3>1
  <2>3. PICK b \in 1 .. n - 3 : b = k + 2
    BY <2>1, <2>2
  <2>4. b \in StartsOf(s) \ {1, n - 1, n + 1}
    BY <2>1, <2>3 DEF StartsOf
  <2>5. PICK e \in EndsOf(s) : e = EndFrom(s, b) /\ e >= b /\ e <= n - 3
    BY <1>3, <2>3, EndIsFirst
  <2>6. \/ IsHeader(SubSeq(s, b, e - 1))
        \/ IsContinuation(SubSeq(s, b, e - 1)) /\ b # f + 2
    BY <1>2, <1>6, <1>8, <2>4, <2>5
  <2>7. b \in 1 .. Len(s) /\ e \in b .. Len(s) /\ s[e] = "cr"
    BY <1>1, <1>4, <2>5
  <2>8. LineAt(s, f, b, e)
    BY <2>6, <2>7, HeaderInPlace, ContinuationInPlace DEF LineAt
  <2> QED BY <2>3, <2>5, <2>7, <2>8
<1>12. LinesTo(s, f, n - 1)
  <2>1. f + 2 <= n - 1 /\ (n - 1) - 2 = n - 3 /\ (n - 1) - 1 = n - 2 /\ (n - 1) - 3 = n - 4
    BY <1>7
  <2>2. s[n - 3] = "cr"
    BY <1>3, <1>4
  <2> QED BY <1>9, <1>10, <1>11, <2>1, <2>2 DEF LinesTo
<1> QED BY <1>1, <1>2, <1>5, <1>7, <1>12 DEF WholeRequest

\* Whole lines: the first, ...
LEMMA LinesBegin ==
    ASSUME NEW s, NEW f \in Nat, FirstLine(s, f), s[f + 1] = "lf"
    PROVE  LinesTo(s, f, f + 2)
<1>1. f >= 9 /\ s[f] = "cr" /\ \A k \in 1 .. f - 1 : s[k] \notin {"cr", "lf"}
  BY LinesAreLines
<1>2. PICK b \in Nat : b = f + 2 /\ b - 2 = f /\ b - 1 = f + 1 /\ b - 3 = f - 1
  <2>1. f + 2 \in Nat /\ (f + 2) - 2 = f /\ (f + 2) - 1 = f + 1 /\ (f + 2) - 3 = f - 1
    OBVIOUS
  <2> QED BY <2>1
<1>3. \A k \in 1 .. f + 1 : s[k] = "cr" => k < f + 1 /\ s[k + 1] = "lf"
  <2> SUFFICES ASSUME NEW k \in 1 .. f + 1, s[k] = "cr" PROVE k < f + 1 /\ s[k + 1] = "lf"
    OBVIOUS
  <2>1. k # f + 1
    OBVIOUS
  <2>2. k \notin 1 .. f - 1
    BY <1>1
  <2> QED BY <2>1, <2>2
<1>4. \A k \in f .. f - 1 : s[k] = "cr" => \E e \in k + 2 .. b - 2 : LineAt(s, f, k + 2, e)
  OBVIOUS
<1> QED BY <1>1, <1>2, <1>3, <1>4 DEF LinesTo

\* ... and one more.
LEMMA LinesGrow ==
    ASSUME NEW s, NEW f \in Nat, NEW b \in Nat, NEW e \in Nat,
           LinesTo(s, f, b), LineAt(s, f, b, e), s[e + 1] = "lf"
    PROVE  LinesTo(s, f, e + 2)
<1>1. b < e /\ s[e] = "cr" /\ \A k \in b .. e - 1 : s[k] \notin {"cr", "lf"}
  BY LinesAreLines
<1>2. PICK d \in Nat : d = e + 2 /\ d - 2 = e /\ d - 1 = e + 1 /\ d - 3 = e - 1
  <2>1. e + 2 \in Nat /\ (e + 2) - 2 = e /\ (e + 2) - 1 = e + 1 /\ (e + 2) - 3 = e - 1
    OBVIOUS
  <2> QED BY <2>1
<1>3. f + 2 <= b /\ FirstLine(s, f) /\ s[b - 2] = "cr"
  BY DEF LinesTo
<1>4. ASSUME NEW k \in 1 .. e + 1, s[k] = "cr" PROVE k < e + 1 /\ s[k + 1] = "lf"
  <2>1. CASE k <= b - 1
    <3>1. k \in 1 .. b - 1
      BY <2>1
    <3> QED BY <1>1, <1>4, <3>1 DEF LinesTo
  <2>2. k \notin b .. e - 1 /\ k # e + 1
    BY <1>1, <1>4
  <2> QED BY <1>3, <2>1, <2>2
<1>5. ASSUME NEW k \in f .. e - 1, s[k] = "cr" PROVE \E c \in k + 2 .. e : LineAt(s, f, k + 2, c)
  <2>1. CASE k <= b - 3
    <3>1. k \in f .. b - 3
      BY <2>1
    <3>2. PICK c \in k + 2 .. b - 2 : LineAt(s, f, k + 2, c)
      BY <1>5, <3>1 DEF LinesTo
    <3>3. c \in k + 2 .. e
      BY <1>1
    <3> QED BY <3>2, <3>3
  <2>2. CASE k = b - 2
    <3>1. k + 2 = b /\ e \in k + 2 .. e
      BY <1>1, <2>2
    <3> QED BY <3>1
  <2>3. k # b - 1
    <3>1. k \in 1 .. b - 1 /\ (k = b - 1 => FALSE)
      <4>1. ASSUME k = b - 1 PROVE FALSE
        <5>1. FirstLine(s, f) /\ f >= 9
          BY <1>3, LinesAreLines
        <5>2. k \in 1 .. b - 1
          BY <1>3, <4>1, <5>1
        <5>3. k < b - 1
          BY <1>5, <5>2 DEF LinesTo
        <5> QED BY <4>1, <5>3
      <4>2. k \notin b .. e - 1
        BY <1>1, <1>5
      <4>3. FirstLine(s, f) /\ f >= 9
        BY <1>3, LinesAreLines
      <4> QED BY <4>1, <4>2, <4>3
    <3> QED BY <3>1
  <2>4. k \notin b .. e - 1
    BY <1>1, <1>5
  <2> QED BY <2>1, <2>2, <2>3, <2>4
<1> QED BY <1>1, <1>2, <1>3, <1>4, <1>5 DEF LinesTo

\* The moves of the automaton on the first line and on the lines after it.
FirstLineMove(q, x, r) ==
    \/ q = "method_start" /\ x \in Token /\ r = "method"
    \/ q = "method" /\ x \in Space /\ r = "uri"
    \/ q = "method" /\ x \in Token /\ r = "method"
    \/ q = "uri_start" /\ x \in NonCtl /\ r = "uri"
    \/ q = "uri" /\ x \in Space /\ r = "http_version_h"
    \/ q = "uri" /\ x \in Visible /\ r = "uri"
    \/ q = "http_version_h" /\ x = "H" /\ r = "http_version_t_1"
    \/ q = "http_version_t_1" /\ x = "T" /\ r = "http_version_t_2"
    \/ q = "http_version_t_2" /\ x = "T" /\ r = "http_version_p"
    \/ q = "http_version_p" /\ x = "P" /\ r = "http_version_slash"
    \/ q = "http_version_slash" /\ x = "/" /\ r = "http_version_major_start"
    \/ q = "http_version_major_start" /\ x \in Digits /\ r = "http_version_major"
    \/ q = "http_version_major" /\ x = "." /\ r = "http_version_minor_start"
    \/ q = "http_version_major" /\ x \in Digits /\ r = "http_version_major"
    \/ q = "http_version_minor_start" /\ x \in Digits /\ r = "http_version_minor"
    \/ q = "http_version_minor" /\ x = "cr" /\ r = "expecting_newline_1"
    \/ q = "http_version_minor" /\ x \in Digits /\ r = "http_version_minor"

\* ... in the lines of headers, ...
LineMove(q, headers, x, r) ==
    \/ q = "header_line_start" /\ x = "cr" /\ r = "expecting_newline_3"
    \/ q = "header_line_start" /\ x \in Lws /\ r = "header_lws" /\ headers > 0
    \/ q = "header_line_start" /\ x \in Token /\ r = "header_name"
    \/ q = "header_lws" /\ x = "cr" /\ r = "expecting_newline_2"
    \/ q = "header_lws" /\ x \in Lws /\ r = "header_lws"
    \/ q = "header_lws" /\ x \in Visible /\ r = "header_value"
    \/ q = "header_name" /\ x = ":" /\ r = "space_before_header_value"
    \/ q = "header_name" /\ x \in Token /\ r = "header_name"
    \/ q = "space_before_header_value" /\ x \in Space /\ r = "header_value"
    \/ q = "header_value" /\ x = "cr" /\ r = "expecting_newline_2"
    \/ q = "header_value" /\ x \in NonCtl /\ r = "header_value"
    \/ q = "expecting_newline_2" /\ x = "lf" /\ r = "header_line_start"

\* ... and at their ends.
NewlineMove(q, x, r) ==
    \/ q = "expecting_newline_1" /\ x = "lf" /\ r = "header_line_start"
    \/ q = "expecting_newline_3" /\ x = "lf" /\ r = "complete"

\* Moves, case by case.
LEMMA MoveCases ==
    ASSUME NEW p, NEW x, NEW next
    PROVE  next \in Moves(p, x) <=>
               \/ FirstLineMove(p.state, x, next)
               \/ LineMove(p.state, p.headers, x, next)
               \/ NewlineMove(p.state, x, next)
<1>1. next \in Moves(p, x) <=>
          \E m \in Transitions : /\ m[1] = p.state /\ x \in m[2] /\ m[3] = next
                                 /\ m[1] = "header_line_start" /\ m[3] = "header_lws" => p.headers > 0
  BY DEF Moves
<1>2. ASSUME NEW m \in Transitions, m[1] = p.state, x \in m[2], m[3] = next,
             m[1] = "header_line_start" /\ m[3] = "header_lws" => p.headers > 0
      PROVE  \/ FirstLineMove(p.state, x, next)
             \/ LineMove(p.state, p.headers, x, next)
             \/ NewlineMove(p.state, x, next)
  BY <1>2 DEF Transitions, FirstLineMove, LineMove, NewlineMove
<1>3. ASSUME FirstLineMove(p.state, x, next)
      PROVE  \E m \in Transitions : /\ m[1] = p.state /\ x \in m[2] /\ m[3] = next
                                    /\ m[1] = "header_line_start" /\ m[3] = "header_lws" => p.headers > 0
  BY <1>3 DEF Transitions, FirstLineMove
<1>4. ASSUME LineMove(p.state, p.headers, x, next)
      PROVE  \E m \in Transitions : /\ m[1] = p.state /\ x \in m[2] /\ m[3] = next
                                    /\ m[1] = "header_line_start" /\ m[3] = "header_lws" => p.headers > 0
  BY <1>4 DEF Transitions, LineMove
<1>5. ASSUME NewlineMove(p.state, x, next)
      PROVE  \E m \in Transitions : /\ m[1] = p.state /\ x \in m[2] /\ m[3] = next
                                    /\ m[1] = "header_line_start" /\ m[3] = "header_lws" => p.headers > 0
  BY <1>5 DEF Transitions, NewlineMove
<1> QED BY <1>1, <1>2, <1>3, <1>4, <1>5

-----------------------------------------------------------------------------
(* What a state of the automaton says of the n characters that led to it.  *)

\* Between the uri, which ends before j, and the dot.
AfterUri(t, n, j, q) ==
    \/ q = "http_version_h" /\ n = j
    \/ q = "http_version_t_1" /\ n = j + 1 /\ t[j + 1] = "H"
    \/ q = "http_version_t_2" /\ n = j + 2 /\ t[j + 1] = "H" /\ t[j + 2] = "T"
    \/ /\ q = "http_version_p" /\ n = j + 3
       /\ t[j + 1] = "H" /\ t[j + 2] = "T" /\ t[j + 3] = "T"
    \/ /\ q = "http_version_slash" /\ n = j + 4
       /\ t[j + 1] = "H" /\ t[j + 2] = "T" /\ t[j + 3] = "T" /\ t[j + 4] = "P"
    \/ q = "http_version_major_start" /\ n = j + 5 /\ Protocol(t, j)
    \/ q = "http_version_major" /\ n >= j + 6 /\ Protocol(t, j) /\ AllIn(t, j + 6, n, Digits)

\* After the dot.
InMinor(t, n, dot, q) ==
    \/ q = "http_version_minor_start" /\ n = dot
    \/ q = "http_version_minor" /\ n > dot /\ AllIn(t, dot + 1, n, Digits)

\* In the first line.
InFirstLine(t, n, q) ==
    \/ q = "method_start" /\ n = 0
    \/ q = "method" /\ n >= 1 /\ AllIn(t, 1, n, Token)
    \/ q = "uri" /\ \E i \in 1 .. n : MethodTo(t, i) /\ AllIn(t, i + 1, n, Visible)
    \/ \E i, j \in 1 .. n : UriTo(t, i, j) /\ AfterUri(t, n, j, q)
    \/ \E i, j, dot \in 1 .. n :
          UriTo(t, i, j) /\ Protocol(t, j) /\ MajorTo(t, j, dot) /\ InMinor(t, n, dot, q)
    \/ q = "expecting_newline_1" /\ FirstLine(t, n)

\* In a line of headers that begins at b, or at the end that stands there.
InLine(t, n, f, b, q) ==
    \/ q = "header_line_start" /\ n = b - 1
    \/ q = "header_name" /\ b <= n /\ AllIn(t, b, n, Token)
    \/ q = "space_before_header_value" /\ b < n /\ AllIn(t, b, n - 1, Token) /\ t[n] = ":"
    \/ q = "header_lws" /\ b <= n /\ AllIn(t, b, n, Lws) /\ b # f + 2
    \/ /\ q = "header_value"
       /\ \/ \E colon \in b + 1 .. n - 1 :
                /\ AllIn(t, b, colon - 1, Token)
                /\ t[colon] = ":" /\ t[colon + 1] \in Space
                /\ AllIn(t, colon + 2, n, NonCtl)
          \/ b # f + 2 /\ \E i \in b .. n : AllIn(t, b, i, Lws) /\ AllIn(t, i + 1, n, NonCtl)
    \/ q = "expecting_newline_2" /\ b < n /\ LineAt(t, f, b, n)
    \/ q = "expecting_newline_3" /\ n = b /\ t[n] = "cr"

\* What the parser read: a beginning of a first line, whole lines and a
\* beginning of one, or a request.  Without a header no line continues another.
Reads(t, n, p) ==
    \/ InFirstLine(t, n, p.state) /\ p.headers = 0
    \/ \E f, b \in 1 .. n + 1 :
          /\ LinesTo(t, f, b)
          /\ InLine(t, n, f, b, p.state)
          /\ p.state = "header_line_start" /\ b = f + 2 => p.headers = 0
    \/ /\ p.state = "complete" /\ t[n - 1] = "cr" /\ t[n] = "lf"
       /\ \E f \in Nat : LinesTo(t, f, n - 1)

\* One more character of the same set.
LEMMA AllInGrows ==
    ASSUME NEW t, NEW b \in Nat, NEW n \in Nat, NEW S, AllIn(t, b, n, S), t[n + 1] \in S
    PROVE  AllIn(t, b, n + 1, S)
<1> SUFFICES ASSUME NEW k \in b .. n + 1 PROVE t[k] \in S
  BY DEF AllIn
<1>1. k = n + 1 \/ k \in b .. n
  OBVIOUS
<1> QED BY <1>1 DEF AllIn

\* The steps of the automaton keep what is said of the protocol and the version, ...
LEMMA AfterUriStep ==
    ASSUME NEW t, NEW n \in Nat, NEW j \in 1 .. n, NEW q, NEW r,
           AfterUri(t, n, j, q), FirstLineMove(q, t[n + 1], r)
    PROVE  \/ AfterUri(t, n + 1, j, r)
           \/ MajorTo(t, j, n + 1) /\ Protocol(t, j) /\ r = "http_version_minor_start"
<1>1. PICK x : x = t[n + 1]
  OBVIOUS
<1>2. CASE q \in {"http_version_h", "http_version_t_1", "http_version_t_2", "http_version_p"}
  BY <1>1, <1>2 DEF AfterUri, FirstLineMove
<1>3. CASE q = "http_version_slash"
  BY <1>1, <1>3 DEF AfterUri, FirstLineMove, Protocol
<1>4. CASE q = "http_version_major_start"
  <2>1. n = j + 5 /\ Protocol(t, j) /\ t[n + 1] \in Digits /\ r = "http_version_major"
    BY <1>4 DEF AfterUri, FirstLineMove
  <2>2. AllIn(t, j + 6, n + 1, Digits)
    BY <2>1 DEF AllIn
  <2> QED BY <2>1, <2>2 DEF AfterUri
<1>5. CASE q = "http_version_major"
  <2>1. n >= j + 6 /\ Protocol(t, j) /\ AllIn(t, j + 6, n, Digits)
    BY <1>5 DEF AfterUri
  <2>2. \/ t[n + 1] = "." /\ r = "http_version_minor_start"
        \/ t[n + 1] \in Digits /\ r = "http_version_major"
    BY <1>5 DEF FirstLineMove
  <2>3. CASE t[n + 1] = "." /\ r = "http_version_minor_start"
    <3>1. MajorTo(t, j, n + 1)
      BY <2>1, <2>3 DEF MajorTo, AllIn
    <3> QED BY <2>1, <2>3, <3>1
  <2>4. CASE t[n + 1] \in Digits /\ r = "http_version_major"
    <3>1. AllIn(t, j + 6, n + 1, Digits)
      BY <2>1, <2>4, AllInGrows
    <3> QED BY <2>1, <2>4, <3>1 DEF AfterUri
  <2> QED BY <2>2, <2>3, <2>4
<1> QED BY <1>2, <1>3, <1>4, <1>5 DEF AfterUri

\* ... of the first line, ...
LEMMA FirstLineStep ==
    ASSUME NEW t, NEW n \in Nat, NEW q, NEW r,
           InFirstLine(t, n, q), FirstLineMove(q, t[n + 1], r)
    PROVE  InFirstLine(t, n + 1, r)
<1>1. CASE q = "method_start" /\ n = 0
  BY <1>1 DEF FirstLineMove, InFirstLine, AllIn
<1>2. CASE q = "method" /\ n >= 1 /\ AllIn(t, 1, n, Token)
  <2>1. \/ t[n + 1] \in Space /\ r = "uri"
        \/ t[n + 1] \in Token /\ r = "method"
    BY <1>2 DEF FirstLineMove
  <2>2. CASE t[n + 1] \in Space /\ r = "uri"
    <3>1. MethodTo(t, n + 1) /\ AllIn(t, (n + 1) + 1, n + 1, Visible) /\ n + 1 \in 1 .. n + 1
      BY <1>2, <2>2 DEF MethodTo, AllIn
    <3> QED BY <2>2, <3>1 DEF InFirstLine
  <2>3. CASE t[n + 1] \in Token /\ r = "method"
    <3>1. AllIn(t, 1, n + 1, Token)
      BY <1>2, <2>3, AllInGrows
    <3> QED BY <1>2, <2>3, <3>1 DEF InFirstLine
  <2> QED BY <2>1, <2>2, <2>3
<1>3. CASE q = "uri" /\ \E i \in 1 .. n : MethodTo(t, i) /\ AllIn(t, i + 1, n, Visible)
  <2>1. PICK i \in 1 .. n : MethodTo(t, i) /\ AllIn(t, i + 1, n, Visible)
    BY <1>3
  <2>2. \/ t[n + 1] \in Space /\ r = "http_version_h"
        \/ t[n + 1] \in Visible /\ r = "uri"
    BY <1>3 DEF FirstLineMove
  <2>3. CASE t[n + 1] \in Space /\ r = "http_version_h"
    <3>1. UriTo(t, i, n + 1) /\ i \in 1 .. n + 1 /\ n + 1 \in 1 .. n + 1
      BY <2>1, <2>3 DEF UriTo
    <3>2. AfterUri(t, n + 1, n + 1, r)
      BY <2>3 DEF AfterUri
    <3> QED BY <3>1, <3>2 DEF InFirstLine
  <2>4. CASE t[n + 1] \in Visible /\ r = "uri"
    <3>1. AllIn(t, i + 1, n + 1, Visible) /\ i \in 1 .. n + 1
      BY <2>1, <2>4, AllInGrows
    <3> QED BY <2>1, <2>4, <3>1 DEF InFirstLine
  <2> QED BY <2>2, <2>3, <2>4
<1>4. CASE \E i, j \in 1 .. n : UriTo(t, i, j) /\ AfterUri(t, n, j, q)
  <2>1. PICK i \in 1 .. n, j \in 1 .. n : UriTo(t, i, j) /\ AfterUri(t, n, j, q)
    BY <1>4
  <2>2. i \in 1 .. n + 1 /\ j \in 1 .. n + 1 /\ n + 1 \in 1 .. n + 1
    OBVIOUS
  <2>3. \/ AfterUri(t, n + 1, j, r)
        \/ MajorTo(t, j, n + 1) /\ Protocol(t, j) /\ r = "http_version_minor_start"
    BY <2>1, AfterUriStep
  <2>4. CASE MajorTo(t, j, n + 1) /\ Protocol(t, j) /\ r = "http_version_minor_start"
    <3>1. InMinor(t, n + 1, n + 1, r)
      BY <2>4 DEF InMinor
    <3> QED BY <2>1, <2>2, <2>4, <3>1 DEF InFirstLine
  <2> QED BY <2>1, <2>2, <2>3, <2>4 DEF InFirstLine
<1>5. CASE \E i, j, dot \in 1 .. n :
              UriTo(t, i, j) /\ Protocol(t, j) /\ MajorTo(t, j, dot) /\ InMinor(t, n, dot, q)
  <2>1. PICK i \in 1 .. n, j \in 1 .. n, dot \in 1 .. n :
            UriTo(t, i, j) /\ Protocol(t, j) /\ MajorTo(t, j, dot) /\ InMinor(t, n, dot, q)
    BY <1>5
  <2>2. i \in 1 .. n + 1 /\ j \in 1 .. n + 1 /\ dot \in 1 .. n + 1
    OBVIOUS
  <2>3. \/ t[n + 1] \in Digits /\ r = "http_version_minor"
        \/ q = "http_version_minor" /\ t[n + 1] = "cr" /\ r = "expecting_newline_1"
    BY <2>1 DEF InMinor, FirstLineMove
  <2>4. CASE t[n + 1] \in Digits /\ r = "http_version_minor"
    <3>1. AllIn(t, dot + 1, n + 1, Digits)
      <4>1. n = dot \/ AllIn(t, dot + 1, n, Digits)
        BY <2>1 DEF InMinor
      <4>2. n = dot => AllIn(t, dot + 1, n, Digits)
        BY DEF AllIn
      <4> QED BY <2>4, <4>1, <4>2, AllInGrows
    <3>2. InMinor(t, n + 1, dot, r)
      BY <2>4, <3>1 DEF InMinor
    <3> QED BY <2>1, <2>2, <3>2 DEF InFirstLine
  <2>5. CASE q = "http_version_minor" /\ t[n + 1] = "cr" /\ r = "expecting_newline_1"
    <3>1. n > dot /\ AllIn(t, dot + 1, n, Digits) /\ (n + 1) - 1 = n
      BY <2>1, <2>5 DEF InMinor
    <3>2. RequestLineParts(t, i, j, dot, n + 1)
      BY <2>1, <3>1 DEF RequestLineParts
    <3> QED BY <2>2, <2>5, <3>2 DEF InFirstLine, FirstLine
  <2> QED BY <2>3, <2>4, <2>5
<1>6. CASE q = "expecting_newline_1"
  BY <1>6 DEF FirstLineMove
<1> QED BY <1>1, <1>2, <1>3, <1>4, <1>5, <1>6 DEF InFirstLine

\* ... of the line that is being read.
LEMMA LineStep ==
    ASSUME NEW t, NEW n \in Nat, NEW f \in 1 .. n + 1, NEW b \in 1 .. n + 1, NEW q, NEW r, NEW headers,
           InLine(t, n, f, b, q), LineMove(q, headers, t[n + 1], r),
           q = "header_line_start" /\ headers > 0 => b # f + 2,
           q # "expecting_newline_2"
    PROVE  InLine(t, n + 1, f, b, r) /\ r # "header_line_start"
<1> DEFINE x == t[n + 1]
<1>0. (n + 1) - 1 = n /\ n + 1 \in Nat
  OBVIOUS
<1>1. CASE q = "header_line_start"
  <2>1. n = b - 1 /\ n + 1 = b
    BY <1>1 DEF InLine
  <2>2. CASE x = "cr" /\ r = "expecting_newline_3"
    BY <2>1, <2>2 DEF InLine
  <2>3. CASE x \in Lws /\ r = "header_lws" /\ headers > 0
    <3>1. AllIn(t, b, n + 1, Lws) /\ b # f + 2
      BY <1>1, <2>1, <2>3 DEF AllIn
    <3> QED BY <2>1, <2>3, <3>1 DEF InLine
  <2>4. CASE x \in Token /\ r = "header_name"
    <3>1. AllIn(t, b, n + 1, Token)
      BY <2>1, <2>4 DEF AllIn
    <3> QED BY <2>1, <2>4, <3>1 DEF InLine
  <2> QED BY <1>1, <2>2, <2>3, <2>4 DEF LineMove
<1>2. CASE q = "header_name"
  <2>1. b <= n /\ AllIn(t, b, n, Token)
    BY <1>2 DEF InLine
  <2>2. CASE x = ":" /\ r = "space_before_header_value"
    BY <1>0, <2>1, <2>2 DEF InLine
  <2>3. CASE x \in Token /\ r = "header_name"
    <3>1. AllIn(t, b, n + 1, Token)
      BY <2>1, <2>3, AllInGrows
    <3> QED BY <2>1, <2>3, <3>1 DEF InLine
  <2> QED BY <1>2, <2>2, <2>3 DEF LineMove
<1>3. CASE q = "space_before_header_value"
  <2>1. b < n /\ AllIn(t, b, n - 1, Token) /\ t[n] = ":"
    BY <1>3 DEF InLine
  <2>2. x \in Space /\ r = "header_value"
    BY <1>3 DEF LineMove
  <2>3. n \in b + 1 .. (n + 1) - 1 /\ AllIn(t, n + 2, n + 1, NonCtl)
    BY <2>1 DEF AllIn
  <2> QED BY <2>1, <2>2, <2>3 DEF InLine
<1>4. CASE q = "header_lws"
  <2>1. b <= n /\ AllIn(t, b, n, Lws) /\ b # f + 2
    BY <1>4 DEF InLine
  <2>2. CASE x = "cr" /\ r = "expecting_newline_2"
    <3>1. n \in b .. (n + 1) - 1 /\ AllIn(t, n + 1, (n + 1) - 1, NonCtl)
      BY <2>1 DEF AllIn
    <3>2. LineAt(t, f, b, n + 1)
      BY <2>1, <2>2, <3>1 DEF LineAt, ContinuationAt, ContinuationParts
    <3> QED BY <2>1, <2>2, <3>2 DEF InLine
  <2>3. CASE x \in Lws /\ r = "header_lws"
    <3>1. AllIn(t, b, n + 1, Lws)
      BY <2>1, <2>3, AllInGrows
    <3> QED BY <2>1, <2>3, <3>1 DEF InLine
  <2>4. CASE x \in Visible /\ r = "header_value"
    <3>1. n \in b .. n + 1 /\ AllIn(t, n + 1, n + 1, NonCtl)
      BY <2>1, <2>4, CharClasses DEF AllIn
    <3> QED BY <2>1, <2>4, <3>1 DEF InLine
  <2> QED BY <1>4, <2>2, <2>3, <2>4 DEF LineMove
<1>5. CASE q = "header_value"
  <2>1. CASE \E colon \in b + 1 .. n - 1 :
                 /\ AllIn(t, b, colon - 1, Token)
                 /\ t[colon] = ":" /\ t[colon + 1] \in Space
                 /\ AllIn(t, colon + 2, n, NonCtl)
    <3>1. PICK colon \in b + 1 .. n - 1 :
                 /\ AllIn(t, b, colon - 1, Token)
                 /\ t[colon] = ":" /\ t[colon + 1] \in Space
                 /\ AllIn(t, colon + 2, n, NonCtl)
      BY <2>1
    <3>2. CASE x = "cr" /\ r = "expecting_newline_2"
      <4>1. colon \in b + 1 .. (n + 1) - 2 /\ HeaderParts(t, b, colon, n + 1) /\ b < n + 1
        BY <1>0, <3>1 DEF HeaderParts
      <4>2. LineAt(t, f, b, n + 1)
        BY <3>2, <4>1 DEF LineAt, HeaderAt
      <4> QED BY <3>2, <4>1, <4>2 DEF InLine
    <3>3. CASE x \in NonCtl /\ r = "header_value"
      <4>1. AllIn(t, colon + 2, n + 1, NonCtl) /\ colon \in b + 1 .. (n + 1) - 1
        BY <3>1, <3>3, AllInGrows
      <4> QED BY <3>1, <3>3, <4>1 DEF InLine
    <3> QED BY <1>5, <3>2, <3>3 DEF LineMove
  <2>2. CASE b # f + 2 /\ \E i \in b .. n : AllIn(t, b, i, Lws) /\ AllIn(t, i + 1, n, NonCtl)
    <3>1. PICK i \in b .. n : AllIn(t, b, i, Lws) /\ AllIn(t, i + 1, n, NonCtl)
      BY <2>2
    <3>2. CASE x = "cr" /\ r = "expecting_newline_2"
      <4>1. i \in b .. (n + 1) - 1 /\ ContinuationParts(t, b, i, n + 1) /\ b < n + 1
        BY <1>0, <3>1 DEF ContinuationParts
      <4>2. LineAt(t, f, b, n + 1)
        BY <2>2, <3>2, <4>1 DEF LineAt, ContinuationAt
      <4> QED BY <3>2, <4>1, <4>2 DEF InLine
    <3>3. CASE x \in NonCtl /\ r = "header_value"
      <4>1. AllIn(t, i + 1, n + 1, NonCtl) /\ i \in b .. n + 1
        BY <3>1, <3>3, AllInGrows
      <4> QED BY <2>2, <3>1, <3>3, <4>1 DEF InLine
    <3> QED BY <1>5, <3>2, <3>3 DEF LineMove
  <2> QED BY <1>5, <2>1, <2>2 DEF InLine
<1> QED BY <1>1, <1>2, <1>3, <1>4, <1>5 DEF LineMove

\* The states of the first line and those of the lines after it.
FirstLineStates ==
    {"method_start", "method", "uri_start", "uri", "http_version_h", "http_version_t_1",
     "http_version_t_2", "http_version_p", "http_version_slash", "http_version_major_start",
     "http_version_major", "http_version_minor_start", "http_version_minor", "expecting_newline_1"}
LineStates ==
    {"header_line_start", "header_lws", "header_name", "space_before_header_value",
     "header_value", "expecting_newline_2", "expecting_newline_3"}

\* A state belongs to the first line or to the others.
LEMMA WhereStatesAre ==
    ASSUME NEW t, NEW n, NEW q
    PROVE  /\ InFirstLine(t, n, q) => q \in FirstLineStates
           /\ \A f, b : InLine(t, n, f, b, q) => q \in LineStates
           /\ \A x, r : FirstLineMove(q, x, r) => q \in FirstLineStates \ {"expecting_newline_1"} /\ r \in FirstLineStates
           /\ \A h, x, r : LineMove(q, h, x, r) => q \in LineStates \ {"expecting_newline_3"} /\ r \in LineStates
<1>1. InFirstLine(t, n, q) => q \in FirstLineStates
  BY DEF InFirstLine, AfterUri, InMinor, FirstLineStates
<1>2. \A f, b : InLine(t, n, f, b, q) => q \in LineStates
  BY DEF InLine, LineStates
<1>3. \A x, r : FirstLineMove(q, x, r) => q \in FirstLineStates \ {"expecting_newline_1"} /\ r \in FirstLineStates
  BY DEF FirstLineMove, FirstLineStates
<1>4. \A h, x, r : LineMove(q, h, x, r) => q \in LineStates \ {"expecting_newline_3"} /\ r \in LineStates
  BY DEF LineMove, LineStates
<1> QED BY <1>1, <1>2, <1>3, <1>4

\* What After leaves in the parser.
LEMMA AfterFields ==
    ASSUME NEW p, NEW x, NEW next
    PROVE  /\ After(p, x, next).state = next
           /\ p.headers \in Nat /\ ~(p.state = "header_line_start" /\ next = "header_name") =>
                 After(p, x, next).headers = p.headers
           /\ p.headers \in Nat => After(p, x, next).headers \in Nat /\ After(p, x, next).headers >= p.headers
           /\ p.headers \in Nat /\ p.state = "header_line_start" /\ next = "header_name" =>
                 After(p, x, next).headers > 0
           /\ p.state = "uri" /\ next = "uri" => After(p, x, next).uri = Append(p.uri, x)
           /\ ~(p.state \in {"uri_start", "uri"} /\ next = "uri") => After(p, x, next).uri = p.uri
BY DEF After

\* A character that is not refused keeps Reads.
LEMMA ReadsStep ==
    ASSUME NEW t, NEW n \in Nat, NEW p, p.headers \in Nat, NEW next,
           next \in Moves(p, t[n + 1]), Reads(t, n, p)
    PROVE  Reads(t, n + 1, After(p, t[n + 1], next))
<1>1. PICK pp : pp = After(p, t[n + 1], next)
  OBVIOUS
<1>2. /\ pp.state = next
      /\ ~(p.state = "header_line_start" /\ next = "header_name") => pp.headers = p.headers
      /\ pp.headers \in Nat
  BY <1>1, AfterFields
<1>3. (n + 1) - 1 = n /\ n + 1 \in Nat
  OBVIOUS
<1>4. \/ FirstLineMove(p.state, t[n + 1], next)
      \/ LineMove(p.state, p.headers, t[n + 1], next)
      \/ NewlineMove(p.state, t[n + 1], next)
  BY MoveCases
<1>5. CASE InFirstLine(t, n, p.state) /\ p.headers = 0
  <2>1. p.state \in FirstLineStates
    BY <1>5, WhereStatesAre
  <2>2. CASE FirstLineMove(p.state, t[n + 1], next)
    <3>1. InFirstLine(t, n + 1, next)
      BY <1>5, <2>2, FirstLineStep
    <3>2. p.state # "header_line_start"
      BY <2>1 DEF FirstLineStates
    <3> QED BY <1>1, <1>2, <1>5, <3>1, <3>2 DEF Reads
  <2>3. CASE NewlineMove(p.state, t[n + 1], next)
    <3>1. p.state = "expecting_newline_1" /\ t[n + 1] = "lf" /\ next = "header_line_start"
      BY <2>1, <2>3 DEF NewlineMove, FirstLineStates
    <3>2. FirstLine(t, n)
      BY <1>5, <3>1 DEF InFirstLine, AfterUri, InMinor
    <3>3. LinesTo(t, n, n + 2) /\ n >= 9
      BY <3>1, <3>2, LinesBegin, LinesAreLines
    <3>4. InLine(t, n + 1, n, n + 2, next)
      BY <3>1 DEF InLine
    <3>5. n \in 1 .. (n + 1) + 1 /\ n + 2 \in 1 .. (n + 1) + 1
      BY <3>3
    <3>6. pp.headers = 0
      BY <1>2, <1>5, <3>1
    <3> QED BY <1>1, <1>2, <3>3, <3>4, <3>5, <3>6 DEF Reads
  <2>4. ~LineMove(p.state, p.headers, t[n + 1], next)
    <3>1. p.state \notin LineStates
      BY <2>1 DEF FirstLineStates, LineStates
    <3> QED BY <3>1, WhereStatesAre
  <2> QED BY <1>4, <2>2, <2>3, <2>4
<1>6. ASSUME NEW f \in 1 .. n + 1, NEW b \in 1 .. n + 1,
             LinesTo(t, f, b), InLine(t, n, f, b, p.state),
             p.state = "header_line_start" /\ b = f + 2 => p.headers = 0
      PROVE  Reads(t, n + 1, pp)
  <2>1. p.state \in LineStates
    BY <1>6, WhereStatesAre
  <2>2. CASE LineMove(p.state, p.headers, t[n + 1], next) /\ p.state # "expecting_newline_2"
    <3>1. InLine(t, n + 1, f, b, next) /\ next # "header_line_start"
      <4>1. p.state = "header_line_start" /\ p.headers > 0 => b # f + 2
        BY <1>6
      <4> QED BY <1>6, <2>2, <4>1, LineStep
    <3>2. f \in 1 .. (n + 1) + 1 /\ b \in 1 .. (n + 1) + 1
      OBVIOUS
    <3> QED BY <1>2, <1>6, <3>1, <3>2 DEF Reads
  <2>3. CASE LineMove(p.state, p.headers, t[n + 1], next) /\ p.state = "expecting_newline_2"
    <3>1. t[n + 1] = "lf" /\ next = "header_line_start"
      BY <2>3 DEF LineMove
    <3>2. b < n /\ LineAt(t, f, b, n)
      BY <1>6, <2>3 DEF InLine
    <3>3. LinesTo(t, f, n + 2)
      BY <1>6, <3>1, <3>2, LinesGrow
    <3>4. InLine(t, n + 1, f, n + 2, next)
      BY <3>1 DEF InLine
    <3>5. f + 2 <= b
      BY <1>6 DEF LinesTo
    <3>6. f \in 1 .. (n + 1) + 1 /\ n + 2 \in 1 .. (n + 1) + 1 /\ n + 2 # f + 2
      BY <3>2, <3>5
    <3> QED BY <1>2, <3>3, <3>4, <3>6 DEF Reads
  <2>4. CASE NewlineMove(p.state, t[n + 1], next)
    <3>1. p.state = "expecting_newline_3" /\ t[n + 1] = "lf" /\ next = "complete"
      BY <2>1, <2>4 DEF NewlineMove, LineStates
    <3>2. n = b /\ t[n] = "cr"
      BY <1>6, <3>1 DEF InLine
    <3>3. f \in Nat /\ LinesTo(t, f, (n + 1) - 1)
      BY <1>6, <3>2
    <3> QED BY <1>2, <1>3, <3>1, <3>2, <3>3 DEF Reads
  <2>5. ~FirstLineMove(p.state, t[n + 1], next)
    <3>1. p.state \notin FirstLineStates
      BY <2>1 DEF FirstLineStates, LineStates
    <3> QED BY <3>1, WhereStatesAre
  <2> QED BY <1>4, <2>2, <2>3, <2>4, <2>5
<1>7. p.state # "complete"
  BY <1>4 DEF FirstLineMove, LineMove, NewlineMove
<1> QED BY <1>1, <1>5, <1>6, <1>7 DEF Reads

\* Reads holds before the first character.
LEMMA ReadsNothing ==
    ASSUME NEW t
    PROVE  Reads(t, 0, NewParser)
BY DEF Reads, InFirstLine, NewParser

-----------------------------------------------------------------------------
(* The uri that is read. *)

\* A uri is what is between the first two spaces of a text.
NonSpace == Chars \ Space

OneSpace(t, i, n) == AllIn(t, 1, i - 1, NonSpace) /\ t[i] \in Space /\ AllIn(t, i + 1, n, NonSpace)
TwoSpaces(t, i, j) == i < j /\ OneSpace(t, i, j - 1) /\ t[j] \in Space

\* The uri of the parser, before it, within it and after it.
UriRead(t, n, p) ==
    \/ p.state \in {"method_start", "method"} /\ p.uri = << >> /\ AllIn(t, 1, n, NonSpace)
    \/ p.state = "uri" /\ \E i \in 1 .. n : OneSpace(t, i, n) /\ p.uri = SubSeq(t, i + 1, n)
    \/ /\ p.state \notin {"method_start", "method", "uri_start", "uri"}
       /\ \E i, j \in 1 .. n : TwoSpaces(t, i, j) /\ p.uri = SubSeq(t, i + 1, j - 1)

\* A part of a text and the next character.
LEMMA AppendToPart ==
    ASSUME NEW t \in Seq(Chars), NEW n \in Nat, n < Len(t), NEW i \in 1 .. n
    PROVE  Append(SubSeq(t, i + 1, n), t[n + 1]) = SubSeq(t, i + 1, n + 1)
<1>1. PICK b \in 1 .. n + 1 : b = i + 1
  OBVIOUS
<1>2. PICK u \in Seq(Chars) : u = SubSeq(t, b, n) /\ Len(u) = n + 1 - b /\ \A k \in 1 .. n + 1 - b : u[k] = t[b + k - 1]
  <2>1. SubSeq(t, b, n) \in Seq(Chars) /\ Len(SubSeq(t, b, n)) = n + 1 - b
    BY <1>1
  <2>2. \A k \in 1 .. n + 1 - b : SubSeq(t, b, n)[k] = t[b + k - 1]
    BY <1>1
  <2> QED BY <2>1, <2>2
<1>3. PICK v \in Seq(Chars) : v = SubSeq(t, b, n + 1) /\ Len(v) = n + 2 - b /\ \A k \in 1 .. n + 2 - b : v[k] = t[b + k - 1]
  <2>1. PICK m \in Nat : m = n + 1 /\ m + 1 - b = n + 2 - b /\ m <= Len(t)
    <3>1. n + 1 \in Nat /\ (n + 1) + 1 - b = n + 2 - b /\ n + 1 <= Len(t)
      OBVIOUS
    <3> QED BY <3>1
  <2>2. SubSeq(t, b, m) \in Seq(Chars) /\ Len(SubSeq(t, b, m)) = m + 1 - b
    BY <1>1, <2>1
  <2>3. \A k \in 1 .. m + 1 - b : SubSeq(t, b, m)[k] = t[b + k - 1]
    BY <1>1, <2>1
  <2> QED BY <2>1, <2>2, <2>3
<1>4. PICK x \in Chars : x = t[n + 1]
  OBVIOUS
<1>5. PICK w \in Seq(Chars) : /\ w = Append(u, x) /\ Len(w) = Len(u) + 1 /\ w[Len(u) + 1] = x
                              /\ \A k \in 1 .. Len(u) : w[k] = u[k]
  <2>1. /\ Append(u, x) \in Seq(Chars) /\ Len(Append(u, x)) = Len(u) + 1
        /\ Append(u, x)[Len(u) + 1] = x /\ \A k \in 1 .. Len(u) : Append(u, x)[k] = u[k]
    BY AppendProperties
  <2> QED BY <2>1
<1>6. \A k \in 1 .. Len(w) : w[k] = v[k]
  <2> SUFFICES ASSUME NEW k \in 1 .. Len(w) PROVE w[k] = v[k]
    OBVIOUS
  <2>1. CASE k \in 1 .. Len(u)
    BY <1>2, <1>3, <1>5, <2>1
  <2>2. CASE k = Len(u) + 1
    <3>1. k \in 1 .. n + 2 - b /\ b + k - 1 = n + 1
      BY <1>1, <1>2, <2>2
    <3> QED BY <1>3, <1>4, <1>5, <2>2, <3>1
  <2> QED BY <1>5, <2>1, <2>2
<1>7. Len(w) = Len(v)
  BY <1>1, <1>2, <1>3, <1>5
<1>8. w = v
  BY <1>6, <1>7, SeqEqual
<1> QED BY <1>1, <1>2, <1>3, <1>4, <1>5, <1>8

\* A character that is not refused keeps UriRead.
LEMMA UriReadStep ==
    ASSUME NEW t \in Seq(Chars), NEW n \in Nat, n < Len(t), NEW p, NEW next,
           next \in Moves(p, t[n + 1]), UriRead(t, n, p)
    PROVE  UriRead(t, n + 1, After(p, t[n + 1], next))
<1>1. PICK pp : pp = After(p, t[n + 1], next)
  OBVIOUS
<1>2. /\ pp.state = next
      /\ p.state = "uri" /\ next = "uri" => pp.uri = Append(p.uri, t[n + 1])
      /\ ~(p.state \in {"uri_start", "uri"} /\ next = "uri") => pp.uri = p.uri
  BY <1>1, AfterFields
<1>3. \/ FirstLineMove(p.state, t[n + 1], next)
      \/ LineMove(p.state, p.headers, t[n + 1], next)
      \/ NewlineMove(p.state, t[n + 1], next)
  BY MoveCases
<1>4. (n + 1) - 1 = n /\ n + 1 \in Nat /\ n + 1 \in 1 .. n + 1 /\ t[n + 1] \in Chars
  OBVIOUS
<1>5. \A x \in Token : x \in NonSpace
  BY CharClasses DEF NonSpace, Token
<1>6. \A x \in Visible : x \in NonSpace
  BY CharClasses DEF NonSpace
<1>7. CASE p.state \in {"method_start", "method"} /\ p.uri = << >> /\ AllIn(t, 1, n, NonSpace)
  <2>1. \/ p.state = "method" /\ t[n + 1] \in Space /\ next = "uri"
        \/ t[n + 1] \in Token /\ next = "method"
    BY <1>3, <1>7 DEF FirstLineMove, LineMove, NewlineMove
  <2>2. CASE p.state = "method" /\ t[n + 1] \in Space /\ next = "uri"
    <3>1. AllIn(t, (n + 1) + 1, n + 1, NonSpace)
      BY DEF AllIn
    <3>2. OneSpace(t, n + 1, n + 1)
      BY <1>4, <1>7, <2>2, <3>1 DEF OneSpace
    <3>3. SubSeq(t, (n + 1) + 1, n + 1) = << >>
      BY SubSeqEmpty
    <3>4. pp.uri = << >>
      BY <1>2, <1>7, <2>2
    <3> QED BY <1>1, <1>2, <1>4, <2>2, <3>2, <3>3, <3>4 DEF UriRead
  <2>3. CASE t[n + 1] \in Token /\ next = "method"
    <3>1. AllIn(t, 1, n + 1, NonSpace)
      BY <1>5, <1>7, <2>3, AllInGrows
    <3>2. pp.uri = << >>
      BY <1>2, <1>7, <2>3
    <3> QED BY <1>1, <1>2, <2>3, <3>1, <3>2 DEF UriRead
  <2> QED BY <2>1, <2>2, <2>3
<1>8. ASSUME p.state = "uri", NEW i \in 1 .. n, OneSpace(t, i, n), p.uri = SubSeq(t, i + 1, n)
      PROVE  UriRead(t, n + 1, pp)
  <2>1. \/ t[n + 1] \in Space /\ next = "http_version_h"
        \/ t[n + 1] \in Visible /\ next = "uri"
    BY <1>3, <1>8 DEF FirstLineMove, LineMove, NewlineMove
  <2>2. CASE t[n + 1] \in Space /\ next = "http_version_h"
    <3>1. TwoSpaces(t, i, n + 1)
      BY <1>4, <1>8, <2>2 DEF TwoSpaces
    <3>2. pp.uri = SubSeq(t, i + 1, (n + 1) - 1)
      BY <1>2, <1>4, <1>8, <2>2
    <3>3. i \in 1 .. n + 1
      OBVIOUS
    <3> QED BY <1>2, <1>4, <2>2, <3>1, <3>2, <3>3 DEF UriRead
  <2>3. CASE t[n + 1] \in Visible /\ next = "uri"
    <3>1. OneSpace(t, i, n + 1)
      BY <1>6, <1>8, <2>3, AllInGrows DEF OneSpace
    <3>2. pp.uri = SubSeq(t, i + 1, n + 1)
      BY <1>2, <1>8, <2>3, AppendToPart
    <3>3. i \in 1 .. n + 1
      OBVIOUS
    <3> QED BY <1>2, <2>3, <3>1, <3>2, <3>3 DEF UriRead
  <2> QED BY <2>1, <2>2, <2>3
<1>9. ASSUME p.state \notin {"method_start", "method", "uri_start", "uri"},
             NEW i \in 1 .. n, NEW j \in 1 .. n, TwoSpaces(t, i, j), p.uri = SubSeq(t, i + 1, j - 1)
      PROVE  UriRead(t, n + 1, pp)
  <2>1. next \notin {"method_start", "method", "uri_start", "uri"}
    BY <1>3, <1>9 DEF FirstLineMove, LineMove, NewlineMove
  <2>2. pp.uri = p.uri
    BY <1>2, <2>1
  <2>3. i \in 1 .. n + 1 /\ j \in 1 .. n + 1
    OBVIOUS
  <2> QED BY <1>2, <1>9, <2>1, <2>2, <2>3 DEF UriRead
<1> QED BY <1>1, <1>7, <1>8, <1>9 DEF UriRead

\* UriRead holds before the first character.
LEMMA UriReadNothing ==
    ASSUME NEW t
    PROVE  UriRead(t, 0, NewParser)
BY DEF UriRead, NewParser, AllIn

\* The first two spaces are the first two, so that what is read is the uri.
LEMMA UriIsRead ==
    ASSUME NEW s \in Seq(Chars), NEW i \in 1 .. Len(s), NEW j \in 1 .. Len(s), TwoSpaces(s, i, j)
    PROVE  UriOf(s) = SubSeq(s, i + 1, j - 1)
<1>1. /\ i < j /\ s[i] \in Space /\ s[j] \in Space
      /\ AllIn(s, 1, i - 1, Chars \ Space) /\ AllIn(s, i + 1, j - 1, Chars \ Space)
  BY DEF TwoSpaces, OneSpace, NonSpace
<1>2. \A k \in DOMAIN s : s[k] \in Space /\ AllIn(s, 1, k - 1, Chars \ Space) => k = i
  <2> SUFFICES ASSUME NEW k \in 1 .. Len(s), s[k] \in Space, AllIn(s, 1, k - 1, Chars \ Space)
               PROVE k = i
    OBVIOUS
  <2>1. ~(k < i)
    BY <1>1 DEF AllIn
  <2>2. ~(i < k)
    BY <1>1 DEF AllIn
  <2> QED BY <2>1, <2>2
<1>3. \A k \in i + 1 .. Len(s) : s[k] \in Space /\ AllIn(s, i + 1, k - 1, Chars \ Space) => k = j
  <2> SUFFICES ASSUME NEW k \in i + 1 .. Len(s), s[k] \in Space, AllIn(s, i + 1, k - 1, Chars \ Space)
               PROVE k = j
    OBVIOUS
  <2>1. ~(k < j)
    BY <1>1 DEF AllIn
  <2>2. ~(j < k)
    BY <1>1 DEF AllIn
  <2> QED BY <1>1, <2>1, <2>2
<1>4. (CHOOSE k \in DOMAIN s : s[k] \in Space /\ AllIn(s, 1, k - 1, Chars \ Space)) = i
  <2>1. i \in DOMAIN s
    OBVIOUS
  <2> QED BY <1>1, <1>2, <2>1
<1>5. (CHOOSE k \in i + 1 .. Len(s) : s[k] \in Space /\ AllIn(s, i + 1, k - 1, Chars \ Space)) = j
  <2>1. j \in i + 1 .. Len(s)
    BY <1>1
  <2> QED BY <1>1, <1>3, <2>1
<1> QED BY <1>4, <1>5, Zenon DEF UriOf

-----------------------------------------------------------------------------
(* The automaton does not refuse a request: where it is after m characters. *)

\* The state that belongs to place m of a request line with these parts.
FirstLinePlace(i, j, dot, f, m, q) ==
    \/ q = "method_start" /\ m = 0
    \/ q = "method" /\ 1 <= m /\ m < i
    \/ q = "uri" /\ i <= m /\ m < j
    \/ q = "http_version_h" /\ m = j
    \/ q = "http_version_t_1" /\ m = j + 1
    \/ q = "http_version_t_2" /\ m = j + 2
    \/ q = "http_version_p" /\ m = j + 3
    \/ q = "http_version_slash" /\ m = j + 4
    \/ q = "http_version_major_start" /\ m = j + 5
    \/ q = "http_version_major" /\ j + 6 <= m /\ m < dot
    \/ q = "http_version_minor_start" /\ m = dot
    \/ q = "http_version_minor" /\ dot < m /\ m < f
    \/ q = "expecting_newline_1" /\ m = f

OnFirstLine(t, f, m, q) ==
    \E i, j, dot \in 1 .. f : RequestLineParts(t, i, j, dot, f) /\ FirstLinePlace(i, j, dot, f, m, q)

\* The states that belong to place m of a line from b to e.  White space can be
\* that before a continuation or in it.
LinePlace(t, b, e, m, q) ==
    \/ \E colon \in b + 1 .. e - 2 :
          /\ HeaderParts(t, b, colon, e)
          /\ \/ q = "header_name" /\ b <= m /\ m < colon
             \/ q = "space_before_header_value" /\ m = colon
             \/ q = "header_value" /\ colon < m /\ m < e
    \/ \E i \in b .. e - 1 :
          /\ ContinuationParts(t, b, i, e)
          /\ \/ q = "header_lws" /\ b <= m /\ m < e
             \/ q = "header_value" /\ i < m /\ m < e
    \/ q = "expecting_newline_2" /\ m = e

\* A place in the lines of headers, and what they leave in the vector of headers.
OnLine(t, f, m, q, headers) ==
    \/ \E b \in f + 2 .. Len(t) - 1 :
          /\ t[b - 2] = "cr"
          /\ \/ q = "header_line_start" /\ m = b - 1 /\ (b = f + 2 \/ headers > 0)
             \/ headers > 0 /\ \E e \in b + 1 .. Len(t) - 3 : t[e] = "cr" /\ LinePlace(t, b, e, m, q)
    \/ q = "expecting_newline_3" /\ m = Len(t) - 1
    \/ q = "complete" /\ m = Len(t)

\* After m characters of a request the parser is where the request has it.
Follows(t, m, p) ==
    \A f \in Nat : WholeRequest(t, f) =>
        OnFirstLine(t, f, m, p.state) \/ OnLine(t, f, m, p.state, p.headers)

\* On the first line of a request the automaton has a move, and it stays in place.
LEMMA FirstLinePlaceStep ==
    ASSUME NEW t, NEW f \in Nat, NEW i \in 1 .. f, NEW j \in 1 .. f, NEW dot \in 1 .. f,
           RequestLineParts(t, i, j, dot, f), t[f] = "cr",
           NEW m \in Nat, m < f, NEW q, FirstLinePlace(i, j, dot, f, m, q)
    PROVE  /\ \E r : FirstLineMove(q, t[m + 1], r)
           /\ \A r : FirstLineMove(q, t[m + 1], r) => FirstLinePlace(i, j, dot, f, m + 1, r)
<1>1. /\ 1 < i /\ i < j /\ j + 6 < dot /\ dot + 1 < f
      /\ AllIn(t, 1, i - 1, Token) /\ t[i] \in Space
      /\ AllIn(t, i + 1, j - 1, Visible) /\ t[j] \in Space
      /\ t[j + 1] = "H" /\ t[j + 2] = "T" /\ t[j + 3] = "T" /\ t[j + 4] = "P" /\ t[j + 5] = "/"
      /\ AllIn(t, j + 6, dot - 1, Digits) /\ t[dot] = "."
      /\ AllIn(t, dot + 1, f - 1, Digits)
  BY DEF RequestLineParts, UriTo, MethodTo, Protocol, MajorTo
<1>2. PICK x : x = t[m + 1]
  OBVIOUS
<1>3. PICK n \in Nat : n = m + 1
  OBVIOUS
<1>4. CASE q = "method_start" /\ m = 0
  <2>1. x \in Token
    BY <1>1, <1>2, <1>4 DEF AllIn
  <2> QED BY <1>1, <1>2, <1>4, <2>1 DEF FirstLineMove, FirstLinePlace
<1>5. CASE q = "method" /\ 1 <= m /\ m < i
  <2>1. \/ m + 1 < i /\ x \in Token
        \/ m + 1 = i /\ x \in Space
    BY <1>1, <1>2, <1>5 DEF AllIn
  <2>2. x \in Token => x \notin Space
    BY CharClasses
  <2>3. CASE m + 1 < i /\ x \in Token
    BY <1>2, <1>5, <2>2, <2>3 DEF FirstLineMove, FirstLinePlace
  <2>4. CASE m + 1 = i /\ x \in Space
    BY <1>1, <1>2, <1>5, <2>2, <2>4 DEF FirstLineMove, FirstLinePlace
  <2> QED BY <2>1, <2>3, <2>4
<1>6. CASE q = "uri" /\ i <= m /\ m < j
  <2>1. \/ m + 1 < j /\ x \in Visible
        \/ m + 1 = j /\ x \in Space
    BY <1>1, <1>2, <1>6 DEF AllIn
  <2>2. x \in Visible => x \notin Space
    BY CharClasses
  <2>3. CASE m + 1 < j /\ x \in Visible
    BY <1>2, <1>6, <2>2, <2>3 DEF FirstLineMove, FirstLinePlace
  <2>4. CASE m + 1 = j /\ x \in Space
    BY <1>1, <1>2, <1>6, <2>2, <2>4 DEF FirstLineMove, FirstLinePlace
  <2> QED BY <2>1, <2>3, <2>4
<1>7. CASE q = "http_version_h" /\ m = j
  BY <1>1, <1>7 DEF FirstLineMove, FirstLinePlace
<1>8. CASE q = "http_version_t_1" /\ m = j + 1
  <2>1. m + 1 = j + 2
    BY <1>8
  <2> QED BY <1>1, <1>8, <2>1 DEF FirstLineMove, FirstLinePlace
<1>9. CASE q = "http_version_t_2" /\ m = j + 2
  <2>1. m + 1 = j + 3
    BY <1>9
  <2> QED BY <1>1, <1>9, <2>1 DEF FirstLineMove, FirstLinePlace
<1>10. CASE q = "http_version_p" /\ m = j + 3
  <2>1. m + 1 = j + 4
    BY <1>10
  <2> QED BY <1>1, <1>10, <2>1 DEF FirstLineMove, FirstLinePlace
<1>11. CASE q = "http_version_slash" /\ m = j + 4
  <2>1. m + 1 = j + 5
    BY <1>11
  <2> QED BY <1>1, <1>11, <2>1 DEF FirstLineMove, FirstLinePlace
<1>12. CASE q = "http_version_major_start" /\ m = j + 5
  <2>1. m + 1 = j + 6 /\ x \in Digits
    BY <1>1, <1>2, <1>12 DEF AllIn
  <2> QED BY <1>1, <1>2, <1>12, <2>1 DEF FirstLineMove, FirstLinePlace
<1>13. CASE q = "http_version_major" /\ j + 6 <= m /\ m < dot
  <2>1. \/ m + 1 < dot /\ x \in Digits
        \/ m + 1 = dot /\ x = "."
    BY <1>1, <1>2, <1>13 DEF AllIn
  <2>2. x \in Digits => x # "."
    BY CharClasses
  <2>3. CASE m + 1 < dot /\ x \in Digits
    BY <1>2, <1>13, <2>2, <2>3 DEF FirstLineMove, FirstLinePlace
  <2>4. CASE m + 1 = dot /\ x = "."
    BY <1>1, <1>2, <1>13, <2>2, <2>4 DEF FirstLineMove, FirstLinePlace
  <2> QED BY <2>1, <2>3, <2>4
<1>14. CASE q = "http_version_minor_start" /\ m = dot
  <2>1. m + 1 < f /\ x \in Digits
    BY <1>1, <1>2, <1>14 DEF AllIn
  <2> QED BY <1>1, <1>2, <1>14, <2>1 DEF FirstLineMove, FirstLinePlace
<1>15. CASE q = "http_version_minor" /\ dot < m /\ m < f
  <2>1. \/ m + 1 < f /\ x \in Digits
        \/ m + 1 = f /\ x = "cr"
    BY <1>1, <1>2, <1>15 DEF AllIn
  <2>2. x \in Digits => x # "cr"
    BY CharClasses
  <2>3. CASE m + 1 < f /\ x \in Digits
    BY <1>2, <1>15, <2>2, <2>3 DEF FirstLineMove, FirstLinePlace
  <2>4. CASE m + 1 = f /\ x = "cr"
    BY <1>1, <1>2, <1>15, <2>2, <2>4 DEF FirstLineMove, FirstLinePlace
  <2> QED BY <2>1, <2>3, <2>4
<1> QED BY <1>4, <1>5, <1>6, <1>7, <1>8, <1>9, <1>10, <1>11, <1>12, <1>13, <1>14, <1>15
    DEF FirstLinePlace

\* Within a line: the moves on exist, and stay in the line.
LEMMA LinePlaceStep ==
    ASSUME NEW t, NEW b \in Nat, NEW e \in Nat, t[e] = "cr",
           NEW m \in Nat, m < e, NEW q, LinePlace(t, b, e, m, q), NEW headers
    PROVE  /\ \E r : LineMove(q, headers, t[m + 1], r)
           /\ \A r : LineMove(q, headers, t[m + 1], r) => LinePlace(t, b, e, m + 1, r)
<1>1. PICK x : x = t[m + 1]
  OBVIOUS
<1>2. x \in NonCtl => x # "cr" /\ (x \in Lws \/ x \in Visible)
  <2>1. x \in Space => x \in Lws
    BY CharClasses
  <2>2. x \in NonCtl => x \notin {"tab", "cr", "lf"} /\ (x \in Space \/ x \in Visible)
    BY CharClasses
  <2> QED BY <2>1, <2>2
<1>3. ASSUME NEW colon \in b + 1 .. e - 2, HeaderParts(t, b, colon, e),
             \/ q = "header_name" /\ b <= m /\ m < colon
             \/ q = "space_before_header_value" /\ m = colon
             \/ q = "header_value" /\ colon < m /\ m < e
      PROVE  /\ \E r : LineMove(q, headers, x, r)
             /\ \A r : LineMove(q, headers, x, r) => LinePlace(t, b, e, m + 1, r)
  <2>1. CASE q = "header_name" /\ b <= m /\ m < colon
    <3>1. \/ m + 1 < colon /\ x \in Token
          \/ m + 1 = colon /\ x = ":"
      BY <1>1, <1>3, <2>1 DEF HeaderParts, AllIn
    <3>2. x \in Token => x # ":"
      BY CharClasses
    <3>3. CASE m + 1 < colon /\ x \in Token
      <4>1. LinePlace(t, b, e, m + 1, "header_name")
        BY <1>3, <2>1, <3>3 DEF LinePlace
      <4> QED BY <2>1, <3>2, <3>3, <4>1 DEF LineMove
    <3>4. CASE m + 1 = colon /\ x = ":"
      <4>1. LinePlace(t, b, e, m + 1, "space_before_header_value")
        BY <1>3, <2>1, <3>4 DEF LinePlace
      <4> QED BY <2>1, <3>2, <3>4, <4>1 DEF LineMove
    <3> QED BY <3>1, <3>3, <3>4
  <2>2. CASE q = "space_before_header_value" /\ m = colon
    <3>1. x \in Space
      BY <1>1, <1>3, <2>2 DEF HeaderParts
    <3>2. LinePlace(t, b, e, m + 1, "header_value")
      BY <1>3, <2>2 DEF LinePlace
    <3> QED BY <2>2, <3>1, <3>2 DEF LineMove
  <2>3. CASE q = "header_value" /\ colon < m /\ m < e
    <3>1. \/ m + 1 < e /\ x \in NonCtl
          \/ m + 1 = e /\ x = "cr"
      BY <1>1, <1>3, <2>3 DEF HeaderParts, AllIn
    <3>2. CASE m + 1 < e /\ x \in NonCtl
      <4>1. LinePlace(t, b, e, m + 1, "header_value")
        BY <1>3, <2>3, <3>2 DEF LinePlace
      <4> QED BY <1>2, <2>3, <3>2, <4>1 DEF LineMove
    <3>3. CASE m + 1 = e /\ x = "cr"
      <4>1. LinePlace(t, b, e, m + 1, "expecting_newline_2")
        BY <3>3 DEF LinePlace
      <4> QED BY <1>2, <2>3, <3>3, <4>1 DEF LineMove
    <3> QED BY <3>1, <3>2, <3>3
  <2> QED BY <1>3, <2>1, <2>2, <2>3
<1>4. ASSUME NEW i \in b .. e - 1, ContinuationParts(t, b, i, e),
             \/ q = "header_lws" /\ b <= m /\ m < e
             \/ q = "header_value" /\ i < m /\ m < e
      PROVE  /\ \E r : LineMove(q, headers, x, r)
             /\ \A r : LineMove(q, headers, x, r) => LinePlace(t, b, e, m + 1, r)
  <2>1. CASE m + 1 = e
    <3>1. x = "cr"
      BY <1>1, <2>1
    <3>2. LinePlace(t, b, e, m + 1, "expecting_newline_2")
      BY <2>1 DEF LinePlace
    <3>3. x \notin Lws /\ x \notin Visible /\ x \notin NonCtl
      BY <3>1, CharClasses
    <3> QED BY <1>4, <3>1, <3>2, <3>3 DEF LineMove
  <2>2. CASE m + 1 < e /\ q = "header_lws"
    <3>1. /\ x \in Lws \/ x \in Visible
          /\ x \in Visible => i < m + 1
      <4>1. CASE m + 1 <= i
        <5>1. x \in Lws
          BY <1>1, <1>4, <2>2, <4>1 DEF ContinuationParts, AllIn
        <5> QED BY <5>1, CharClasses
      <4>2. CASE i < m + 1
        <5>1. x \in NonCtl
          BY <1>1, <1>4, <2>2, <4>2 DEF ContinuationParts, AllIn
        <5> QED BY <1>2, <4>2, <5>1
      <4> QED BY <4>1, <4>2
    <3>2. x # "cr"
      BY <3>1, CharClasses
    <3>3. LinePlace(t, b, e, m + 1, "header_lws")
      BY <1>4, <2>2 DEF LinePlace
    <3>4. x \in Visible => LinePlace(t, b, e, m + 1, "header_value")
      BY <1>4, <2>2, <3>1 DEF LinePlace
    <3> QED BY <2>2, <3>1, <3>2, <3>3, <3>4 DEF LineMove
  <2>3. CASE m + 1 < e /\ q = "header_value"
    <3>1. x \in NonCtl
      BY <1>1, <1>4, <2>3 DEF ContinuationParts, AllIn
    <3>2. LinePlace(t, b, e, m + 1, "header_value")
      BY <1>4, <2>3 DEF LinePlace
    <3> QED BY <1>2, <2>3, <3>1, <3>2 DEF LineMove
  <2> QED BY <1>4, <2>1, <2>2, <2>3
<1> QED BY <1>1, <1>3, <1>4 DEF LinePlace

\* A move of the automaton.
AnyMove(q, headers, x, r) ==
    FirstLineMove(q, x, r) \/ LineMove(q, headers, x, r) \/ NewlineMove(q, x, r)

\* So it does wherever it is in a request.
LEMMA PlaceStep ==
    ASSUME NEW t \in Seq(Chars), NEW f \in Nat, WholeRequest(t, f),
           NEW m \in Nat, m < Len(t), NEW q, NEW headers \in Nat,
           OnFirstLine(t, f, m, q) \/ OnLine(t, f, m, q, headers)
    PROVE  /\ \E r : AnyMove(q, headers, t[m + 1], r)
           /\ \A r : \A more \in Nat :
                 /\ AnyMove(q, headers, t[m + 1], r)
                 /\ more >= headers
                 /\ q = "header_line_start" /\ r = "header_name" => more > 0
                 => OnFirstLine(t, f, m + 1, r) \/ OnLine(t, f, m + 1, r, more)
<1>1. PICK n \in Nat : n = Len(t)
  OBVIOUS
<1>2. /\ f + 2 <= n - 1 /\ FirstLine(t, f) /\ t[n - 1] = "cr" /\ t[n] = "lf"
      /\ \A k \in 1 .. n - 2 : t[k] = "cr" => k < n - 2 /\ t[k + 1] = "lf"
      /\ \A k \in f .. n - 4 : t[k] = "cr" => \E e \in k + 2 .. n - 3 : LineAt(t, f, k + 2, e)
  <2>1. LinesTo(t, f, n - 1) /\ t[n - 1] = "cr" /\ t[n] = "lf"
    BY <1>1 DEF WholeRequest
  <2>2. (n - 1) - 1 = n - 2 /\ (n - 1) - 2 = n - 3 /\ (n - 1) - 3 = n - 4
    OBVIOUS
  <2> QED BY <2>1, <2>2 DEF LinesTo
<1>3. f >= 9 /\ t[f] = "cr"
  BY <1>2, LinesAreLines
<1>4. \A b \in f + 2 .. n - 2 : t[b - 2] = "cr" => \E e \in b + 1 .. n - 3 : LineAt(t, f, b, e)
  <2> SUFFICES ASSUME NEW b \in f + 2 .. n - 2, t[b - 2] = "cr"
               PROVE \E e \in b + 1 .. n - 3 : LineAt(t, f, b, e)
    OBVIOUS
  <2>1. PICK k \in f .. n - 4 : k = b - 2 /\ k + 2 = b
    <3>1. b - 2 \in f .. n - 4 /\ (b - 2) + 2 = b
      OBVIOUS
    <3> QED BY <3>1
  <2>2. PICK e \in b .. n - 3 : LineAt(t, f, b, e)
    BY <1>2, <2>1
  <2>3. b < e
    <3>1. b \in Nat /\ e \in Nat
      OBVIOUS
    <3> QED BY <2>2, <3>1, LinesAreLines
  <2> QED BY <2>2, <2>3
<1>5. CASE OnFirstLine(t, f, m, q)
  <2>1. PICK i \in 1 .. f, j \in 1 .. f, dot \in 1 .. f :
            RequestLineParts(t, i, j, dot, f) /\ FirstLinePlace(i, j, dot, f, m, q)
    BY <1>5 DEF OnFirstLine
  <2>2. q \in FirstLineStates
    BY <2>1 DEF FirstLinePlace, FirstLineStates
  <2>3. \A x, r : ~LineMove(q, headers, x, r)
    <3>1. q \notin LineStates
      BY <2>2 DEF FirstLineStates, LineStates
    <3> QED BY <3>1, WhereStatesAre
  <2>4. CASE m < f
    <3>1. /\ \E r : FirstLineMove(q, t[m + 1], r)
          /\ \A r : FirstLineMove(q, t[m + 1], r) => FirstLinePlace(i, j, dot, f, m + 1, r)
      BY <1>3, <2>1, <2>4, FirstLinePlaceStep
    <3>2. q # "expecting_newline_1" /\ q # "expecting_newline_3"
      <4>1. 1 < i /\ i < j /\ j + 6 < dot /\ dot + 1 < f
        BY <2>1 DEF RequestLineParts, UriTo, MethodTo, MajorTo
      <4> QED BY <2>1, <2>4, <4>1 DEF FirstLinePlace
    <3>3. \A x, r : ~NewlineMove(q, x, r)
      BY <3>2 DEF NewlineMove
    <3>4. \A r : FirstLineMove(q, t[m + 1], r) => OnFirstLine(t, f, m + 1, r)
      BY <2>1, <3>1 DEF OnFirstLine
    <3> QED BY <2>3, <3>1, <3>3, <3>4 DEF AnyMove
  <2>5. CASE m >= f
    <3>1. q = "expecting_newline_1" /\ m = f
      <4>1. 1 < i /\ i < j /\ j + 6 < dot /\ dot + 1 < f
        BY <2>1 DEF RequestLineParts, UriTo, MethodTo, MajorTo
      <4> QED BY <2>1, <2>5, <4>1 DEF FirstLinePlace
    <3>2. t[m + 1] = "lf"
      BY <1>2, <1>3, <3>1
    <3>3. f + 2 \in f + 2 .. n - 1 /\ (f + 2) - 2 = f /\ m + 1 = (f + 2) - 1
      BY <1>2, <3>1
    <3>4. \A h : OnLine(t, f, m + 1, "header_line_start", h)
      BY <1>1, <1>3, <3>3 DEF OnLine
    <3>5. \A r : ~FirstLineMove(q, t[m + 1], r)
      BY <3>1 DEF FirstLineMove
    <3>6. \A r : NewlineMove(q, t[m + 1], r) <=> r = "header_line_start"
      BY <3>1, <3>2 DEF NewlineMove
    <3> QED BY <2>3, <3>4, <3>5, <3>6 DEF AnyMove
  <2> QED BY <1>3, <2>4, <2>5
<1>6. CASE OnLine(t, f, m, q, headers)
  <2>1. q \in LineStates \cup {"complete"}
    BY <1>6 DEF OnLine, LinePlace, LineStates
  <2>2. \A x, r : ~FirstLineMove(q, x, r)
    <3>1. q \notin FirstLineStates
      BY <2>1 DEF FirstLineStates, LineStates
    <3> QED BY <3>1, WhereStatesAre
  <2>3. q # "expecting_newline_3" => \A x, r : ~NewlineMove(q, x, r)
    BY <2>1 DEF NewlineMove, LineStates
  <2>4. ASSUME NEW b \in f + 2 .. n - 1, t[b - 2] = "cr",
               q = "header_line_start", m = b - 1, b = f + 2 \/ headers > 0
        PROVE  /\ \E r : LineMove(q, headers, t[m + 1], r)
               /\ \A r : \A more \in Nat :
                     /\ LineMove(q, headers, t[m + 1], r)
                     /\ more >= headers
                     /\ r = "header_name" => more > 0
                     => OnLine(t, f, m + 1, r, more)
    <3>0. m + 1 = b
      BY <2>4
    <3>1. CASE b = n - 1
      <4>1. t[m + 1] = "cr"
        BY <1>2, <3>0, <3>1
      <4>2. \A h : OnLine(t, f, m + 1, "expecting_newline_3", h)
        BY <1>1, <3>0, <3>1 DEF OnLine
      <4>3. \A r : LineMove(q, headers, t[m + 1], r) <=> r = "expecting_newline_3"
        <5>1. t[m + 1] \notin Lws /\ t[m + 1] \notin Token
          BY <4>1, CharClasses
        <5> QED BY <2>4, <4>1, <5>1 DEF LineMove
      <4> QED BY <4>2, <4>3
    <3>2. CASE b < n - 1
      <4>1. b \in f + 2 .. n - 2
        BY <3>2
      <4>2. PICK e \in b + 1 .. n - 3 : LineAt(t, f, b, e)
        BY <1>4, <2>4, <4>1
      <4>3. \A r, more : more > 0 /\ LinePlace(t, b, e, m + 1, r) => OnLine(t, f, m + 1, r, more)
        BY <1>1, <2>4, <4>2 DEF OnLine, LineAt
      <4>4. CASE HeaderAt(t, b, e)
        <5>1. PICK colon \in b + 1 .. e - 2 : HeaderParts(t, b, colon, e)
          BY <4>4 DEF HeaderAt
        <5>2. t[m + 1] \in Token
          BY <3>0, <5>1 DEF HeaderParts, AllIn
        <5>3. t[m + 1] \notin Lws /\ t[m + 1] # "cr"
          BY <5>2, CharClasses
        <5>4. LinePlace(t, b, e, m + 1, "header_name")
          BY <3>0, <5>1 DEF LinePlace
        <5>5. \A r : LineMove(q, headers, t[m + 1], r) <=> r = "header_name"
          BY <2>4, <5>2, <5>3 DEF LineMove
        <5>6. \A more : more > 0 => OnLine(t, f, m + 1, "header_name", more)
          BY <4>3, <5>4
        <5> QED BY <5>5, <5>6
      <4>5. CASE ContinuationAt(t, b, e) /\ b # f + 2
        <5>1. PICK i \in b .. e - 1 : ContinuationParts(t, b, i, e)
          BY <4>5 DEF ContinuationAt
        <5>2. t[m + 1] \in Lws
          BY <3>0, <5>1 DEF ContinuationParts, AllIn
        <5>3. t[m + 1] \notin Token /\ t[m + 1] # "cr"
          BY <5>2, CharClasses
        <5>4. LinePlace(t, b, e, m + 1, "header_lws")
          BY <3>0, <4>2, <5>1 DEF LinePlace
        <5>5. headers > 0
          BY <2>4, <4>5
        <5>6. \A r : LineMove(q, headers, t[m + 1], r) <=> r = "header_lws"
          BY <2>4, <5>2, <5>3, <5>5 DEF LineMove
        <5>7. \A more : more > 0 => OnLine(t, f, m + 1, "header_lws", more)
          BY <4>3, <5>4
        <5>8. \A more \in Nat : more >= headers => more > 0
          BY <5>5
        <5> QED BY <5>6, <5>7, <5>8
      <4> QED BY <4>2, <4>4, <4>5 DEF LineAt
    <3> QED BY <3>1, <3>2
  <2>5. ASSUME headers > 0, NEW b \in f + 2 .. n - 1, t[b - 2] = "cr",
               NEW e \in b + 1 .. n - 3, t[e] = "cr", LinePlace(t, b, e, m, q), m < e
        PROVE  /\ \E r : LineMove(q, headers, t[m + 1], r)
               /\ \A r : \A more \in Nat :
                     LineMove(q, headers, t[m + 1], r) /\ more >= headers => OnLine(t, f, m + 1, r, more)
    <3>1. /\ \E r : LineMove(q, headers, t[m + 1], r)
          /\ \A r : LineMove(q, headers, t[m + 1], r) => LinePlace(t, b, e, m + 1, r)
      <4>1. b \in Nat /\ e \in Nat
        OBVIOUS
      <4> QED BY <2>5, <4>1, LinePlaceStep
    <3>2. \A r, more : more > 0 /\ LinePlace(t, b, e, m + 1, r) => OnLine(t, f, m + 1, r, more)
      BY <1>1, <2>5 DEF OnLine
    <3>3. \A more \in Nat : more >= headers => more > 0
      BY <2>5
    <3> QED BY <3>1, <3>2, <3>3
  <2>6. ASSUME headers > 0, NEW b \in f + 2 .. n - 1, t[b - 2] = "cr",
               NEW e \in b + 1 .. n - 3, t[e] = "cr", LinePlace(t, b, e, m, q), m >= e
        PROVE  /\ \E r : LineMove(q, headers, t[m + 1], r)
               /\ \A r : \A more \in Nat :
                     LineMove(q, headers, t[m + 1], r) /\ more >= headers => OnLine(t, f, m + 1, r, more)
    <3>1. q = "expecting_newline_2" /\ m = e
      BY <2>6 DEF LinePlace
    <3>2. t[m + 1] = "lf"
      BY <1>2, <2>6, <3>1
    <3>3. PICK d \in f + 2 .. n - 1 : d = e + 2 /\ d - 2 = e /\ m + 1 = d - 1
      <4>1. e + 2 \in f + 2 .. n - 1 /\ (e + 2) - 2 = e /\ m + 1 = (e + 2) - 1
        BY <3>1
      <4> QED BY <4>1
    <3>4. \A more : more > 0 => OnLine(t, f, m + 1, "header_line_start", more)
      BY <1>1, <2>6, <3>3 DEF OnLine
    <3>5. \A r : LineMove(q, headers, t[m + 1], r) <=> r = "header_line_start"
      BY <3>1, <3>2 DEF LineMove
    <3>6. \A more \in Nat : more >= headers => more > 0
      BY <2>6
    <3> QED BY <3>4, <3>5, <3>6
  <2>7. ASSUME q = "expecting_newline_3", m = n - 1
        PROVE  /\ \E r : NewlineMove(q, t[m + 1], r)
               /\ \A r : \A more \in Nat : NewlineMove(q, t[m + 1], r) => OnLine(t, f, m + 1, r, more)
               /\ \A r : ~LineMove(q, headers, t[m + 1], r)
    <3>1. t[m + 1] = "lf" /\ m + 1 = n
      BY <1>2, <2>7
    <3>2. \A h : OnLine(t, f, m + 1, "complete", h)
      BY <1>1, <3>1 DEF OnLine
    <3> QED BY <2>7, <3>1, <3>2 DEF NewlineMove, LineMove
  <2>8. \/ /\ q # "expecting_newline_3"
           /\ \E b \in f + 2 .. n - 1 :
                /\ t[b - 2] = "cr"
                /\ \/ q = "header_line_start" /\ m = b - 1 /\ (b = f + 2 \/ headers > 0)
                   \/ headers > 0 /\ \E e \in b + 1 .. n - 3 : t[e] = "cr" /\ LinePlace(t, b, e, m, q)
        \/ q = "expecting_newline_3" /\ m = n - 1
    <3>1. ~(q = "complete" /\ m = n)
      BY <1>1
    <3>2. \A b, e : LinePlace(t, b, e, m, q) => q # "expecting_newline_3"
      BY DEF LinePlace
    <3> QED BY <1>1, <1>6, <3>1, <3>2 DEF OnLine
  <2>9. CASE q = "expecting_newline_3" /\ m = n - 1
    BY <2>2, <2>7, <2>9 DEF AnyMove
  <2>10. ASSUME q # "expecting_newline_3", NEW b \in f + 2 .. n - 1, t[b - 2] = "cr",
                \/ q = "header_line_start" /\ m = b - 1 /\ (b = f + 2 \/ headers > 0)
                \/ headers > 0 /\ \E e \in b + 1 .. n - 3 : t[e] = "cr" /\ LinePlace(t, b, e, m, q)
         PROVE  /\ \E r : LineMove(q, headers, t[m + 1], r)
                /\ \A r : \A more \in Nat :
                      /\ LineMove(q, headers, t[m + 1], r)
                      /\ more >= headers
                      /\ q = "header_line_start" /\ r = "header_name" => more > 0
                      => OnLine(t, f, m + 1, r, more)
    <3>1. CASE q = "header_line_start" /\ m = b - 1 /\ (b = f + 2 \/ headers > 0)
      BY <2>4, <2>10, <3>1
    <3>2. CASE headers > 0 /\ \E e \in b + 1 .. n - 3 : t[e] = "cr" /\ LinePlace(t, b, e, m, q)
      <4>1. PICK e \in b + 1 .. n - 3 : t[e] = "cr" /\ LinePlace(t, b, e, m, q)
        BY <3>2
      <4>2. CASE m < e
        BY <2>5, <2>10, <3>2, <4>1, <4>2
      <4>3. CASE m >= e
        BY <2>6, <2>10, <3>2, <4>1, <4>3
      <4> QED BY <4>2, <4>3
    <3> QED BY <2>10, <3>1, <3>2
  <2>11. CASE q # "expecting_newline_3"
    BY <2>2, <2>3, <2>8, <2>10, <2>11 DEF AnyMove
  <2> QED BY <2>8, <2>9, <2>11
<1> QED BY <1>5, <1>6

\* No character of a request is refused, and Follows is kept.
LEMMA FollowsStep ==
    ASSUME NEW t \in Seq(Chars), IsRequest(t), NEW m \in Nat, m < Len(t),
           NEW p, p.headers \in Nat, Follows(t, m, p)
    PROVE  /\ Moves(p, t[m + 1]) # {}
           /\ \A next \in Moves(p, t[m + 1]) : Follows(t, m + 1, After(p, t[m + 1], next))
<1>1. PICK f \in Nat : WholeRequest(t, f)
  BY RequestIsWhole
<1>2. \A r : r \in Moves(p, t[m + 1]) <=> AnyMove(p.state, p.headers, t[m + 1], r)
  BY MoveCases DEF AnyMove
<1>3. Moves(p, t[m + 1]) # {}
  <2>1. OnFirstLine(t, f, m, p.state) \/ OnLine(t, f, m, p.state, p.headers)
    BY <1>1 DEF Follows
  <2>2. \E r : AnyMove(p.state, p.headers, t[m + 1], r)
    BY <1>1, <2>1, PlaceStep
  <2> QED BY <1>2, <2>2
<1>4. ASSUME NEW next \in Moves(p, t[m + 1]), NEW g \in Nat, WholeRequest(t, g), NEW pp, pp = After(p, t[m + 1], next)
      PROVE  OnFirstLine(t, g, m + 1, pp.state) \/ OnLine(t, g, m + 1, pp.state, pp.headers)
  <2>1. OnFirstLine(t, g, m, p.state) \/ OnLine(t, g, m, p.state, p.headers)
    BY <1>4 DEF Follows
  <2>2. /\ pp.state = next /\ pp.headers \in Nat /\ pp.headers >= p.headers
        /\ p.state = "header_line_start" /\ next = "header_name" => pp.headers > 0
    BY <1>4, AfterFields
  <2>3. AnyMove(p.state, p.headers, t[m + 1], next)
    BY <1>2, <1>4
  <2>5. PICK q : q = p.state
    OBVIOUS
  <2>9. PICK h \in Nat : h = p.headers
    OBVIOUS
  <2>6. PICK more \in Nat : more = pp.headers
    BY <2>2
  <2>7. /\ AnyMove(q, h, t[m + 1], next)
        /\ more >= h
        /\ q = "header_line_start" /\ next = "header_name" => more > 0
    BY <2>2, <2>3, <2>5, <2>6, <2>9
  <2>10. OnFirstLine(t, g, m, q) \/ OnLine(t, g, m, q, h)
    BY <2>1, <2>5, <2>9
  <2>8. OnFirstLine(t, g, m + 1, next) \/ OnLine(t, g, m + 1, next, more)
    <3>1. \A r : \A l \in Nat :
            /\ AnyMove(q, h, t[m + 1], r)
            /\ l >= h
            /\ q = "header_line_start" /\ r = "header_name" => l > 0
            => OnFirstLine(t, g, m + 1, r) \/ OnLine(t, g, m + 1, r, l)
      BY <1>4, <2>10, PlaceStep
    <3> QED BY <2>7, <3>1
  <2> QED BY <2>2, <2>6, <2>8
<1> QED BY <1>3, <1>4 DEF Follows

\* Follows holds before the first character.
LEMMA FollowsNothing ==
    ASSUME NEW t
    PROVE  Follows(t, 0, NewParser)
<1> SUFFICES ASSUME NEW f \in Nat, WholeRequest(t, f) PROVE OnFirstLine(t, f, 0, "method_start")
  BY DEF Follows, NewParser
<1>1. FirstLine(t, f)
  BY DEF WholeRequest, LinesTo
<1>2. PICK i \in 1 .. f, j \in 1 .. f, dot \in 1 .. f : RequestLineParts(t, i, j, dot, f)
  BY <1>1 DEF FirstLine
<1> QED BY <1>2 DEF OnFirstLine, FirstLinePlace

-----------------------------------------------------------------------------
(* All that is known of a parser after n characters. *)

\* Of a text that begins with them.
Tracks(t, n, p) ==
    /\ Reads(t, n, p)
    /\ UriRead(t, n, p)
    /\ IsRequest(t) => Follows(t, n, p)

\* A character that is not refused keeps all three.
LEMMA TracksStep ==
    ASSUME NEW t \in Seq(Chars), NEW n \in Nat, n < Len(t), NEW p, p.headers \in Nat, NEW next,
           next \in Moves(p, t[n + 1]), Tracks(t, n, p)
    PROVE  Tracks(t, n + 1, After(p, t[n + 1], next))
BY ReadsStep, UriReadStep, FollowsStep DEF Tracks

\* They hold before the first character.
LEMMA TracksNothing ==
    ASSUME NEW t
    PROVE  Tracks(t, 0, NewParser)
BY ReadsNothing, UriReadNothing, FollowsNothing DEF Tracks

\* A text that made the automaton complete is a request, and its uri was read.
LEMMA CompleteIsRequest ==
    ASSUME NEW s \in Seq(Chars), NEW p, Tracks(s, Len(s), p), p.state = "complete"
    PROVE  IsRequest(s) /\ p.uri = UriOf(s)
<1>1. PICK n \in Nat : n = Len(s)
  OBVIOUS
<1>2. s[n - 1] = "cr" /\ s[n] = "lf" /\ \E f \in Nat : LinesTo(s, f, n - 1)
  <2>1. p.state \notin FirstLineStates /\ p.state \notin LineStates
    BY DEF FirstLineStates, LineStates
  <2> QED BY <1>1, <2>1, WhereStatesAre DEF Tracks, Reads
<1>3. IsRequest(s)
  <2>1. PICK f \in Nat : WholeRequest(s, f)
    BY <1>1, <1>2 DEF WholeRequest
  <2> QED BY <2>1, WholeIsRequest
<1>4. PICK i \in 1 .. Len(s), j \in 1 .. Len(s) : TwoSpaces(s, i, j) /\ p.uri = SubSeq(s, i + 1, j - 1)
  BY DEF Tracks, UriRead
<1> QED BY <1>3, <1>4, UriIsRead

\* A request is complete at its last character and not before.
LEMMA RequestIsComplete ==
    ASSUME NEW t \in Seq(Chars), IsRequest(t), NEW n \in 0 .. Len(t), NEW p, Tracks(t, n, p)
    PROVE  p.state = "complete" <=> n = Len(t)
<1>1. PICK f \in Nat : WholeRequest(t, f)
  BY RequestIsWhole
<1>2. OnFirstLine(t, f, n, p.state) \/ OnLine(t, f, n, p.state, p.headers)
  BY <1>1 DEF Tracks, Follows
<1>3. f + 2 <= Len(t) - 1 /\ FirstLine(t, f) /\ f >= 9
  <2>1. LinesTo(t, f, Len(t) - 1)
    BY <1>1 DEF WholeRequest
  <2> QED BY <2>1, LinesAreLines DEF LinesTo
<1>4. CASE OnFirstLine(t, f, n, p.state)
  <2>1. PICK i \in 1 .. f, j \in 1 .. f, dot \in 1 .. f :
            RequestLineParts(t, i, j, dot, f) /\ FirstLinePlace(i, j, dot, f, n, p.state)
    BY <1>4 DEF OnFirstLine
  <2>2. 1 < i /\ i < j /\ j + 6 < dot /\ dot + 1 < f
    BY <2>1 DEF RequestLineParts, UriTo, MethodTo, MajorTo
  <2>3. p.state # "complete" /\ n <= f
    BY <2>1, <2>2 DEF FirstLinePlace
  <2> QED BY <1>3, <2>3
<1>5. CASE OnLine(t, f, n, p.state, p.headers)
  <2>1. CASE \E b \in f + 2 .. Len(t) - 1 :
                /\ t[b - 2] = "cr"
                /\ p.state = "header_line_start" /\ n = b - 1
    BY <2>1
  <2>2. CASE \E b \in f + 2 .. Len(t) - 1 : \E e \in b + 1 .. Len(t) - 3 : t[e] = "cr" /\ LinePlace(t, b, e, n, p.state)
    <3>0. PICK b \in f + 2 .. Len(t) - 1 : \E e \in b + 1 .. Len(t) - 3 : LinePlace(t, b, e, n, p.state)
      BY <2>2
    <3>1. PICK e \in b + 1 .. Len(t) - 3 : LinePlace(t, b, e, n, p.state)
      BY <3>0
    <3>2. p.state # "complete" /\ n <= e
      BY <3>1 DEF LinePlace
    <3> QED BY <3>1, <3>2
  <2>3. CASE p.state = "expecting_newline_3" /\ n = Len(t) - 1
    BY <2>3
  <2> QED BY <1>5, <2>1, <2>2, <2>3 DEF OnLine
<1> QED BY <1>2, <1>4, <1>5

-----------------------------------------------------------------------------
(* Something can follow what was not refused: Rest leads to a request.      *)

\* The characters of Rest.
LEMMA RestChars ==
    /\ Rest \in Seq(Chars) /\ Len(Rest) = 20
    /\ Rest[1] \in Token /\ Rest[2] \in Space /\ Rest[3] \in Space
    /\ Rest[4] = "H" /\ Rest[5] = "T" /\ Rest[6] = "T" /\ Rest[7] = "P" /\ Rest[8] = "/"
    /\ Rest[9] \in Digits /\ Rest[10] = "." /\ Rest[11] \in Digits
    /\ Rest[12] = "cr" /\ Rest[13] = "lf"
    /\ Rest[14] \in Token /\ Rest[15] = ":" /\ Rest[16] \in Space
    /\ Rest[17] = "cr" /\ Rest[18] = "lf" /\ Rest[19] = "cr" /\ Rest[20] = "lf"
<1>1. PICK space \in Space :
          Rest = <<"g", space, space, "H", "T", "T", "P", "/", "2", ".", "2", "cr", "lf",
                   "g", ":", space, "cr", "lf", "cr", "lf">>
  BY Zenon DEF Rest, Space
<1>2. PICK g \in Chars, h \in Chars, t \in Chars, p \in Chars, slash \in Chars, two \in Chars,
           dot \in Chars, cr \in Chars, lf \in Chars, colon \in Chars :
          /\ g = "g" /\ h = "H" /\ t = "T" /\ p = "P" /\ slash = "/" /\ two = "2"
          /\ dot = "." /\ cr = "cr" /\ lf = "lf" /\ colon = ":"
  BY CharsAssumption
<1>3. space \in Chars
  BY CharClasses
<1>4. <<g, space, space, h, t, t, p, slash, two, dot, two, cr, lf,
        g, colon, space, cr, lf, cr, lf>> \in Seq(Chars)
  BY <1>3
<1>5. g \in Token
  <2>1. "g" \notin Space
    BY Zenon DEF Space
  <2> QED BY <1>2, <2>1 DEF Token, Ctl, Tspecial
<1>6. two \in Digits
  BY <1>2 DEF Digits
<1>7. Rest = <<g, space, space, h, t, t, p, slash, two, dot, two, cr, lf,
               g, colon, space, cr, lf, cr, lf>>
  BY <1>1, <1>2
<1>8. /\ Len(Rest) = 20
      /\ Rest[1] = g /\ Rest[2] = space /\ Rest[3] = space
      /\ Rest[4] = h /\ Rest[5] = t /\ Rest[6] = t /\ Rest[7] = p /\ Rest[8] = slash
      /\ Rest[9] = two /\ Rest[10] = dot /\ Rest[11] = two
      /\ Rest[12] = cr /\ Rest[13] = lf
      /\ Rest[14] = g /\ Rest[15] = colon /\ Rest[16] = space
      /\ Rest[17] = cr /\ Rest[18] = lf /\ Rest[19] = cr /\ Rest[20] = lf
  BY <1>7
<1> QED BY <1>1, <1>2, <1>4, <1>5, <1>6, <1>7, <1>8

\* In state q, what follows can be Rest from its ith character on.
Ready(q, i) ==
    \/ q = "method_start" /\ i = 1
    \/ q = "method" /\ i = 2
    \/ q = "uri" /\ i = 3
    \/ q = "http_version_h" /\ i = 4
    \/ q = "http_version_t_1" /\ i = 5
    \/ q = "http_version_t_2" /\ i = 6
    \/ q = "http_version_p" /\ i = 7
    \/ q = "http_version_slash" /\ i = 8
    \/ q = "http_version_major_start" /\ i = 9
    \/ q = "http_version_major" /\ i = 10
    \/ q = "http_version_minor_start" /\ i = 11
    \/ q = "http_version_minor" /\ i = 12
    \/ q = "expecting_newline_1" /\ i = 13
    \/ q = "header_line_start" /\ i \in {14, 19}
    \/ q = "header_name" /\ i = 15
    \/ q = "space_before_header_value" /\ i = 16
    \/ q \in {"header_lws", "header_value"} /\ i = 17
    \/ q = "expecting_newline_2" /\ i = 18
    \/ q = "expecting_newline_3" /\ i = 20
    \/ q = "complete" /\ i = 21

\* After n characters of t comes what is left of Rest from i.
RestFrom(t, n, i) ==
    /\ Len(t) = n + (21 - i)
    /\ \A k \in i .. 20 : t[n + 1 + (k - i)] = Rest[k]

\* The automaton takes the next character of Rest, and is ready for the one after.
LEMMA ReadyStep ==
    ASSUME NEW q, NEW i \in 1 .. 20, Ready(q, i), NEW headers
    PROVE  \E r : AnyMove(q, headers, Rest[i], r) /\ Ready(r, i + 1)
<1>1. CASE i = 1 /\ q = "method_start"
  <2>1. FirstLineMove(q, Rest[i], "method") /\ Ready("method", i + 1)
    BY <1>1, RestChars DEF FirstLineMove, Ready
  <2> QED BY <2>1 DEF AnyMove
<1>2. CASE i = 2 /\ q = "method"
  <2>1. FirstLineMove(q, Rest[i], "uri") /\ Ready("uri", i + 1)
    BY <1>2, RestChars DEF FirstLineMove, Ready
  <2> QED BY <2>1 DEF AnyMove
<1>3. CASE i = 3 /\ q = "uri"
  <2>1. FirstLineMove(q, Rest[i], "http_version_h") /\ Ready("http_version_h", i + 1)
    BY <1>3, RestChars DEF FirstLineMove, Ready
  <2> QED BY <2>1 DEF AnyMove
<1>4. CASE i = 4 /\ q = "http_version_h"
  <2>1. FirstLineMove(q, Rest[i], "http_version_t_1") /\ Ready("http_version_t_1", i + 1)
    BY <1>4, RestChars DEF FirstLineMove, Ready
  <2> QED BY <2>1 DEF AnyMove
<1>5. CASE i = 5 /\ q = "http_version_t_1"
  <2>1. FirstLineMove(q, Rest[i], "http_version_t_2") /\ Ready("http_version_t_2", i + 1)
    BY <1>5, RestChars DEF FirstLineMove, Ready
  <2> QED BY <2>1 DEF AnyMove
<1>6. CASE i = 6 /\ q = "http_version_t_2"
  <2>1. FirstLineMove(q, Rest[i], "http_version_p") /\ Ready("http_version_p", i + 1)
    BY <1>6, RestChars DEF FirstLineMove, Ready
  <2> QED BY <2>1 DEF AnyMove
<1>7. CASE i = 7 /\ q = "http_version_p"
  <2>1. FirstLineMove(q, Rest[i], "http_version_slash") /\ Ready("http_version_slash", i + 1)
    BY <1>7, RestChars DEF FirstLineMove, Ready
  <2> QED BY <2>1 DEF AnyMove
<1>8. CASE i = 8 /\ q = "http_version_slash"
  <2>1. FirstLineMove(q, Rest[i], "http_version_major_start") /\ Ready("http_version_major_start", i + 1)
    BY <1>8, RestChars DEF FirstLineMove, Ready
  <2> QED BY <2>1 DEF AnyMove
<1>9. CASE i = 9 /\ q = "http_version_major_start"
  <2>1. FirstLineMove(q, Rest[i], "http_version_major") /\ Ready("http_version_major", i + 1)
    BY <1>9, RestChars DEF FirstLineMove, Ready
  <2> QED BY <2>1 DEF AnyMove
<1>10. CASE i = 10 /\ q = "http_version_major"
  <2>1. FirstLineMove(q, Rest[i], "http_version_minor_start") /\ Ready("http_version_minor_start", i + 1)
    BY <1>10, RestChars DEF FirstLineMove, Ready
  <2> QED BY <2>1 DEF AnyMove
<1>11. CASE i = 11 /\ q = "http_version_minor_start"
  <2>1. FirstLineMove(q, Rest[i], "http_version_minor") /\ Ready("http_version_minor", i + 1)
    BY <1>11, RestChars DEF FirstLineMove, Ready
  <2> QED BY <2>1 DEF AnyMove
<1>12. CASE i = 12 /\ q = "http_version_minor"
  <2>1. FirstLineMove(q, Rest[i], "expecting_newline_1") /\ Ready("expecting_newline_1", i + 1)
    BY <1>12, RestChars DEF FirstLineMove, Ready
  <2> QED BY <2>1 DEF AnyMove
<1>13. CASE i = 14 /\ q = "header_line_start"
  <2>1. LineMove(q, headers, Rest[i], "header_name") /\ Ready("header_name", i + 1)
    BY <1>13, RestChars DEF LineMove, Ready
  <2> QED BY <2>1 DEF AnyMove
<1>14. CASE i = 15 /\ q = "header_name"
  <2>1. LineMove(q, headers, Rest[i], "space_before_header_value") /\ Ready("space_before_header_value", i + 1)
    BY <1>14, RestChars DEF LineMove, Ready
  <2> QED BY <2>1 DEF AnyMove
<1>15. CASE i = 16 /\ q = "space_before_header_value"
  <2>1. LineMove(q, headers, Rest[i], "header_value") /\ Ready("header_value", i + 1)
    BY <1>15, RestChars DEF LineMove, Ready
  <2> QED BY <2>1 DEF AnyMove
<1>16. CASE i = 17 /\ q \in {"header_lws", "header_value"}
  <2>1. LineMove(q, headers, Rest[i], "expecting_newline_2") /\ Ready("expecting_newline_2", i + 1)
    BY <1>16, RestChars DEF LineMove, Ready
  <2> QED BY <2>1 DEF AnyMove
<1>17. CASE i = 18 /\ q = "expecting_newline_2"
  <2>1. LineMove(q, headers, Rest[i], "header_line_start") /\ Ready("header_line_start", i + 1)
    BY <1>17, RestChars DEF LineMove, Ready
  <2> QED BY <2>1 DEF AnyMove
<1>18. CASE i = 19 /\ q = "header_line_start"
  <2>1. LineMove(q, headers, Rest[i], "expecting_newline_3") /\ Ready("expecting_newline_3", i + 1)
    BY <1>18, RestChars DEF LineMove, Ready
  <2> QED BY <2>1 DEF AnyMove
<1>19. CASE i = 13 /\ q = "expecting_newline_1"
  <2>1. NewlineMove(q, Rest[i], "header_line_start") /\ Ready("header_line_start", i + 1)
    BY <1>19, RestChars DEF NewlineMove, Ready
  <2> QED BY <2>1 DEF AnyMove
<1>20. CASE i = 20 /\ q = "expecting_newline_3"
  <2>1. NewlineMove(q, Rest[i], "complete") /\ Ready("complete", i + 1)
    BY <1>20, RestChars DEF NewlineMove, Ready
  <2> QED BY <2>1 DEF AnyMove
<1> QED
  BY <1>1, <1>2, <1>3, <1>4, <1>5, <1>6, <1>7, <1>8, <1>9, <1>10, <1>11,
     <1>12, <1>13, <1>14, <1>15, <1>16, <1>17, <1>18, <1>19, <1>20 DEF Ready

\* What is left of Rest from i makes a request.
Reaches(i) ==
    \A t \in Seq(Chars) : \A n \in Nat : \A p :
        /\ p.headers \in Nat /\ Reads(t, n, p)
        /\ Ready(p.state, i) /\ RestFrom(t, n, i)
        => IsRequest(t)

\* At the end of Rest there is a request, ...
LEMMA ReachesEnd == Reaches(21)
<1> SUFFICES ASSUME NEW t \in Seq(Chars), NEW n \in Nat, NEW p,
                    Reads(t, n, p), Ready(p.state, 21), RestFrom(t, n, 21)
             PROVE  IsRequest(t)
  BY DEF Reaches
<1>1. p.state = "complete"
  BY DEF Ready
<1>2. Len(t) = n
  BY DEF RestFrom
<1>3. p.state \notin FirstLineStates /\ p.state \notin LineStates
  BY <1>1 DEF FirstLineStates, LineStates
<1>4. t[n - 1] = "cr" /\ t[n] = "lf" /\ \E f \in Nat : LinesTo(t, f, n - 1)
  BY <1>3, WhereStatesAre DEF Reads
<1>5. PICK f \in Nat : WholeRequest(t, f)
  BY <1>2, <1>4 DEF WholeRequest
<1> QED BY <1>5, WholeIsRequest

\* ... and before each of its characters, if there is after it, ...
LEMMA ReachesBefore ==
    ASSUME NEW i \in 1 .. 20, Reaches(i + 1)
    PROVE  Reaches(i)
<1> SUFFICES ASSUME NEW t \in Seq(Chars), NEW n \in Nat, NEW p, p.headers \in Nat,
                    Reads(t, n, p), Ready(p.state, i), RestFrom(t, n, i)
             PROVE  IsRequest(t)
  BY DEF Reaches
<1>1. t[n + 1] = Rest[i]
  <2>1. t[n + 1 + (i - i)] = Rest[i] /\ n + 1 + (i - i) = n + 1
    BY DEF RestFrom
  <2> QED BY <2>1
<1>2. PICK next : AnyMove(p.state, p.headers, t[n + 1], next) /\ Ready(next, i + 1)
  BY <1>1, ReadyStep
<1>3. next \in Moves(p, t[n + 1])
  BY <1>2, MoveCases DEF AnyMove
<1>4. PICK pp : pp = After(p, t[n + 1], next)
  OBVIOUS
<1>5. Reads(t, n + 1, pp)
  BY <1>3, <1>4, ReadsStep
<1>6. pp.state = next /\ pp.headers \in Nat
  BY <1>4, AfterFields
<1>7. RestFrom(t, n + 1, i + 1)
  <2>1. Len(t) = (n + 1) + (21 - (i + 1))
    BY DEF RestFrom
  <2>2. ASSUME NEW k \in i + 1 .. 20 PROVE t[(n + 1) + 1 + (k - (i + 1))] = Rest[k]
    <3>1. k \in i .. 20 /\ (n + 1) + 1 + (k - (i + 1)) = n + 1 + (k - i)
      OBVIOUS
    <3> QED BY <3>1 DEF RestFrom
  <2> QED BY <2>1, <2>2 DEF RestFrom
<1>8. n + 1 \in Nat /\ Ready(pp.state, i + 1)
  BY <1>2, <1>6
<1> QED BY <1>5, <1>6, <1>7, <1>8 DEF Reaches

\* ... so that there is from every place of Rest on.
LEMMA AllReach == \A i \in 1 .. 21 : Reaches(i)
<1>1. PICK T \in SUBSET Nat : \A k : k \in T <=> k \in 0 .. 20 /\ ~Reaches(21 - k)
  <2>1. PICK T : \A k : k \in T <=> k \in 0 .. 20 /\ ~Reaches(21 - k)
    <3>1. \A k : k \in {l \in 0 .. 20 : ~Reaches(21 - l)} <=> k \in 0 .. 20 /\ ~Reaches(21 - k)
      BY Zenon
    <3> QED BY <3>1, Zenon
  <2>2. T \in SUBSET Nat
    BY <2>1
  <2> QED BY <2>1, <2>2
<1>2. T = {}
  <2> SUFFICES ASSUME T # {} PROVE FALSE
    OBVIOUS
  <2>1. PICK m \in T : \A k \in T : m <= k
    BY LeastEnd
  <2>2. m \in 0 .. 20 /\ ~Reaches(21 - m)
    BY <1>1, <2>1
  <2>3. CASE m = 0
    <3>1. 21 - m = 21
      BY <2>3
    <3> QED BY <2>2, <3>1, ReachesEnd
  <2>4. CASE m > 0
    <3>1. PICK k \in 0 .. 19 : k = m - 1 /\ 21 - k = (21 - m) + 1 /\ ~(m <= k)
      <4>1. m - 1 \in 0 .. 19 /\ 21 - (m - 1) = (21 - m) + 1 /\ ~(m <= m - 1)
        BY <2>2, <2>4
      <4> QED BY <4>1
    <3>2. k \notin T
      BY <2>1, <3>1
    <3>3. Reaches((21 - m) + 1)
      BY <1>1, <3>1, <3>2
    <3>4. 21 - m \in 1 .. 20
      BY <2>2, <2>4
    <3> QED BY <2>2, <3>3, <3>4, ReachesBefore
  <2> QED BY <2>2, <2>3, <2>4
<1>3. ASSUME NEW i \in 1 .. 21 PROVE Reaches(i)
  <2>1. 21 - i \in 0 .. 20 /\ 21 - (21 - i) = i
    OBVIOUS
  <2> QED BY <1>1, <1>2, <2>1
<1> QED BY <1>3

\* The places of two texts put together.
LEMMA ConcatParts ==
    ASSUME NEW s \in Seq(Chars), NEW u \in Seq(Chars)
    PROVE  /\ s \o u \in Seq(Chars)
           /\ Len(s \o u) = Len(s) + Len(u)
           /\ \A k \in 1 .. Len(s) : (s \o u)[k] = s[k]
           /\ \A k \in 1 .. Len(u) : (s \o u)[Len(s) + k] = u[k]
<1>1. /\ s \o u \in Seq(Chars)
      /\ Len(s \o u) = Len(s) + Len(u)
      /\ \A i \in 1 .. Len(s) + Len(u) : (s \o u)[i] = IF i <= Len(s) THEN s[i] ELSE u[i - Len(s)]
  BY ConcatProperties
<1>2. ASSUME NEW k \in 1 .. Len(s) PROVE (s \o u)[k] = s[k]
  <2>1. k \in 1 .. Len(s) + Len(u) /\ k <= Len(s)
    OBVIOUS
  <2> QED BY <1>1, <2>1
<1>3. ASSUME NEW k \in 1 .. Len(u) PROVE (s \o u)[Len(s) + k] = u[k]
  <2>1. Len(s) + k \in 1 .. Len(s) + Len(u) /\ ~(Len(s) + k <= Len(s)) /\ (Len(s) + k) - Len(s) = k
    OBVIOUS
  <2> QED BY <1>1, <2>1
<1> QED BY <1>1, <1>2, <1>3

\* What was read and not refused can become a request.
LEMMA CanGoOn ==
    ASSUME NEW s \in Seq(Chars), NEW p, p.headers \in Nat, p.state \notin {"complete", "bad"},
           \A t \in Seq(Chars) : Len(t) >= Len(s) /\ Alike(s, t, Len(s)) => Reads(t, Len(s), p)
    PROVE  IsViable(s)
<1>1. PICK n \in Nat : n = Len(s)
  OBVIOUS
<1>2. PICK i \in 1 .. 20 : Ready(p.state, i)
  <2>1. Reads(s, n, p)
    BY <1>1 DEF Alike
  <2>2. p.state \in (FirstLineStates \cup LineStates) \ {"uri_start"}
    BY <2>1, WhereStatesAre
    DEF Reads, InFirstLine, InLine, AfterUri, InMinor, FirstLineStates, LineStates
  <2> QED BY <2>2 DEF Ready, FirstLineStates, LineStates
<1>3. PICK u \in Seq(Chars) : u = SubSeq(Rest, i, Len(Rest)) /\ Len(u) = 21 - i
                              /\ \A k \in 1 .. 21 - i : u[k] = Rest[i + k - 1]
  <2>1. Len(Rest) = 20 /\ Rest \in Seq(Chars)
    BY RestChars
  <2>2. PICK r \in Seq(Chars) : r = Rest
    BY <2>1
  <2>3. Len(r) = 20
    BY <2>1, <2>2
  <2>4. PICK last \in i .. Len(r) : last = 20 /\ last - i + 1 = 21 - i
    BY <2>3
  <2>5. \A k \in i .. last : r[k] \in Chars
    BY <2>2
  <2>6. /\ SubSeq(r, i, last) \in Seq(Chars)
        /\ Len(SubSeq(r, i, last)) = IF i <= last THEN last - i + 1 ELSE 0
        /\ \A k \in 1 .. last - i + 1 : SubSeq(r, i, last)[k] = r[i + k - 1]
    BY <2>4, <2>5, SubSeqProperties
  <2>7. Len(SubSeq(r, i, last)) = 21 - i
    BY <2>4, <2>6
  <2> QED BY <2>1, <2>2, <2>4, <2>6, <2>7
<1>4. PICK t \in Seq(Chars) : /\ t = s \o u
                              /\ Len(t) = Len(s) + Len(u)
                              /\ \A k \in 1 .. Len(s) : t[k] = s[k]
                              /\ \A k \in 1 .. Len(u) : t[Len(s) + k] = u[k]
  BY ConcatParts
<1>5. /\ Len(t) = n + (21 - i)
      /\ \A k \in 1 .. n : t[k] = s[k]
      /\ \A k \in 1 .. 21 - i : t[n + k] = u[k]
  BY <1>1, <1>3, <1>4
<1>6. Alike(s, t, n) /\ Len(t) >= n
  BY <1>5 DEF Alike
<1>7. Reads(t, n, p)
  BY <1>1, <1>6
<1>8. RestFrom(t, n, i)
  <2> SUFFICES ASSUME NEW k \in i .. 20 PROVE t[n + 1 + (k - i)] = Rest[k]
    BY <1>5 DEF RestFrom
  <2>1. PICK l \in 1 .. 21 - i : l = k - i + 1 /\ n + l = n + 1 + (k - i) /\ i + l - 1 = k
    <3>1. k - i + 1 \in 1 .. 21 - i /\ n + (k - i + 1) = n + 1 + (k - i) /\ i + (k - i + 1) - 1 = k
      OBVIOUS
    <3> QED BY <3>1
  <2>2. t[n + l] = u[l]
    BY <1>5
  <2>3. u[l] = Rest[i + l - 1]
    BY <1>3
  <2> QED BY <2>1, <2>2, <2>3
<1>9. Reaches(i)
  <2>1. i \in 1 .. 21
    OBVIOUS
  <2> QED BY <2>1, AllReach
<1>10. IsRequest(t)
  BY <1>2, <1>7, <1>8, <1>9 DEF Reaches
<1>11. i \in DOMAIN Rest
  BY RestChars
<1> QED BY <1>3, <1>4, <1>10, <1>11 DEF IsViable

\* Once a character is refused, nothing makes a request of what was read.
LEMMA NothingFollows ==
    ASSUME NEW s \in Seq(Chars), NEW n \in Nat, Len(s) = n + 1, NEW p, p.headers \in Nat,
           Moves(p, s[n + 1]) = {},
           \A t \in Seq(Chars) : Len(t) >= n /\ Alike(s, t, n) => Tracks(t, n, p)
    PROVE  ~IsRequest(s) /\ ~IsViable(s)
<1>1. ASSUME NEW t \in Seq(Chars), Len(t) >= n + 1, Alike(s, t, n + 1) PROVE ~IsRequest(t)
  <2>1. Alike(s, t, n) /\ Len(t) >= n /\ n < Len(t) /\ t[n + 1] = s[n + 1]
    BY <1>1 DEF Alike
  <2>2. IsRequest(t) => Follows(t, n, p)
    BY <2>1 DEF Tracks
  <2>3. IsRequest(t) => Moves(p, t[n + 1]) # {}
    BY <2>1, <2>2, FollowsStep
  <2> QED BY <2>1, <2>3
<1>2. ~IsRequest(s)
  BY <1>1 DEF Alike
<1>3. ASSUME NEW i \in DOMAIN Rest PROVE ~IsRequest(s \o SubSeq(Rest, i, Len(Rest)))
  <2>1. PICK r \in Seq(Chars) : r = Rest
    BY RestChars
  <2>2. SubSeq(r, i, Len(r)) \in Seq(Chars)
    BY <2>1
  <2>3. PICK u \in Seq(Chars) : u = SubSeq(r, i, Len(r))
    BY <2>2
  <2>4. PICK t \in Seq(Chars) : /\ t = s \o u
                                /\ Len(t) = Len(s) + Len(u)
                                /\ \A k \in 1 .. Len(s) : t[k] = s[k]
    BY ConcatParts
  <2>5. Len(t) >= n + 1 /\ \A k \in 1 .. n + 1 : t[k] = s[k]
    BY <2>4
  <2> QED BY <1>1, <2>1, <2>3, <2>4, <2>5 DEF Alike
<1> QED BY <1>2, <1>3 DEF IsViable

-----------------------------------------------------------------------------
(* The connections: what is answered follows the grammar. *)

\* What is known of every text that begins with the first n characters of s.
OnTrack(s, n, p) ==
    \A t \in Seq(Chars) : Len(t) >= n /\ Alike(s, t, n) => Tracks(t, n, p)

\* The answer that the grammar asks for.
Answered(c) ==
    \/ IsRequest(Seen(c)) /\ reply_[c] = handle_request(UriOf(Seen(c)))
    \/ reply_[c] = BadRequest /\ ~IsRequest(Seen(c)) /\ ~IsViable(Seen(c))

\* What the parser of a connection knows, and at the end the answer.
AnswerInv(c) ==
    /\ phase[c] \in {"away", "waiting", "reading", "parsing"} =>
          OnTrack(text[c], parsed[c], parser[c]) /\ parser[c].state \notin {"complete", "bad"}
    /\ phase[c] = "handling" =>
          OnTrack(text[c], parsed[c], parser[c]) /\ parser[c].state = "complete"
    /\ phase[c] = "writing" => Answered(c)

\* The inductive invariant of AnswersFollowGrammar.
GrammarInv ==
    /\ Inv
    /\ reply_ = [c \in Connections |-> reply_[c]]
    /\ \A c \in Connections : AnswerInv(c)

\* What went through the parser is a text that begins like the one that was sent.
LEMMA SeenIsPart ==
    ASSUME NEW s \in Seq(Chars), NEW n \in 0 .. Len(s)
    PROVE  /\ SubSeq(s, 1, n) \in Seq(Chars) /\ Len(SubSeq(s, 1, n)) = n
           /\ Alike(s, SubSeq(s, 1, n), n)
           /\ \A t : Alike(SubSeq(s, 1, n), t, n) => Alike(s, t, n)
<1>1. SubSeq(s, 1, n) \in Seq(Chars) /\ Len(SubSeq(s, 1, n)) = n
  OBVIOUS
<1>2. \A k \in 1 .. n : SubSeq(s, 1, n)[k] = s[k]
  OBVIOUS
<1> QED BY <1>1, <1>2 DEF Alike

\* Before the first character it does not matter which text comes.
LEMMA OnTrackAtStart ==
    ASSUME NEW s, NEW p, OnTrack(s, 0, p)
    PROVE  \A t : OnTrack(t, 0, p)
BY DEF OnTrack, Alike

\* A character that is not refused keeps OnTrack.
LEMMA OnTrackStep ==
    ASSUME NEW s \in Seq(Chars), NEW n \in Nat, n < Len(s), NEW p, p.headers \in Nat,
           OnTrack(s, n, p), NEW next \in Moves(p, s[n + 1])
    PROVE  OnTrack(s, n + 1, After(p, s[n + 1], next))
<1> SUFFICES ASSUME NEW t \in Seq(Chars), Len(t) >= n + 1, Alike(s, t, n + 1)
             PROVE  Tracks(t, n + 1, After(p, s[n + 1], next))
  BY DEF OnTrack
<1>1. Alike(s, t, n) /\ t[n + 1] = s[n + 1] /\ Len(t) >= n /\ n < Len(t)
  BY DEF Alike
<1>2. Tracks(t, n, p)
  BY <1>1 DEF OnTrack
<1> QED BY <1>1, <1>2, TracksStep

\* A character that is refused has no move: bad is not one.
LEMMA NeverBad ==
    ASSUME NEW p, NEW x
    PROVE  "bad" \notin Moves(p, x)
<1>1. ~AnyMove(p.state, p.headers, x, "bad")
  BY DEF AnyMove, FirstLineMove, LineMove, NewlineMove
<1> QED BY <1>1, MoveCases DEF AnyMove

\* A byte that goes through the parser keeps what is said of its connection.
LEMMA ParseByteAnswers ==
    ASSUME Inv, reply_ = [d \in Connections |-> reply_[d]],
           NEW c \in Connections, AnswerInv(c), phase[c] = "parsing", ParseByte(c, parser[c])
    PROVE  AnswerInv(c)'
<1>1. PICK s \in Seq(Chars), n \in Nat, p \in Parsers :
          /\ s = text[c] /\ n = parsed[c] /\ p = parser[c]
          /\ n < Len(s)
  BY DEF Inv, TypeOK
<1>2. p.headers \in Nat
  BY DEF Parsers
<1>3. OnTrack(s, n, p)
  BY <1>1 DEF AnswerInv
<1>4. text'[c] = s /\ parsed'[c] = n + 1
  BY <1>1 DEF ParseByte, Inv, TypeOK
<1>5. PICK seen \in Seq(Chars) : /\ seen = SubSeq(s, 1, n + 1) /\ Len(seen) = n + 1
                                 /\ Alike(s, seen, n + 1)
                                 /\ \A t : Alike(seen, t, n + 1) => Alike(s, t, n + 1)
  <2>1. n + 1 \in 0 .. Len(s)
    BY <1>1
  <2> QED BY <2>1, SeenIsPart
<1>6. Seen(c)' = seen
  BY <1>4, <1>5 DEF Seen
<1>7. CASE \E next \in Moves(p, s[n + 1]) : /\ parser' = [parser EXCEPT ![c] = After(p, s[n + 1], next)]
                                            /\ AfterConsume(c, next)
  <2>1. PICK next \in Moves(p, s[n + 1]) : /\ parser' = [parser EXCEPT ![c] = After(p, s[n + 1], next)]
                                           /\ AfterConsume(c, next)
    BY <1>7
  <2>2. parser'[c] = After(p, s[n + 1], next)
    BY <2>1 DEF Inv, TypeOK
  <2>3. parser'[c].state = next
    BY <2>2, AfterFields
  <2>4. OnTrack(text'[c], parsed'[c], parser'[c])
    BY <1>1, <1>2, <1>3, <1>4, <2>2, OnTrackStep
  <2>5. next # "bad"
    BY NeverBad
  <2>6. \/ phase'[c] = "handling" /\ next = "complete"
        \/ phase'[c] \in {"reading", "parsing"} /\ next # "complete"
    BY <2>1, <2>5 DEF AfterConsume, Goto, Inv, TypeOK
  <2> QED BY <2>3, <2>4, <2>5, <2>6 DEF AnswerInv
<1>8. CASE Moves(p, s[n + 1]) = {} /\ AfterConsume(c, "bad") /\ reply_' = [reply_ EXCEPT ![c] = BadRequest]
  <2>1. phase'[c] = "writing"
    BY <1>8 DEF AfterConsume, Goto, Inv, TypeOK
  <2>2. reply_'[c] = BadRequest
    BY <1>8
  <2>3. seen[n + 1] = s[n + 1]
    BY <1>5 DEF Alike
  <2>4. \A t \in Seq(Chars) : Len(t) >= n /\ Alike(seen, t, n) => Tracks(t, n, p)
    <3>1. \A t : Alike(seen, t, n) => Alike(s, t, n)
      BY <1>5 DEF Alike
    <3> QED BY <1>3, <3>1 DEF OnTrack
  <2>5. ~IsRequest(seen) /\ ~IsViable(seen)
    BY <1>2, <1>5, <1>8, <2>3, <2>4, NothingFollows
  <2> QED BY <1>6, <2>1, <2>2, <2>5 DEF AnswerInv, Answered
<1> QED BY <1>1, <1>7, <1>8 DEF ParseByte

\* So does the handler, which is given the uri of the request.
LEMMA HandleRequestAnswers ==
    ASSUME Inv, reply_ = [d \in Connections |-> reply_[d]],
           NEW c \in Connections, AnswerInv(c), HandleRequest(c)
    PROVE  AnswerInv(c)'
<1>1. PICK s \in Seq(Chars), n \in Nat, p \in Parsers :
          s = text[c] /\ n = parsed[c] /\ p = parser[c] /\ n \in 0 .. Len(s)
  BY DEF Inv, TypeOK
<1>2. OnTrack(s, n, p) /\ p.state = "complete"
  BY <1>1 DEF AnswerInv, HandleRequest
<1>3. PICK seen \in Seq(Chars) : seen = SubSeq(s, 1, n) /\ Len(seen) = n /\ Alike(s, seen, n)
  BY <1>1, SeenIsPart
<1>4. Tracks(seen, Len(seen), p)
  <2>1. n \in Nat /\ Len(seen) >= n
    BY <1>1, <1>3
  <2>2. Tracks(seen, n, p)
    BY <1>2, <1>3, <2>1 DEF OnTrack
  <2> QED BY <1>3, <2>2
<1>5. IsRequest(seen) /\ p.uri = UriOf(seen)
  BY <1>2, <1>4, CompleteIsRequest
<1>6. Seen(c)' = seen
  BY <1>1, <1>3 DEF Seen, HandleRequest
<1>7. reply_'[c] = handle_request(p.uri) /\ phase'[c] = "writing"
  BY <1>1 DEF HandleRequest, Goto, Inv, TypeOK
<1> QED BY <1>5, <1>6, <1>7 DEF AnswerInv, Answered

\* A connection that a step leaves alone.
LEMMA LeftAlone ==
    ASSUME NEW c \in Connections, AnswerInv(c),
           text'[c] = text[c], parsed'[c] = parsed[c], parser'[c] = parser[c], reply_'[c] = reply_[c],
           \/ phase'[c] = phase[c]
           \/ phase'[c] = "closed"
           \/ /\ phase[c] \in {"away", "waiting", "reading", "parsing"}
              /\ phase'[c] \in {"away", "waiting", "reading", "parsing"}
    PROVE  AnswerInv(c)'
<1>1. Seen(c)' = Seen(c)
  BY DEF Seen
<1> QED BY <1>1 DEF AnswerInv, Answered

\* Nobody sets the reply of another connection.
LEMMA ReplyStays ==
    ASSUME reply_ = [d \in Connections |-> reply_[d]], [Next]_vars
    PROVE  /\ reply_' = [d \in Connections |-> reply_'[d]]
           /\ \A c, d \in Connections : d # c /\ (HandleRequest(c) \/ Consume(c)) => reply_'[d] = reply_[d]
<1>1. ASSUME NEW c \in Connections, HandleRequest(c) \/ Consume(c)
      PROVE  reply_' = reply_ \/ \E v : reply_' = [reply_ EXCEPT ![c] = v]
  BY <1>1 DEF HandleRequest, Consume, ParseByte
<1>2. reply_' = reply_ \/ \E c \in Connections : \E v : reply_' = [reply_ EXCEPT ![c] = v]
  BY <1>1 DEF Next, Handlers, Connect, HandleAccept, HandleRead, HandleWrite, HandleError,
              HandleAcceptError, Stop, vars, connection
<1>3. reply_' = [d \in Connections |-> reply_'[d]]
  BY <1>2
<1>4. \A c, d \in Connections : d # c /\ (HandleRequest(c) \/ Consume(c)) => reply_'[d] = reply_[d]
  BY <1>1
<1> QED BY <1>3, <1>4

\* Every step keeps the invariant.
LEMMA GrammarKept ==
    ASSUME GrammarInv, [Next]_vars
    PROVE  GrammarInv'
<1>1. /\ Inv
      /\ reply_ = [d \in Connections |-> reply_[d]]
      /\ \A c \in Connections : AnswerInv(c)
  BY DEF GrammarInv
<1>2. Inv'
  BY <1>1, NextKeeps
<1>3. /\ reply_' = [d \in Connections |-> reply_'[d]]
      /\ \A c, d \in Connections : d # c /\ (HandleRequest(c) \/ Consume(c)) => reply_'[d] = reply_[d]
  BY <1>1, ReplyStays
<1>4. TypeOK
  BY <1>1 DEF Inv
<1> SUFFICES ASSUME NEW c \in Connections PROVE AnswerInv(c)'
  BY <1>2, <1>3 DEF GrammarInv
<1>5. AnswerInv(c)
  BY <1>1
<1>6. CASE \E d \in Connections : Connect(d)
  <2>1. PICK d \in Connections : Connect(d)
    BY <1>6
  <2>2. CASE d = c
    <3>1. phase[c] = "away" /\ phase'[c] = "waiting"
      BY <1>4, <2>1, <2>2 DEF Connect, Goto, TypeOK
    <3>2. parsed[c] = 0
      BY <1>1, <3>1 DEF Inv, TypeOK
    <3>3. parsed' = parsed /\ parser' = parser
      BY <2>1 DEF Connect
    <3>4. OnTrack(text[c], 0, parser[c]) /\ parser[c].state \notin {"complete", "bad"}
      BY <1>5, <3>1, <3>2 DEF AnswerInv
    <3>5. OnTrack(text'[c], parsed'[c], parser'[c])
      BY <3>2, <3>3, <3>4, OnTrackAtStart
    <3> QED BY <3>1, <3>3, <3>4, <3>5 DEF AnswerInv
  <2>3. CASE d # c
    BY <1>4, <1>5, <2>1, <2>3, LeftAlone DEF Connect, Goto, TypeOK
  <2> QED BY <2>2, <2>3
<1>7. CASE \E d \in Connections : HandleAccept(d)
  BY <1>4, <1>5, <1>7, LeftAlone DEF HandleAccept, Goto, TypeOK
<1>8. CASE \E d \in Connections : HandleRead(d)
  BY <1>4, <1>5, <1>8, LeftAlone DEF HandleRead, Goto, TypeOK
<1>9. CASE \E d \in Connections : Consume(d)
  <2>1. PICK d \in Connections : Consume(d)
    BY <1>9
  <2>2. CASE d = c
    BY <1>1, <1>5, <2>1, <2>2, ParseByteAnswers DEF Consume
  <2>3. CASE d # c
    <3>1. reply_'[c] = reply_[c]
      BY <1>3, <2>1, <2>3
    <3>2. text' = text /\ parsed'[c] = parsed[c] /\ parser'[c] = parser[c] /\ phase'[c] = phase[c]
      BY <1>4, <2>1, <2>3 DEF Consume, ParseByte, AfterConsume, Goto, TypeOK
    <3> QED BY <1>5, <3>1, <3>2, LeftAlone
  <2> QED BY <2>2, <2>3
<1>10. CASE \E d \in Connections : HandleRequest(d)
  <2>1. PICK d \in Connections : HandleRequest(d)
    BY <1>10
  <2>2. CASE d = c
    BY <1>1, <1>5, <2>1, <2>2, HandleRequestAnswers
  <2>3. CASE d # c
    <3>1. reply_'[c] = reply_[c]
      BY <1>3, <2>1, <2>3
    <3>2. text' = text /\ parsed' = parsed /\ parser' = parser /\ phase'[c] = phase[c]
      BY <1>4, <2>1, <2>3 DEF HandleRequest, Goto, TypeOK
    <3> QED BY <1>5, <3>1, <3>2, LeftAlone
  <2> QED BY <2>2, <2>3
<1>11. CASE \E d \in Connections : HandleWrite(d) \/ HandleError(d)
  BY <1>4, <1>5, <1>11, LeftAlone DEF HandleWrite, HandleError, Goto, TypeOK
<1>12. CASE HandleAcceptError \/ Stop \/ UNCHANGED vars
  BY <1>5, <1>12, LeftAlone DEF HandleAcceptError, Stop, vars, connection
<1> QED BY <1>6, <1>7, <1>8, <1>9, <1>10, <1>11, <1>12 DEF Next, Handlers

\* The first state is in order.
LEMMA GrammarAtStart ==
    ASSUME Init
    PROVE  GrammarInv
<1>1. Inv
  BY InitKeeps
<1>2. reply_ = [d \in Connections |-> reply_[d]]
  BY DEF Init
<1>3. ASSUME NEW c \in Connections PROVE AnswerInv(c)
  <2>1. phase[c] = "away" /\ parsed[c] = 0 /\ parser[c] = NewParser
    BY DEF Init
  <2>2. OnTrack(text[c], 0, NewParser)
    BY TracksNothing DEF OnTrack
  <2>3. NewParser.state \notin {"complete", "bad"}
    BY DEF NewParser
  <2> QED BY <2>1, <2>2, <2>3 DEF AnswerInv
<1> QED BY <1>1, <1>2, <1>3 DEF GrammarInv

\* The invariant implies that the answers follow the grammar.
LEMMA GrammarAnswers ==
    ASSUME GrammarInv
    PROVE  AnswersFollowGrammar
<1> SUFFICES ASSUME NEW c \in Connections
             PROVE  /\ phase[c] = "handling" => IsRequest(Seen(c)) /\ parser[c].uri = UriOf(Seen(c))
                    /\ phase[c] = "writing" => Answered(c)
                    /\ phase[c] \in {"reading", "parsing"} => ~IsRequest(Seen(c))
                    /\ phase[c] = "reading" => IsViable(Seen(c))
  BY DEF AnswersFollowGrammar, Answered
<1>1. AnswerInv(c) /\ Inv
  BY DEF GrammarInv
<1>2. PICK s \in Seq(Chars), n \in Nat, p \in Parsers :
          s = text[c] /\ n = parsed[c] /\ p = parser[c] /\ n \in 0 .. Len(s)
  BY <1>1 DEF Inv, TypeOK
<1>3. PICK seen \in Seq(Chars) : /\ seen = SubSeq(s, 1, n) /\ Len(seen) = n
                                 /\ Alike(s, seen, n)
                                 /\ \A t : Alike(seen, t, n) => Alike(s, t, n)
  BY <1>2, SeenIsPart
<1>4. Seen(c) = seen
  BY <1>2, <1>3 DEF Seen
<1>5. p.headers \in Nat
  BY DEF Parsers
<1>6. ASSUME phase[c] = "handling" PROVE IsRequest(seen) /\ p.uri = UriOf(seen)
  <2>1. OnTrack(s, n, p) /\ p.state = "complete"
    BY <1>1, <1>2, <1>6 DEF AnswerInv
  <2>2. Tracks(seen, Len(seen), p)
    <3>1. n \in Nat /\ Len(seen) >= n
      BY <1>2, <1>3
    <3>2. Tracks(seen, n, p)
      BY <1>3, <2>1, <3>1 DEF OnTrack
    <3> QED BY <1>3, <3>2
  <2> QED BY <2>1, <2>2, CompleteIsRequest
<1>7. ASSUME phase[c] = "reading" PROVE IsViable(seen)
  <2>1. OnTrack(s, n, p) /\ p.state \notin {"complete", "bad"}
    BY <1>1, <1>2, <1>7 DEF AnswerInv
  <2>2. \A t \in Seq(Chars) : Len(t) >= Len(seen) /\ Alike(seen, t, Len(seen)) => Reads(t, Len(seen), p)
    BY <1>3, <2>1 DEF OnTrack, Tracks
  <2> QED BY <1>5, <2>1, <2>2, CanGoOn
<1>8. phase[c] = "writing" => Answered(c)
  BY <1>1 DEF AnswerInv
<1>9. ASSUME phase[c] \in {"reading", "parsing"} PROVE ~IsRequest(seen)
  <2>1. OnTrack(s, n, p) /\ p.state # "complete"
    BY <1>1, <1>2, <1>9 DEF AnswerInv
  <2>2. n \in Nat /\ Len(seen) >= n /\ n \in 0 .. Len(seen)
    BY <1>2, <1>3
  <2>3. Tracks(seen, n, p)
    BY <1>3, <2>1, <2>2 DEF OnTrack
  <2> QED BY <1>3, <2>1, <2>2, <2>3, RequestIsComplete
<1> QED BY <1>2, <1>4, <1>6, <1>7, <1>8, <1>9

-----------------------------------------------------------------------------
(* Theorems *)

\* Whatever clients send and however it is cut into reads, the state is well
\* typed, the parser in a state of its table and never beyond the buffer.
THEOREM HttpTyped == Spec => []TypeOK
<1>1. Inv => TypeOK
    BY DEF Inv
<1> QED  BY <1>1, Invariance, PTL

\* request_parser::consume calls headers.back() only on a vector that is not
\* empty: a continuation line before the first header is refused.
THEOREM LastHeaderAlwaysExists == Spec => []LastHeaderExists
<1>1. Inv => LastHeaderExists
    BY DEF Inv, ParserInv, WithinHeader, LastHeaderExists
<1> QED  BY <1>1, Invariance, PTL

\* handle_read and request_parser::consume, for every text and every way to cut
\* it into reads: a request of the grammar is handled at its last byte, with its
\* own uri; a text is refused only when nothing can make it a request; and the
\* server reads on only when something can.
THEOREM AnswersAlwaysFollowGrammar == Spec => []AnswersFollowGrammar
<1>1. Spec => []GrammarInv
  BY GrammarAtStart, GrammarKept, PTL DEF Spec
<1> QED BY <1>1, GrammarAnswers, PTL
=============================================================================
