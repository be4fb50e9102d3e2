--------------------------- MODULE RequestParser ---------------------------
(***************************************************************************)
(* request_parser: the automaton that reads an HTTP request, and the       *)
(* grammar of the requests it is meant to accept.                          *)
(*                                                                         *)
(* A character is a string.  Those the automaton tells apart by value are  *)
(* " ", "tab", "cr", "lf", "H", "T", "P", "/", ".", ":" and the digits, of *)
(* which "2" and "3" are kept; "ctl", "sep" and "high" stand for other     *)
(* control characters, other separators and bytes above 127; whatever else *)
(* is in Chars is a character of a token, a whole word included.           *)
(***************************************************************************)
EXTENDS Naturals, Sequences, FiniteSets, SequencesExt

CONSTANT Chars

Space    == {" "}
Ctl      == {"cr", "lf", "tab", "ctl"}
Tspecial == Space \cup {"tab", "/", ":", "?", "=", "sep"}
Digits   == Chars \cap {"2", "3"}
NonCtl   == Chars \ Ctl
Visible  == NonCtl \ Space
Token    == Chars \ (Ctl \cup Tspecial \cup {"high"})
Lws      == Space \cup {"tab"}

\* The characters that a request cannot do without are there.
ASSUME CharsAssumption ==
    Space \cup {"cr", "lf", "H", "T", "P", "/", ".", ":", "2", "g"} \subseteq Chars

-----------------------------------------------------------------------------
(* The automaton *)

\* consume: the state, the characters that leave it, the next state.  A
\* character with no move is bad.  "complete" is the answer true.
Transitions == {
    <<"method_start",              Token,           "method">>,
    <<"method",                    Space,           "uri">>,
    <<"method",                    Token,           "method">>,
    <<"uri_start",                 NonCtl,          "uri">>,
    <<"uri",                       Space,           "http_version_h">>,
    <<"uri",                       Visible,         "uri">>,
    <<"http_version_h",            {"H"},           "http_version_t_1">>,
    <<"http_version_t_1",          {"T"},           "http_version_t_2">>,
    <<"http_version_t_2",          {"T"},           "http_version_p">>,
    <<"http_version_p",            {"P"},           "http_version_slash">>,
    <<"http_version_slash",        {"/"},           "http_version_major_start">>,
    <<"http_version_major_start",  Digits,          "http_version_major">>,
    <<"http_version_major",        {"."},           "http_version_minor_start">>,
    <<"http_version_major",        Digits,          "http_version_major">>,
    <<"http_version_minor_start",  Digits,          "http_version_minor">>,
    <<"http_version_minor",        {"cr"},          "expecting_newline_1">>,
    <<"http_version_minor",        Digits,          "http_version_minor">>,
    <<"expecting_newline_1",       {"lf"},          "header_line_start">>,
    <<"header_line_start",         {"cr"},          "expecting_newline_3">>,
    <<"header_line_start",         Lws,             "header_lws">>,
    <<"header_line_start",         Token,           "header_name">>,
    <<"header_lws",                {"cr"},          "expecting_newline_2">>,
    <<"header_lws",                Lws,             "header_lws">>,
    <<"header_lws",                Visible,         "header_value">>,
    <<"header_name",               {":"},           "space_before_header_value">>,
    <<"header_name",               Token,           "header_name">>,
    <<"space_before_header_value", Space,           "header_value">>,
    <<"header_value",              {"cr"},          "expecting_newline_2">>,
    <<"header_value",              NonCtl,          "header_value">>,
    <<"expecting_newline_2",       {"lf"},          "header_line_start">>,
    <<"expecting_newline_3",       {"lf"},          "complete">> }

States == {move[1] : move \in Transitions} \cup {"complete", "bad"}

\* The parser and what it has filled of the request.  Nothing reads the
\* method, the version and the texts of the headers: only their number is kept.
Parsers == [state : States, uri : Seq(Chars), headers : Nat]
NewParser == [state |-> "method_start", uri |-> << >>, headers |-> 0]

\* (mutant) a line that begins with white space always continues a header
FirstLineFolds(p, x) ==
    {move[3] : move \in {m \in Transitions : m[1] = p.state /\ x \in m[2]}}

\* The states x leads to: one, or none.  White space at the start of a line
\* continues the header before it, if there is one.
Moves(p, x) ==
    {move[3] : move \in {m \in Transitions :
        /\ m[1] = p.state
        /\ x \in m[2]
        /\ m[1] = "header_line_start" /\ m[3] = "header_lws" => p.headers > 0}}

After(p, x, next) ==
    [state   |-> next,
     uri     |-> IF p.state \in {"uri_start", "uri"} /\ next = "uri"
                 THEN Append(p.uri, x) ELSE p.uri,
     headers |-> IF p.state = "header_line_start" /\ next = "header_name"
                 THEN p.headers + 1 ELSE p.headers]

\* The states in which a character is added to the name or the value of the
\* last header.
UsesLastHeader == {"header_lws", "header_name", "header_value"}

-----------------------------------------------------------------------------
(* The grammar, on whole texts *)

AllIn(s, i, j, S) == \A k \in i .. j : s[k] \in S

IsRequestLine(line) ==
    \E i, j \in DOMAIN line :
        /\ 1 < i /\ i < j
        /\ AllIn(line, 1, i - 1, Token)
        /\ line[i] \in Space
        /\ AllIn(line, i + 1, j - 1, Visible)
        /\ line[j] \in Space
        /\ j + 8 <= Len(line)
        /\ SubSeq(line, j + 1, j + 5) = <<"H", "T", "T", "P", "/">>
        /\ \E dot \in j + 7 .. Len(line) - 1 :
               /\ line[dot] = "."
               /\ AllIn(line, j + 6, dot - 1, Digits)
               /\ AllIn(line, dot + 1, Len(line), Digits)

IsHeader(line) ==
    \E colon \in 2 .. Len(line) - 1 :
        /\ AllIn(line, 1, colon - 1, Token)
        /\ line[colon] = ":"
        /\ line[colon + 1] \in Space
        /\ AllIn(line, colon + 2, Len(line), NonCtl)

IsContinuation(line) ==
    \E i \in DOMAIN line :
        /\ AllIn(line, 1, i, Lws)
        /\ AllIn(line, i + 1, Len(line), NonCtl)

\* A request line, headers that may go on in lines of their own, an empty line.
IsRequest(s) ==
    LET Ends   == {k \in DOMAIN s : s[k] = "cr"}
        Starts == {1} \cup {k + 2 : k \in Ends}
        line(b) == SubSeq(s, b, (CHOOSE k \in Ends : /\ k >= b
                                                     /\ \A e \in Ends : e >= b => k <= e) - 1)
    IN  /\ Len(s) >= 4
        /\ s[Len(s) - 1] = "cr"
        /\ \A k \in Ends : s[k + 1] = "lf"
        /\ IsRequestLine(line(1))
        /\ \A b \in Starts \ {1, Len(s) - 1, Len(s) + 1} :
               \/ IsHeader(line(b))
               \/ /\ IsContinuation(line(b))
                  /\ b # Len(line(1)) + 3
        /\ Len(s) - 1 \in Starts

\* The shortest ways on from any point of a request.
Rest == <<"g", " ", " ", "H", "T", "T", "P", "/", "2", ".", "2", "cr", "lf",
          "g", ":", " ", "cr", "lf", "cr", "lf">>

\* s is a request that is not complete: something can follow.
IsViable(s) == \E i \in DOMAIN Rest : IsRequest(s \o SubSeq(Rest, i, Len(Rest)))

\* What is between the first two spaces of a request.
UriOf(s) ==
    LET i == CHOOSE k \in DOMAIN s : s[k] \in Space /\ AllIn(s, 1, k - 1, Chars \ Space)
        j == CHOOSE k \in i + 1 .. Len(s) : s[k] \in Space /\ AllIn(s, i + 1, k - 1, Chars \ Space)
    IN  SubSeq(s, i + 1, j - 1)
============================================================================
