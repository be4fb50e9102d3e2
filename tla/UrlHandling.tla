----------------------------- MODULE UrlHandling -----------------------------
(***************************************************************************)
(* A client writes the path of a request, character by character, each as  *)
(* it is or percent-encoded, and request_handler answers for what there    *)
(* is: does the server understand what the client meant?                   *)
(***************************************************************************)
EXTENDS RequestHandler

CONSTANTS
    Written,    \* the characters a client may write
    Beginnings, \* what may be there already, written without encoding
    MaxWritten  \* bound: how many characters are added

\* A percent sign and a plus are not written as they are: nothing tells the
\* server that they are meant.
ASSUME ClientsWritePlainly ==
    /\ Written \subseteq STRING \ {"%", "+"}
    /\ Beginnings \subseteq Seq(STRING \ {"%", "+"})

VARIABLES
    plain,  \* what the client means
    uri,    \* what it sends
    room    \* how many characters may be added

vars == <<plain, uri, room>>

\* How a client may write x.
Encodings(x) ==
    (IF x = " " THEN {<<"+">>} ELSE {<<x>>}) \cup
    {<<"%", d[1], d[2]>> : d \in {d \in (DOMAIN Hex) \X (DOMAIN Hex) :
                                     Char(16 * Hex[d[1]] + Hex[d[2]]) = x}}

Init ==
    /\ plain \in Beginnings
    /\ uri = plain
    /\ room = MaxWritten

Write(x) ==
    /\ room > 0
    /\ room' = room - 1
    /\ plain' = Append(plain, x)
    /\ \E code \in Encodings(x) : uri' = uri \o code

Next == \E x \in Written : Write(x)

Spec == Init /\ [][Next]_vars

-----------------------------------------------------------------------------
(* Properties *)

\* Whatever the client chose to encode, url_decode gives back what it meant.
DecodeInverts == url_decode(uri) = {plain}

\* What the client meant to ask for.  The last question mark that has three
\* slashes before it separates the action from the parameters ...
MeantMark == {q \in Marks(plain) :
                 /\ Cardinality({i \in Slashes(plain) : i < q}) >= 3
                 /\ \A r \in Marks(plain) : r <= q}

\* ... and the action is the word between it and the slash before it.
MeantAction(actions, end) ==
    LET start == Max({i \in Slashes(plain) : i < end})
        named == {a \in DOMAIN actions : SubSeq(plain, start + 1, end - 1) = <<a>>}
    IN  IF named = {} THEN "WEBI_ACTION_NOT_RECOGNIZED" ELSE actions[CHOOSE a \in named : TRUE]

\* The session handler is asked for the action the client named, whatever is
\* encoded, whatever the number of slashes, marks and parameters; anything
\* else is refused or answered as not recognised.
ActionIsTheNamedOne ==
    handle_request(uri).action =
        IF plain = << >> \/ plain[1] # "/" \/ <<".", ".">> \in SubSeqs(plain) THEN ""
        ELSE IF MeantMark # {} THEN MeantAction(ActionsWithParams, Max(MeantMark))
        ELSE IF Cardinality(Slashes(plain)) >= 3 THEN MeantAction(ActionsNoParams, Len(plain) + 1)
        ELSE "WEBI_ACTION_NOT_RECOGNIZED"

\* The pieces of a query, which begin after these places.
Cuts(query) == {0} \cup {i \in DOMAIN query : query[i] \in {"&", ";"}}
Piece(query, cut) ==
    SubSeq(query, cut + 1, Min({c \in Cuts(query) : c > cut} \cup {Len(query) + 1}) - 1)

\* The name a piece begins with, and the word right after its equals sign.
WordFrom(piece, i) == SubSeq(piece, i, Min({k \in DOMAIN piece : k >= i /\ ~IsAlnum(piece[k])}
                                              \cup {Len(piece) + 1}) - 1)
KeyIn(piece)   == WordFrom(piece, 1)
ValueIn(piece) ==
    LET equals == Len(KeyIn(piece)) + 1
    IN  IF equals \in DOMAIN piece /\ piece[equals] = "=" THEN WordFrom(piece, equals + 1) ELSE << >>

HasKey(piece) == piece # << >> /\ IsLetter(piece[1])

\* key, or key=value with a value, and nothing else.
Fits(piece) ==
    /\ HasKey(piece)
    /\ \/ piece = KeyIn(piece)
       \/ ValueIn(piece) # << >> /\ piece = KeyIn(piece) \o <<"=">> \o ValueIn(piece)

\* The pieces up to the first that does not fit, it included if it has a key.
Heard(query) ==
    {cut \in Cuts(query) :
        /\ HasKey(Piece(query, cut))
        /\ \A c \in Cuts(query) : c < cut => Fits(Piece(query, c))}

\* A query arrives as far as it is well formed: every parameter before the
\* first character that fits nowhere, none after it, none made up; one that is
\* cut short there has what was read of it, and a key given twice has its first
\* value.
ParamsArrive ==
    MeantMark # {} /\ handle_request(uri).status = "ok" =>
        LET query  == SubSeq(plain, Max(MeantMark) + 1, Len(plain))
            params == handle_request(uri).params
            key(cut) == KeyIn(Piece(query, cut))
        IN  /\ DOMAIN params = {key(cut) : cut \in Heard(query)}
            /\ \A cut \in Heard(query) :
                  \/ params[key(cut)] = ValueIn(Piece(query, cut))
                  \/ \E c \in Heard(query) : c < cut /\ key(c) = key(cut)
==============================================================================
