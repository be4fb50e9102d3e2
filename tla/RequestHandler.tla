--------------------------- MODULE RequestHandler ---------------------------
(***************************************************************************)
(* request_handler: from the uri of a request to the action of BaseSystem  *)
(* and its parameters.  Characters are those of RequestParser; "2", "3"    *)
(* and "f" are the hexadecimal digits kept of the sixteen: they spell a    *)
(* slash, a question mark, digits, separators, control characters and      *)
(* bytes above 127.                                                        *)
(***************************************************************************)
EXTENDS Integers, Sequences, FiniteSetsExt, SequencesExt

\* servletFunctionAction and the action it is, with parameters and without.
ActionsWithParams ==
    [initSession            |-> "WEBI_SESSION_INIT",
     endSession             |-> "WEBI_SESSION_END",
     voidTransaction        |-> "WEBI_SESSION_VOID",
     addCustomer            |-> "WEBI_CUSTOMER_ADD",
     voidCustomer           |-> "WEBI_CUSTOMER_VOID",
     addItem                |-> "WEBI_ITEM_ADD",
     voidItem               |-> "WEBI_ITEM_VOID",
     getItemInfo            |-> "WEBI_ITEM_INFO",
     getTotals              |-> "WEBI_GET_TOTALS",
     getAllCart             |-> "WEBI_GET_ALL_CART",
     getAllCartWithBarcodes |-> "WEBI_GET_ALL_CART_WITH_BARCODES",
     manageRescan           |-> "WEBI_MANAGE_RESCAN"]

ActionsNoParams ==
    [getStoreInfo |-> "WEBI_GET_STORE_INFO",
     getCartsList |-> "WEBI_GET_CARTS_LIST"]

Punctuation == {" ", "tab", "cr", "lf", "ctl", "sep", "high",
                "/", ".", ":", "?", "=", "%", "+", "-", "&", ";"}
IsAlnum(x)  == x \notin Punctuation
IsLetter(x) == x \notin Punctuation \cup {"2", "3"}

-----------------------------------------------------------------------------
(* url_decode *)

Hex == [x \in {"2", "3", "f"} |-> CASE x = "2" -> 2 [] x = "3" -> 3 [] x = "f" -> 15]

\* The character with a code that these digits spell.
Char(code) ==
    CASE code < 32         -> "ctl"
      [] code \in {34, 35} -> "sep"
      [] code = 47         -> "/"
      [] code = 50         -> "2"
      [] code = 51         -> "3"
      [] code = 63         -> "?"
      [] code >= 128       -> "high"

\* is >> std::hex >> value on two characters takes a sign, and is content with
\* one digit; the set is empty when it fails.
HexRead(x, y) ==
    {code \in 0 .. 255 :
        CASE x \in DOMAIN Hex /\ y \in DOMAIN Hex    -> code = 16 * Hex[x] + Hex[y]
          [] x \in DOMAIN Hex /\ y \notin DOMAIN Hex -> code = Hex[x]
          [] x = "+" /\ y \in DOMAIN Hex             -> code = Hex[y]
          [] x = "-" /\ y \in DOMAIN Hex             -> code = 256 - Hex[y]
          [] OTHER                                   -> FALSE}

\* (mutant) the loop goes on with the second digit
DecodeFromDigit(in) ==
    LET from[i \in 1 .. Len(in) + 1] ==
            CASE i > Len(in) -> {<< >>}
              [] i <= Len(in) /\ in[i] = "%" ->
                    IF i + 2 > Len(in) THEN {}
                    ELSE {Cons(Char(code), out) : code \in HexRead(in[i + 1], in[i + 2]),
                                                  out \in from[i + 2]}
              [] i <= Len(in) /\ in[i] = "+" -> {Cons(" ", out) : out \in from[i + 1]}
              [] OTHER -> {Cons(in[i], out) : out \in from[i + 1]}
    IN  from

\* The loop of url_decode from i on: the texts it may end with, none if it fails.
DecodeFrom(in) ==
    LET from[i \in 1 .. Len(in) + 1] ==
            CASE i > Len(in) -> {<< >>}
              [] i <= Len(in) /\ in[i] = "%" ->
                    IF i + 2 > Len(in) THEN {}
                    ELSE {Cons(Char(code), out) : code \in HexRead(in[i + 1], in[i + 2]),
                                                  out \in from[i + 3]}
              [] i <= Len(in) /\ in[i] = "+" -> {Cons(" ", out) : out \in from[i + 1]}
              [] OTHER -> {Cons(in[i], out) : out \in from[i + 1]}
    IN  from

url_decode(in) == DecodeFrom(in)[1]

-----------------------------------------------------------------------------
(* The regular expressions: a search finds the leftmost match, in which    *)
(* each .* in turn is as long as it can be.                                *)

Slashes(path) == {i \in DOMAIN path : path[i] = "/"}
Marks(path)   == {i \in DOMAIN path : path[i] = "?"}

\* (mutant) every .* is as short as it can be
Lazy(slashes, marks) ==
    LET first  == Min(slashes)
        second == Min({i \in slashes : i > first})
        third  == Min({i \in slashes : i > second})
    IN  [slash |-> third, mark |-> Min({i \in marks : i > third})]

\* Where the third slash and the mark after it are: \E a match is assumed.
Greedy(slashes, marks) ==
    LET first  == Min(slashes)
        second == Max({i \in slashes : i > first /\ \E j \in slashes : \E q \in marks : i < j /\ j < q})
        third  == Max({i \in slashes : i > second /\ \E q \in marks : i < q})
    IN  [slash |-> third, mark |-> Max({i \in marks : i > third})]

HasMatch(slashes, marks) ==
    \E i, j, k \in slashes : \E q \in marks : i < j /\ j < k /\ k < q

-----------------------------------------------------------------------------
(* keys_and_values: pairs of a key and a value, up to the first character  *)
(* that fits nowhere.  A key that is there twice keeps its first value.    *)

NoPair == [params |-> << >>, key |-> << >>, value |-> << >>, at |-> "pair"]

Commit(p) ==
    [k \in (DOMAIN p.params) \cup {p.key} |->
        IF k \in DOMAIN p.params THEN p.params[k] ELSE p.value]

\* (mutant) after a character that fits nowhere the parser goes on at the next cut
ParamStepGoesOn(p, x) ==
    CASE p.at = "pair" /\ IsLetter(x) -> [p EXCEPT !.key = <<x>>, !.value = << >>, !.at = "key"]
      [] p.at = "key" /\ IsAlnum(x)   -> [p EXCEPT !.key = Append(@, x)]
      [] p.at = "key" /\ x = "="      -> [p EXCEPT !.at = "equals"]
      [] p.at \in {"equals", "value"} /\ IsAlnum(x) -> [p EXCEPT !.value = Append(@, x), !.at = "value"]
      [] p.at \in {"key", "value"} /\ x \in {"&", ";"} -> [p EXCEPT !.params = Commit(p), !.at = "pair"]
      [] p.at = "pair" /\ ~IsLetter(x) -> [p EXCEPT !.at = "stop"]
      [] p.at = "stop"                 -> [p EXCEPT !.at = IF x \in {"&", ";"} THEN "pair" ELSE "stop"]
      [] OTHER                         -> [p EXCEPT !.params = Commit(p), !.at = "stop"]

ParamStep(p, x) ==
    CASE p.at = "pair" /\ IsLetter(x) -> [p EXCEPT !.key = <<x>>, !.value = << >>, !.at = "key"]
      [] p.at = "key" /\ IsAlnum(x)   -> [p EXCEPT !.key = Append(@, x)]
      [] p.at = "key" /\ x = "="      -> [p EXCEPT !.at = "equals"]
      [] p.at \in {"equals", "value"} /\ IsAlnum(x) -> [p EXCEPT !.value = Append(@, x), !.at = "value"]
      [] p.at \in {"key", "value"} /\ x \in {"&", ";"} -> [p EXCEPT !.params = Commit(p), !.at = "pair"]
      [] p.at = "pair" /\ ~IsLetter(x) -> [p EXCEPT !.at = "stop"]
      [] p.at = "stop"                 -> p
      [] OTHER                         -> [p EXCEPT !.params = Commit(p), !.at = "stop"]

urlParams(text) ==
    LET p == FoldLeft(ParamStep, NoPair, text)
    IN  IF p.at \in {"key", "equals", "value"} THEN Commit(p) ELSE p.params

-----------------------------------------------------------------------------
(* handle_request *)

BadRequest == [status |-> "bad_request", action |-> "", params |-> << >>]
Handled(action, params) == [status |-> "ok", action |-> action, params |-> params]

\* The action that a segment of the path is, if it is one word that names one.
ActionOf(segment, actions) ==
    IF Len(segment) = 1 /\ segment[1] \in DOMAIN actions THEN actions[segment[1]]
    ELSE "WEBI_ACTION_NOT_RECOGNIZED"

dispatch(path) ==
    LET slashes == Slashes(path)
        marks   == Marks(path)
    IN  IF HasMatch(slashes, marks)
        THEN LET m == Greedy(slashes, marks)
             IN  Handled(ActionOf(SubSeq(path, m.slash + 1, m.mark - 1), ActionsWithParams),
                         urlParams(SubSeq(path, m.mark + 1, Len(path))))
        ELSE IF HasMatch(slashes, {Len(path) + 1})
        THEN LET m == Greedy(slashes, {Len(path) + 1})
             IN  Handled(ActionOf(SubSeq(path, m.slash + 1, Len(path)), ActionsNoParams), << >>)
        ELSE Handled("WEBI_ACTION_NOT_RECOGNIZED", << >>)

IsAbsolute(path) ==
    /\ path # << >>
    /\ path[1] = "/"
    /\ \A i \in 1 .. Len(path) - 1 : ~(path[i] = "." /\ path[i + 1] = ".")

\* A path that ends in a slash is the index of a directory.
WithIndex(path) == IF path[Len(path)] = "/" THEN Append(path, "index.html") ELSE path

handle_request(uri) ==
    IF \E path \in url_decode(uri) : IsAbsolute(path)
    THEN dispatch(WithIndex(CHOOSE path \in url_decode(uri) : TRUE))
    ELSE BadRequest
=============================================================================
