------------------------------- MODULE MCHttp -------------------------------
(***************************************************************************)
(* Clients for HttpServer: one that sends any text a slip away from a      *)
(* request, and a few that are served at the same time.                    *)
(***************************************************************************)
EXTENDS HttpServer

Version == <<"H", "T", "T", "P", "/", "2", ".", "2", "cr", "lf">>
Short  == <<"g", " ", " ">> \o Version \o <<"cr", "lf">>
Folded == <<"g", " ", "/", " ">> \o Version
             \o <<"g", ":", " ", "g", "cr", "lf", " ", "g", "cr", "lf", "cr", "lf">>
Requests == {Short, Folded}

\* One character replaced, inserted or missing, or the end missing.
Slips(t) ==
    {ReplaceAt(t, i, x) : i \in DOMAIN t, x \in Chars} \cup
    {InsertAt(t, i, x) : i \in DOMAIN t, x \in Chars} \cup
    {RemoveAt(t, i) : i \in DOMAIN t} \cup
    {SubSeq(t, 1, i) : i \in DOMAIN t}

OneSlip == UNION {Slips(t) : t \in Requests}

\* A request, one that is cut short, and something else.
Root == <<"g", " ", "/", " ">> \o Version \o <<"cr", "lf">>
FewTexts == {Root, SubSeq(Root, 1, 6), <<"g", "/">>}
=============================================================================
