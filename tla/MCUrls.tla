------------------------------- MODULE MCUrls -------------------------------
(***************************************************************************)
(* Paths for UrlHandling: from the empty one, from the servlet and from    *)
(* the parameters on.                                                      *)
(***************************************************************************)
EXTENDS UrlHandling

Servlet == <<"/", "g", "/", "g", "/">>
Query == Servlet \o <<"addItem", "?">>
Paths == {<< >>, Servlet, Query, Query \o <<"addItem", "=", "2", "&">>}
=============================================================================
