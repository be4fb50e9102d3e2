------------------------------ MODULE MCProgram ------------------------------
(***************************************************************************)
(* A small store whose catalogue varies, for the model checker: a file     *)
(* whose second row is short and whose third is of no known kind, and a    *)
(* file in a subfolder of VARS.                                            *)
(***************************************************************************)
EXTENDS Program

TwoCodes == {1, 2}
FewPrices == {0, 10, 15}
TwoFiles == {"rise", "nested"}
ItemRow(code, price) == [object |-> "I", code |-> code, price |-> price]
FewRows == [f \in TwoFiles |->
    CASE f = "rise"   -> <<ItemRow(1, 15), ItemRow(2, NoColumn),
                           [ItemRow(1, 0) EXCEPT !.object = "other"]>>
      [] f = "nested" -> <<ItemRow(2, 15)>>]
OneNested == {"nested"}
BothAtTen == [c \in TwoCodes |-> 10]
=============================================================================
