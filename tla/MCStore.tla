------------------------------- MODULE MCStore -------------------------------
(***************************************************************************)
(* Small stores for the model checker.  Barcodes are named after the item  *)
(* they belong to: 11 is the barcode of item 1.  The .cfg files choose     *)
(* which of the definitions a run uses.                                    *)
(***************************************************************************)
EXTENDS SessionAccounts, TLC

\* What the proofs about the journals ask of a store holds of these.
ASSUME StoresArePlain == PlainLinks /\ DepartmentsGiven

OneSession  == {1}
TwoSessions == 1 .. 2
EightRows   == <<8>>
FourRows    == <<4>>
ThreeRowsEach == <<3, 3>>
FourRowsAndOne == <<4, 1>>
NoTills     == {}
NoVariations == {}
NoCards     == {}
Shop        == {7}
CardSymmetry == Permutations(Cards)

Ean13(codes) == [b \in codes |-> "EAN13"]
NoPromotions(items) == [i \in items |-> [type |-> "none", discount |-> 0]]
Row(price, linked) == [price |-> price, department |-> 7, linked |-> linked]
WithDefault(items) == (NoItem :> DefaultItem) @@ items
Same(codes) == [b \in codes |-> b]
Unpriced(codes) == [b \in codes |-> 0]

(* One item at 10 with one barcode. *)
PlainItems == {1}
PlainBarcodes == {11}
PlainItemOf == (11 :> 1)
PlainType == Ean13(PlainBarcodes)
PlainPlu == Same(PlainBarcodes)
PlainPrice == Unpriced(PlainBarcodes)
PlainPromotions == NoPromotions(PlainItems)
PlainArchive == WithDefault(1 :> Row(10, NoBarcode))

(* Item 1 is 20% off, has two barcodes and is linked to item 2, the         *)
(* deposit, which has a price cut above its price.  A variation of item 1   *)
(* raises its price and, as every item row does, unlinks it.                *)
LinkedItems == {1, 2}
LinkedBarcodes == {11, 12, 21}
LinkedItemOf == (11 :> 1) @@ (12 :> 1) @@ (21 :> 2)
LinkedType == Ean13(LinkedBarcodes)
LinkedPlu == Same(LinkedBarcodes)
LinkedPrice == Unpriced(LinkedBarcodes)
LinkedPromotions == (1 :> [type |-> "DSC_PERC", discount |-> 20]) @@ (2 :> [type |-> "PRICE_CUT", discount |-> 3])
LinkedArchive == WithDefault((1 :> Row(10, 21)) @@ (2 :> Row(2, NoBarcode)))
PriceRise == {[code |-> 1, price |-> 15, department |-> 7]}
DepositRise == {[code |-> 2, price |-> 3, department |-> 7]}

(* Item 1 is 20% off and linked to item 2, the deposit, which has a price   *)
(* cut above its price.  Item 3 is priced by its barcode: 31 is the plu 30  *)
(* at 4; it is linked to 88, which is no barcode at all.                    *)
MixedItems == {1, 2, 3}
MixedBarcodes == {11, 21, 30, 31, 88}
MixedItemOf == (11 :> 1) @@ (21 :> 2) @@ (30 :> 3) @@ (31 :> NoItem) @@ (88 :> NoItem)
MixedType == [b \in MixedBarcodes |->
    CASE b \in {30, 31} -> "EAN13_PRICE_REQ"
      [] b = 88 -> "NOT_RECOGNIZED"
      [] OTHER -> "EAN13"]
MixedPlu == [b \in MixedBarcodes |-> IF b = 31 THEN 30 ELSE b]
MixedPrice == [b \in MixedBarcodes |-> IF b = 31 THEN 4 ELSE 0]
MixedPromotions == LinkedPromotions @@ (3 :> [type |-> "DSC_VAL", discount |-> 1])
MixedArchive == (3 :> Row(5, 88)) @@ LinkedArchive

(* No item at all: only the loyalty cards of a session matter. *)
BareItems == {}
BareBarcodes == {}
BareItemOf == [b \in BareBarcodes |-> NoItem]
BareType == Ean13(BareBarcodes)
BarePlu == Same(BareBarcodes)
BarePrice == Unpriced(BareBarcodes)
BarePromotions == NoPromotions(BareItems)
BareArchive == [i \in {NoItem} |-> DefaultItem]
==============================================================================
