------------------------------ MODULE Archives ------------------------------
(***************************************************************************)
(* The catalogue of the store server: what ITEMS.CSV, BARCODES.CSV,        *)
(* DEPARTMENTS.CSV and PROMOTIONS.CSV tell the sales logic, the return     *)
(* codes of base_types.h, and the pure functions of BaseSystem that decode *)
(* a barcode and price a promotion.                                        *)
(*                                                                         *)
(* A barcode is a number; the digits the regular expressions look at are   *)
(* abstracted to its type, the price it carries and its plu (the same      *)
(* barcode with the price digits zeroed, substr(0,7) + "000000").          *)
(***************************************************************************)
EXTENDS Integers, FiniteSets

CONSTANTS
    Items,            \* item codes of ITEMS.CSV
    Departments,      \* department codes of DEPARTMENTS.CSV
    Barcodes,         \* barcodes a client may send
    item_of,          \* BARCODES.CSV: the item code of a barcode, 0 if it is not there
    barcode_type,     \* which regular expression the digits match
    barcode_plu,      \* the barcode with its price digits zeroed
    barcode_price,    \* the price digits
    promotions_map,   \* PROMOTIONS.CSV: item code -> type and value of its promotion
    NoPrice,          \* no local copy of an item
    PriceChangesWhileShopping,   \* [Carts] PriceChangesWhileShopping
    DummyRcs          \* [Main] DummyRCS

(* return codes and states of base_types.h *)
RC_OK                              == 0
CART_STATE_READY_FOR_ITEM          == 20000
CART_STATE_CLOSED                  == 20020
CART_STATE_TMPFILE_LOADING         == 20030
CART_STATE_VOIDED                  == 20097
CART_NOT_FOUND                     == 20099
BCODE_ITEM_NOT_FOUND               == 41003
BCODE_NOT_RECOGNIZED               == 41081
RC_LOY_CARD_NOT_PRESENT            == 41090
RC_LOY_CARD_ALREADY_PRESENT        == 41091
RC_LOY_CARD_IN_ANOTHER_TRANSACTION == 41092
WEBI_ACTION_NOT_RECOGNIZED         == 50080

BarcodeTypes == {"EAN13", "EAN13_PRICE_REQ", "UPC", "EAN8", "LOYCARD", "NOT_RECOGNIZED"}
DiscountTypes == {"none", "DSC_VAL", "DSC_PERC", "PRICE_CUT"}

\* A key that is not in an archive: operator[] of the C++ map inserts a
\* default-constructed element, whose code, price, department and linked
\* barcode are all 0.
NoItem    == 0
NoBarcode == 0
NoDepartment == 0

ItemCodes       == Items \cup {NoItem}
DepartmentCodes == Departments \cup {NoDepartment}
\* The row of an item: its price, department and linked barcode.
ItemRows == [price : Int, department : DepartmentCodes, linked : Barcodes \cup {NoBarcode}]
DefaultItem == [price |-> 0, department |-> NoDepartment, linked |-> NoBarcode]

ASSUME CatalogueAssumption ==
    /\ Items \subseteq Nat \ {NoItem}
    /\ Departments \subseteq Nat
    /\ Barcodes \subseteq Nat \ {NoBarcode}
    /\ item_of \in [Barcodes -> ItemCodes]
    /\ barcode_type \in [Barcodes -> BarcodeTypes]
    /\ barcode_plu \in [Barcodes -> Barcodes]
    /\ barcode_price \in [Barcodes -> Nat]
    /\ promotions_map \in [Items -> [type : DiscountTypes, discount : Nat]]
    /\ NoPrice \notin Int
    /\ PriceChangesWhileShopping \in BOOLEAN
    /\ DummyRcs \in BOOLEAN

\* The archives are files.
ASSUME FiniteArchives == IsFiniteSet(Items) /\ IsFiniteSet(Barcodes)

\* BaseSystem::decodeBarcode, the item code it finds: a barcode that carries a
\* price is looked up without it.
decodeBarcode(b) ==
    item_of[IF barcode_type[b] = "EAN13_PRICE_REQ" THEN barcode_plu[b] ELSE b]

\* The discount ITEM_ADD computes for an item sold at price; a PRICE_CUT above
\* the price gives a negative one (the uint64_t wraps and is read back signed).
promoValue(item, price) ==
    LET promo == promotions_map[item]
    IN  CASE promo.type = "DSC_VAL"   -> promo.discount
          [] promo.type = "DSC_PERC"  -> (price * promo.discount) \div 100
          [] promo.type = "PRICE_CUT" -> price - promo.discount
          [] promo.type = "none"      -> 0

\* With DummyRCS every failure is reported to the client as 3.
dummyRc(rc) == IF rc > 0 /\ DummyRcs THEN 3 ELSE rc
=============================================================================
