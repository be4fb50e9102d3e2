SPECIFICATION ViewSpec
CONSTANTS
    Items <- PlainItems
    Departments <- Shop
    Barcodes <- PlainBarcodes
    item_of <- PlainItemOf
    barcode_type <- PlainType
    barcode_plu <- PlainPlu
    barcode_price <- PlainPrice
    promotions_map <- PlainPromotions
    InitialArchive <- PlainArchive
    CartNumbers <- TwoSessions
    Tills = {t1}
    Variations <- NoVariations
    NoPrice = NoPrice
    PriceChangesWhileShopping = TRUE
    DummyRcs = FALSE
    NoCard = NoCard
    MaxCards = 2
    OnlyOneShoppingSessionPerCard = FALSE
    NoBasket = NoBasket
    MaxRows <- FourRowsAndOne
    Cards = {c1, c2}
SYMMETRY CardSymmetry
INVARIANTS TypeOK SessionIdsFresh VoidedSealed JournalFaithful CardsBounded
PROPERTIES KeepsSessions
