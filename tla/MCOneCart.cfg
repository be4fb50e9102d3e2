SPECIFICATION Spec
CONSTANTS
    Items <- BareItems
    Departments <- Shop
    Barcodes <- BareBarcodes
    item_of <- BareItemOf
    barcode_type <- BareType
    barcode_plu <- BarePlu
    barcode_price <- BarePrice
    promotions_map <- BarePromotions
    InitialArchive <- BareArchive
    CartNumbers <- TwoSessions
    Tills <- NoTills
    Variations <- NoVariations
    NoPrice = NoPrice
    PriceChangesWhileShopping = FALSE
    DummyRcs = TRUE
    NoCard = NoCard
    MaxCards = 2
    OnlyOneShoppingSessionPerCard = TRUE
    NoBasket = NoBasket
    MaxRows <- ThreeRowsEach
    Cards = {c1}
INVARIANTS OneSessionPerCard
