SPECIFICATION Spec
CONSTANTS
    Items <- NoItems
    Departments <- NoItems
    Barcodes <- NoBarcodes
    item_of <- NoItemOf
    barcode_type <- NoTypes
    barcode_plu <- NoPlus
    barcode_price <- NoPrices
    promotions_map <- NoPromotions
    NoPrice = NoPrice
    PriceChangesWhileShopping = FALSE
    DummyRcs = TRUE
    NoCard = NoCard
    MaxCards = 2
    OnlyOneShoppingSessionPerCard = TRUE
    CartNumbers <- TwoSessions
    MaxRows = 3
    Devices = {d1, d2}
    Cards = {c1}
INVARIANTS NewSessionsAreNew
