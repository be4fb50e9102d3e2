SPECIFICATION Spec
CONSTANTS
    Items <- PlainItems
    Departments <- Shop
    Barcodes <- PlainBarcodes
    item_of <- PlainItemOf
    barcode_type <- PlainType
    barcode_plu <- PlainPlu
    barcode_price <- PlainPrice
    promotions_map <- PlainPromotions
    InitialArchive <- PlainArchive
    CartNumbers <- OneSession
    Tills <- NoTills
    Variations <- NoVariations
    NoPrice = NoPrice
    PriceChangesWhileShopping = FALSE
    DummyRcs = TRUE
    NoCard = NoCard
    MaxCards = 2
    OnlyOneShoppingSessionPerCard = FALSE
    NoBasket = NoBasket
    MaxRows <- FourRows
    Cards = {c1, c2, c3}
PROPERTIES FeatureReturnCodes
