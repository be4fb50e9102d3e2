SPECIFICATION Spec
CONSTANTS
    Items <- LinkedItems
    Departments <- Shop
    Barcodes <- LinkedBarcodes
    item_of <- LinkedItemOf
    barcode_type <- LinkedType
    barcode_plu <- LinkedPlu
    barcode_price <- LinkedPrice
    promotions_map <- LinkedPromotions
    InitialArchive <- LinkedArchive
    CartNumbers <- OneSession
    Tills <- NoTills
    Variations <- DepositRise
    Cards <- NoCards
    NoPrice = NoPrice
    PriceChangesWhileShopping = FALSE
    DummyRcs = TRUE
    NoCard = NoCard
    MaxCards = 2
    OnlyOneShoppingSessionPerCard = FALSE
    NoBasket = NoBasket
    MaxRows <- EightRows
INVARIANTS PriceLocked
