SPECIFICATION FairSpec
CONSTANTS
    Items <- MixedItems
    Departments <- Shop
    Barcodes <- MixedBarcodes
    item_of <- MixedItemOf
    barcode_type <- MixedType
    barcode_plu <- MixedPlu
    barcode_price <- MixedPrice
    promotions_map <- MixedPromotions
    InitialArchive <- MixedArchive
    CartNumbers <- OneSession
    Tills <- NoTills
    Variations <- PriceRise
    Cards <- NoCards
    NoPrice = NoPrice
    PriceChangesWhileShopping = FALSE
    DummyRcs = TRUE
    NoCard = NoCard
    MaxCards = 2
    OnlyOneShoppingSessionPerCard = FALSE
    NoBasket = NoBasket
    MaxRows <- EightRows
INVARIANTS PiecesHaveBarcodes PriceLocked JournalFaithful BillFaithful
PROPERTIES StartEnds
