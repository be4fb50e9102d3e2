SPECIFICATION FairSpec
CONSTANTS
    c1 = c1
    Threads = {t1, t2}
    Sessions <- TwoSessions
    Tills = {k1}
    Barcodes = {11}
    Cards <- OneCard
    card_of <- OneHasACard
    NoCard = NoCard
    NoThread = NoThread
    NoFile = NoFile
    NoRequest = NoRequest
    MaxPieces = 2
INVARIANTS TypeOK
PROPERTIES BasketIsTheSession MutexIsReleased
