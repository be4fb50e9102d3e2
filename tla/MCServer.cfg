SPECIFICATION FairSpec
CONSTANTS
    Chars = {" ", "cr", "lf", "H", "T", "P", "/", ".", ":", "2", "g"}
    Connections = {c1, c2}
    Texts <- FewTexts
    BufferSize = 8192
    PoolSize = 1
PROPERTIES EveryoneIsAnswered EveryoneIsAccepted
CHECK_DEADLOCK FALSE
