SPECIFICATION Spec
CONSTANTS
    Chars = {" ", "tab", "cr", "lf", "ctl", "sep", "high", "H", "T", "P", "/", ".", ":", "2", "g"}
    Connections = {c1}
    Texts <- OneSlip
    BufferSize = 2
    PoolSize = 1
INVARIANTS TypeOK LastHeaderExists AnswersFollowGrammar
CHECK_DEADLOCK FALSE
