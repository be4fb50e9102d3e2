SPECIFICATION Spec
CONSTANTS
    Written = {"/", "?", ".", "addItem", "getStoreInfo", "2", "=", "&", " "}
    Beginnings <- Paths
    MaxWritten = 4
INVARIANTS DecodeInverts ActionIsTheNamedOne ParamsArrive
CHECK_DEADLOCK FALSE
