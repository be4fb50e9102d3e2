SPECIFICATION FairSpec
CONSTANTS
    Codes <- TwoCodes
    Prices <- FewPrices
    VarFiles <- TwoFiles
    rows_of <- FewRows
    Nested <- OneNested
    FirstArchive <- BothAtTen
    NoColumn = NoColumn
    NoItem = NoItem
    NoFile = NoFile
INVARIANTS ProgramTypeOK ArchiveSurvives SavedAsleep
PROPERTIES KeepsPromise VariationsArrive StopIsHonoured
