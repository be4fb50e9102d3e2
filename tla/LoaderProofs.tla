----------------------------- MODULE LoaderProofs -----------------------------
(***************************************************************************)
(* What the variation thread keeps for any catalogue, any variation files  *)
(* and any process around it: the inductive invariant, the refinement of   *)
(* Catalogue and the theorems of Program.                                  *)
(***************************************************************************)
EXTENDS Program, TLAPS

\* What the two files hold while no save is torn: ITEMS.CSV is the last
\* complete save, during a save ITEMS.OLD is, and after a torn save ITEMS.OLD
\* still is, until what it left is used.
DiskInv ==
    /\ damage = "none" /\ ~Saving => items_csv = settled
    /\ damage = "none" /\ Saving => items_old = settled
    /\ damage = "torn" => items_old = settled /\ ~Saving

\* A dump has written the items it has passed, and those only.
DumpInv ==
    pc = "dump" =>
        /\ items_csv \in Archives
        /\ \A c \in Codes : items_csv[c] = IF c \in dumped THEN items_map[c] ELSE NoItem

\* A process begins with nothing of the process before it; an item that was
\* read from a row is in memory.
ReadInv ==
    /\ pc \in {"off", "loaded"} => item_tmp = NoItemYet /\ ~unsaved
    /\ item_tmp.code # 0 => items_map[item_tmp.code] = item_tmp.price

\* Items that differ from the last complete save are on their way to the next.
MemoryInv ==
    damage = "none" /\ ~unsaved =>
        /\ pc \in {"loaded", "sleep"} => items_map = settled
        /\ pc = "folder" /\ items_map # settled => updated_items /\ vars_found
        /\ pc = "rows" /\ items_map # settled => updated_items

IInv == TypeOK /\ DiskInv /\ DumpInv /\ ReadInv /\ MemoryInv

-----------------------------------------------------------------------------
(* The columns of a row *)

\* A short row leaves an item that can be an item of the map: its price is a
\* price, and without a code it is the item of the row before it.
LEMMA ColumnsRead ==
    ASSUME NEW tmp \in [code : Codes \cup {0}, price : Prices], NEW r \in VarRows
    PROVE  /\ columnsRead(tmp, r) \in [code : Codes \cup {0}, price : Prices]
           /\ r.code = NoColumn => columnsRead(tmp, r) = tmp
BY LoaderAssumption DEF VarRows, columnsRead

LEMMA RowsAreRows ==
    ASSUME NEW f \in VarFiles, NEW i \in 1 .. Len(rows_of[f])
    PROVE  rows_of[f][i] \in VarRows
BY LoaderAssumption

LEMMA CodesArePositive == \A c \in Codes \cup {0} : c \in Nat /\ (c > 0 <=> c # 0) /\ 0 \notin Codes
BY LoaderAssumption

-----------------------------------------------------------------------------
(* The inductive invariant *)

LEMMA InitInv == Init => IInv
<1> SUFFICES ASSUME Init PROVE IInv
    OBVIOUS
<1>1. TypeOK
    BY LoaderAssumption DEF Init, TypeOK, Archives, NoItems, NoItemYet
<1>2. DiskInv /\ DumpInv /\ ReadInv /\ MemoryInv
    BY DEF Init, NoItemYet, Saving, DiskInv, DumpInv, ReadInv, MemoryInv
<1>. QED
    BY <1>1, <1>2 DEF IInv

LEMMA StepInv == IInv /\ [LoaderNext]_vars => IInv'
<1> SUFFICES ASSUME IInv, [LoaderNext]_vars PROVE IInv'
    OBVIOUS
<1> USE LoaderAssumption DEF IInv, TypeOK, DiskInv, DumpInv, ReadInv, MemoryInv, Saving,
        Archives, thread, disk, history
<1>1. CASE ReadArchive
    BY <1>1 DEF ReadArchive, NoItemYet
<1>2. CASE StartThread
    BY <1>2 DEF StartThread
<1>3. CASE Die
    BY <1>3 DEF Die, NoItems, NoItemYet
<1>4. CASE BeginPass
    BY <1>4 DEF BeginPass
<1>5. ASSUME NEW f \in VarFiles, OpenFile(f) PROVE IInv'
    BY <1>5 DEF OpenFile
<1>6. CASE NextRow
  <2> DEFINE r == rows_of[file][row]
             item == columnsRead(item_tmp, r)
  <2>1. file \in VarFiles /\ row \in 1 .. Len(rows_of[file])
      BY <1>6 DEF NextRow
  <2>2. r \in VarRows
      BY <2>1, RowsAreRows
  <2>3. /\ item \in [code : Codes \cup {0}, price : Prices]
        /\ r.code = NoColumn => item = item_tmp
      BY <2>2, ColumnsRead
  <2>4. item.code > 0 <=> item.code # 0
      BY <2>3, CodesArePositive
  <2> HIDE DEF item
  <2>5. /\ pc = "rows" /\ row' = row + 1
        /\ UNCHANGED <<pc, todo, file, vars_found, dumped, disk, history>>
        /\ \/ UNCHANGED <<item_tmp, updated_items, items_map>>
           \/ /\ item_tmp' = item
              /\ updated_items' = (updated_items \/ r.code # NoColumn)
              /\ items_map' = IF item.code # 0 THEN [items_map EXCEPT ![item.code] = item.price]
                              ELSE items_map
      BY <1>6, <2>4 DEF NextRow, item
  <2>6. row' \in 1 .. Len(rows_of[file]) + 1
      BY <2>1, <2>5
  <2> HIDE DEF r
  <2>7. CASE UNCHANGED <<item_tmp, updated_items, items_map>>
      BY <2>5, <2>6, <2>7
  <2>8. CASE /\ item_tmp' = item
             /\ updated_items' = (updated_items \/ r.code # NoColumn)
             /\ items_map' = IF item.code # 0 THEN [items_map EXCEPT ![item.code] = item.price]
                             ELSE items_map
    <3>1. items_map' \in Archives
        BY <2>3, <2>8
    <3>2. item_tmp'.code # 0 => items_map'[item_tmp'.code] = item_tmp'.price
        BY <2>3, <2>8
    <3>3. r.code = NoColumn => items_map' = items_map
        BY <2>3, <2>8
    <3>4. TypeOK'
        BY <2>3, <2>5, <2>6, <2>8, <3>1
    <3>5. DiskInv' /\ DumpInv' /\ ReadInv'
        BY <2>5, <3>2
    <3>6. MemoryInv'
        BY <2>5, <2>8, <3>3
    <3>. QED
        BY <3>4, <3>5, <3>6
  <2>. QED
      BY <2>5, <2>7, <2>8
<1>7. CASE RenameFile
    BY <1>7 DEF RenameFile
<1>8. CASE EndFolder
    BY <1>8 DEF EndFolder
<1>9. CASE MoveArchive
    BY <1>9 DEF MoveArchive
<1>10. CASE OpenDump
    BY <1>10 DEF OpenDump, NoItems
<1>16. CASE OpenDumpFails
    BY <1>16 DEF OpenDumpFails
<1>11. ASSUME NEW c \in Codes, DumpRow(c) PROVE IInv'
    BY <1>11 DEF DumpRow
<1>12. CASE DumpFails
  <2>1. items_csv' \in Archives
      BY <1>12 DEF DumpFails, ToDump
  <2>. QED
      BY <1>12, <2>1 DEF DumpFails
<1>13. CASE EndDump
  <2>1. items_csv = items_map
    <3>1. \A c \in Codes : items_csv[c] = items_map[c]
        BY <1>13 DEF EndDump, ToDump
    <3>. QED
        BY <1>13, <3>1 DEF EndDump
  <2>. QED
      BY <1>13, <2>1 DEF EndDump
<1>14. ASSUME NEW f \in VarFiles, Deliver(f) PROVE IInv'
    BY <1>14 DEF Deliver
<1>15. CASE UNCHANGED vars
    BY <1>15 DEF vars
<1>. QED
    BY <1>1, <1>2, <1>3, <1>4, <1>5, <1>6, <1>7, <1>8, <1>9, <1>10, <1>11, <1>12, <1>13,
       <1>14, <1>15, <1>16 DEF LoaderNext, VariationThread

-----------------------------------------------------------------------------
(* The promise of Catalogue *)

LEMMA PromiseInit == Init => Promise!Init
BY LoaderAssumption DEF Init, Archives, Promise!Init, Promise!Archives

\* One row read is one variation of the catalogue, or none.
LEMMA RowVaries ==
    ASSUME IInv, NextRow
    PROVE  \/ UNCHANGED <<pc, settled, damage, items_map>>
           \/ /\ pc = "rows"
              /\ UNCHANGED <<pc, settled, damage>>
              /\ \E c \in Codes, price \in Prices :
                    items_map' = [items_map EXCEPT ![c] = price]
<1> DEFINE item == columnsRead(item_tmp, rows_of[file][row])
<1>1. rows_of[file][row] \in VarRows
    BY RowsAreRows DEF NextRow, IInv, TypeOK
<1>2. item \in [code : Codes \cup {0}, price : Prices]
    BY <1>1, ColumnsRead DEF IInv, TypeOK
<1>3. item.code > 0 => item.code \in Codes
    BY <1>2, CodesArePositive
<1> HIDE DEF item
<1>4. /\ pc = "rows"
      /\ UNCHANGED <<pc, settled, damage>>
      /\ \/ items_map' = items_map
         \/ item.code > 0 /\ items_map' = [items_map EXCEPT ![item.code] = item.price]
    BY DEF NextRow, history, item
<1>. QED
    BY <1>2, <1>3, <1>4

\* A step after which a save is torn promises nothing.
LEMMA TornStep ==
    ASSUME IInv', damage' # "none"
    PROVE  Promise!Tear
BY DEF IInv, TypeOK, Archives, Promise!Tear, Promise!Archives

LEMMA PromiseStep == IInv /\ IInv' /\ [LoaderNext]_vars => [Promise!Next]_(Promise!vars)
<1> SUFFICES ASSUME IInv, IInv', [LoaderNext]_vars
             PROVE  [Promise!Next]_(Promise!vars)
    OBVIOUS
<1>1. CASE damage' # "none"
    BY <1>1, TornStep DEF Promise!Next
<1>3. CASE EndDump
    BY <1>3 DEF EndDump, Promise!Next, Promise!Save
<1>2. CASE damage' = "none" /\ ~EndDump
  <2>1. damage = "none"
      BY <1>2 DEF LoaderNext, VariationThread, ReadArchive, StartThread, Die, BeginPass, OpenFile,
                  NextRow, RenameFile, EndFolder, MoveArchive, OpenDump, OpenDumpFails,
                  DumpRow, DumpFails, Deliver, vars, history
  <2> USE <1>2, <2>1
  <2>2. CASE ReadArchive
      BY <2>2 DEF ReadArchive, IInv, DiskInv, Saving, Promise!vars
  <2>3. CASE StartThread
      BY <2>3 DEF StartThread, history, IInv, ReadInv, MemoryInv, Promise!vars, Promise!Next,
                  Promise!Open
  <2>4. CASE Die
      BY <2>4 DEF Die, Promise!vars, Promise!Next, Promise!Close
  <2>5. CASE NextRow
    <3>1. CASE UNCHANGED <<pc, settled, damage, items_map>>
        BY <3>1 DEF Promise!vars
    <3>2. CASE /\ pc = "rows"
               /\ UNCHANGED <<pc, settled, damage>>
               /\ \E c \in Codes, price \in Prices :
                     items_map' = [items_map EXCEPT ![c] = price]
      <4>1. PICK c \in Codes, price \in Prices : items_map' = [items_map EXCEPT ![c] = price]
          BY <3>2
      <4>2. Promise!Vary(c, price)
          BY <3>2, <4>1 DEF Promise!Vary
      <4>. QED
          BY <4>2 DEF Promise!Next
    <3>. QED
        BY <2>5, <3>1, <3>2, RowVaries
  <2>7. CASE \/ BeginPass \/ RenameFile \/ EndFolder
             \/ MoveArchive \/ OpenDump \/ OpenDumpFails \/ DumpFails
             \/ \E f \in VarFiles : OpenFile(f) \/ Deliver(f)
             \/ \E c \in Codes : DumpRow(c)
             \/ UNCHANGED vars
    <3>1. UNCHANGED <<settled, damage, items_map>>
        BY <2>7 DEF BeginPass, RenameFile, EndFolder, MoveArchive, OpenDump, OpenDumpFails, DumpFails,
                    OpenFile, Deliver, DumpRow, vars, history
    <3>2. \/ UNCHANGED pc
          \/ pc \notin {"off", "loaded"} /\ pc' \notin {"off", "loaded"}
        BY <2>7 DEF BeginPass, RenameFile, EndFolder, MoveArchive, OpenDump, OpenDumpFails, DumpFails,
                    OpenFile, Deliver, DumpRow, vars, thread
    <3>. QED
        BY <3>1, <3>2 DEF Promise!vars
  <2>. QED
      BY <2>2, <2>3, <2>4, <2>5, <2>7, <1>2 DEF LoaderNext, VariationThread
<1>. QED
    BY <1>1, <1>2, <1>3

-----------------------------------------------------------------------------
(* The process around the thread *)

\* Every step of main, of the server, of a signal or of a kill is a step of the
\* loader, or none of its.
LEMMA ProgramSteps == [Next]_<<vars, program>> => [LoaderNext]_vars
<1> SUFFICES ASSUME Next \/ UNCHANGED <<vars, program>>
             PROVE  LoaderNext \/ UNCHANGED vars
    OBVIOUS
<1>1. Exit => Die \/ UNCHANGED vars
    BY DEF Exit
<1>2. ASSUME NEW configuration \in Configurations, LoadConfiguration(configuration)
      PROVE  Die \/ UNCHANGED vars
    BY <1>1, <1>2 DEF LoadConfiguration, Configurations
<1>3. Main => Die \/ ReadArchive \/ StartThread \/ UNCHANGED vars
    BY <1>1, <1>2 DEF Main, ReadArchives, LoadCarts, StartServer, Sigwait, StopServer, Return
<1>4. Launch \/ BeginRequest \/ EndRequests \/ Signal \/ Kill => Die \/ UNCHANGED vars
    BY <1>1 DEF Launch, BeginRequest, EndRequests, Signal, Kill
<1>5. Others => VariationThread \/ \E f \in VarFiles : Deliver(f)
    BY DEF Others
<1>. QED
    BY <1>3, <1>4, <1>5 DEF Next, LoaderNext

\* main is in one of its steps, and the server at requests only while main has
\* it.
MainOK ==
    /\ main \in {"down", "configuration", "archives", "carts", "server", "sigwait", "stop", "join"}
    /\ signal \in BOOLEAN
    /\ serving \in BOOLEAN
    /\ serving => main \in {"sigwait", "stop", "join"}

LEMMA MainStays == MainOK /\ [Next]_<<vars, program>> => MainOK'
<1> SUFFICES ASSUME MainOK, Next \/ UNCHANGED <<vars, program>> PROVE MainOK'
    OBVIOUS
<1> USE DEF MainOK, MainStep
<1>1. Exit => MainOK'
    BY DEF Exit
<1>2. ASSUME NEW configuration \in Configurations, LoadConfiguration(configuration)
      PROVE  MainOK'
    BY <1>1, <1>2 DEF LoadConfiguration, Configurations
<1>3. CASE Main
  <2>1. CASE ReadArchives
      BY <1>1, <2>1 DEF ReadArchives
  <2>2. CASE LoadCarts \/ StartServer
      BY <1>1, <2>2 DEF LoadCarts, StartServer
  <2>3. CASE Sigwait \/ StopServer
      BY <2>3 DEF Sigwait, StopServer
  <2>4. CASE Return
      BY <1>1, <2>4 DEF Return
  <2>. QED
      BY <1>2, <1>3, <2>1, <2>2, <2>3, <2>4 DEF Main
<1>4. CASE Launch
    BY <1>4 DEF Launch
<1>5. CASE BeginRequest \/ EndRequests
    BY <1>5 DEF BeginRequest, EndRequests
<1>6. CASE Signal
    BY <1>6 DEF Signal
<1>7. CASE Kill
    BY <1>1, <1>7 DEF Kill
<1>8. CASE Others \/ UNCHANGED <<vars, program>>
    BY <1>8 DEF Others, program
<1>. QED
    BY <1>3, <1>4, <1>5, <1>6, <1>7, <1>8 DEF Next

-----------------------------------------------------------------------------
(* Theorems *)

LEMMA ProcessLoads == Spec => LoaderSpec
<1>1. ProgramInit => Init
    BY DEF ProgramInit
<1>. QED
    BY <1>1, ProgramSteps, PTL DEF Spec, LoaderSpec

\* The invariant, of the thread and of the process around it.
LEMMA LoaderInvariant == LoaderSpec => []IInv
BY InitInv, StepInv, PTL DEF LoaderSpec

LEMMA ProcessInvariant == Spec => []IInv
BY ProcessLoads, LoaderInvariant, PTL

\* Type correctness: a row index is never past the file, and whatever a short
\* row or a torn archive held, the items in memory are items.
THEOREM ProgramTyped == Spec => []ProgramTypeOK
<1>1. ProgramInit => MainOK
    BY DEF ProgramInit, MainOK
<1>2. MainOK /\ [Next]_<<vars, program>> => MainOK'
    BY MainStays
<1>3. IInv /\ MainOK => ProgramTypeOK
    BY DEF IInv, ProgramTypeOK, MainOK
<1>. QED
    BY <1>1, <1>2, <1>3, ProcessInvariant, PTL DEF Spec

\* At every moment of a save, of a start and of a stop the last complete
\* archive is in one of the two files, but for the time between the use of a torn
\* one and the next complete save.
THEOREM ArchiveOnDisk == Spec => []ArchiveSurvives
<1>1. IInv => ArchiveSurvives
    BY DEF IInv, TypeOK, DiskInv, Saving, ArchiveSurvives
<1>. QED
    BY <1>1, ProcessInvariant, PTL

\* A thread that sleeps has saved what it changed: no order of files, rows
\* and failed renames of .VAR files leaves an item behind.
THEOREM SleepsSaved == Spec => []SavedAsleep
<1>1. IInv => SavedAsleep
    BY DEF IInv, DiskInv, MemoryInv, Saving, SavedAsleep
<1>. QED
    BY <1>1, ProcessInvariant, PTL

\* The thread, the two files and the process implement Catalogue.
THEOREM PromiseKept == Spec => KeepsPromise
<1>1. Spec => Init /\ [][LoaderNext]_vars
    BY ProcessLoads, PTL DEF LoaderSpec
<1>. QED
    BY <1>1, PromiseInit, PromiseStep, ProcessInvariant, PTL DEF KeepsPromise, Promise!Spec
=============================================================================
