--------------------------- MODULE VariationLoader ---------------------------
(***************************************************************************)
(* BaseSystem::checkForVariationFiles, the thread that applies variation   *)
(* files to the items in memory and then rewrites ITEMS.CSV, with          *)
(* readItemArchive, which finds at the next start what is left of it, and  *)
(* the ends of the process in between.                                     *)
(*                                                                         *)
(* The price stands for every column of an item after its code.  A file is *)
(* delivered whole.                                                        *)
(***************************************************************************)
EXTENDS Integers, Sequences

CONSTANTS
    Codes,         \* item codes: a std::map is written in their order
    Prices,
    VarFiles,      \* the .VAR files that will be delivered ...
    rows_of,       \* ... and their rows
    Nested,        \* those put in a subfolder of VARS
    FirstArchive,  \* ITEMS.CSV before the first start
    NoColumn,      \* a column that a short row does not have
    NoItem,        \* an item that is not in an archive
    NoFile         \* an archive that is not there

\* A row has its first columns: without a code there is no price.
VarRows == {r \in [object : {"I", "other"}, code : Codes \cup {NoColumn},
                   price : Prices \cup {NoColumn}] : r.code = NoColumn => r.price = NoColumn}

ASSUME LoaderAssumption ==
    /\ Codes \subseteq Nat \ {0}
    /\ 0 \in Prices
    /\ NoColumn \notin Codes \cup Prices
    /\ NoItem \notin Prices
    /\ NoFile \notin VarFiles
    /\ NoFile \notin [Codes -> Prices \cup {NoItem}]
    /\ rows_of \in [VarFiles -> Seq(VarRows)]
    /\ Nested \subseteq VarFiles
    /\ FirstArchive \in [Codes -> Prices \cup {NoItem}]

VARIABLES
    \* the thread; pc is "off" when no process runs, "loaded" when the
    \* constructor has read the archives
    pc, todo, file, row, item_tmp, updated_items, vars_found, dumped,
    items_map,     \* the items in memory
    items_csv,     \* ITEMS.CSV ...
    items_old,     \* ... and ITEMS.OLD
    vars_folder,   \* the .VAR files that are not renamed
    delivered,     \* those that were ever delivered
    \* history
    settled,       \* the items at the end of the last complete save
    unsaved,       \* this process failed to move ITEMS.CSV away and did not save
    damage         \* a save was "torn"; a start or a save has "used" what it left;
                   \* "none" again with the next complete save

thread == <<pc, todo, file, row, item_tmp, updated_items, vars_found, dumped>>
disk == <<items_csv, items_old, vars_folder, delivered>>
history == <<settled, unsaved, damage>>
vars == <<thread, items_map, disk, history>>

Archives == [Codes -> Prices \cup {NoItem}]
NoItems == [c \in Codes |-> NoItem]
NoItemYet == [code |-> 0, price |-> 0]

TypeOK ==
    /\ pc \in {"off", "loaded", "sleep", "folder", "rows", "move", "open", "dump"}
    /\ todo \subseteq VarFiles
    /\ file \in VarFiles \cup {NoFile}
    /\ row \in Nat
    /\ pc = "rows" => file \in VarFiles /\ row \in 1 .. Len(rows_of[file]) + 1
    /\ item_tmp \in [code : Codes \cup {0}, price : Prices]
    /\ updated_items \in BOOLEAN
    /\ vars_found \in BOOLEAN
    /\ dumped \subseteq Codes
    /\ items_map \in Archives
    /\ items_csv \in Archives \cup {NoFile}
    /\ items_old \in Archives \cup {NoFile}
    /\ vars_folder \subseteq delivered
    /\ delivered \subseteq VarFiles
    /\ settled \in Archives
    /\ unsaved \in BOOLEAN
    /\ damage \in {"none", "torn", "used"}

Init ==
    /\ pc = "off"
    /\ todo = {}
    /\ file = NoFile
    /\ row = 0
    /\ item_tmp = NoItemYet
    /\ updated_items = FALSE
    /\ vars_found = FALSE
    /\ dumped = {}
    /\ items_map = NoItems
    /\ items_csv = FirstArchive
    /\ items_old = NoFile
    /\ vars_folder = {}
    /\ delivered = {}
    /\ settled = FirstArchive
    /\ unsaved = FALSE
    /\ damage = "none"

-----------------------------------------------------------------------------
(* Start and end of the process *)

\* readItemArchive: without an ITEMS.CSV the process exits at once.
ReadArchive ==
    /\ pc = "off"
    /\ items_csv # NoFile
    /\ pc' = "loaded"
    /\ items_map' = items_csv
    /\ damage' = IF damage = "torn" THEN "used" ELSE damage
    /\ UNCHANGED <<todo, file, row, item_tmp, updated_items, vars_found, dumped, disk,
                   settled, unsaved>>

\* The constructor starts the thread, whose first pass begins at once.
StartThread ==
    /\ pc = "loaded"
    /\ pc' = "sleep"
    /\ UNCHANGED <<todo, file, row, item_tmp, updated_items, vars_found, dumped,
                   items_map, disk, history>>

\* Between the rename of ITEMS.CSV and the end of the dump the archive is torn.
Saving == pc \in {"open", "dump"}

\* The process ends: nobody tells the thread or waits for it.
Die ==
    /\ pc # "off"
    /\ pc' = "off"
    /\ todo' = {}
    /\ file' = NoFile
    /\ row' = 0
    /\ item_tmp' = NoItemYet
    /\ updated_items' = FALSE
    /\ vars_found' = FALSE
    /\ dumped' = {}
    /\ items_map' = NoItems
    /\ unsaved' = FALSE
    /\ damage' = IF Saving /\ damage = "none" THEN "torn" ELSE damage
    /\ UNCHANGED <<disk, settled>>

-----------------------------------------------------------------------------
(* A pass: the files of VARS, in the order the directory lists them *)

BeginPass ==
    /\ pc = "sleep"
    /\ pc' = "folder"
    /\ vars_found' = FALSE
    /\ todo' = vars_folder
    /\ UNCHANGED <<file, row, item_tmp, updated_items, dumped, items_map, disk, history>>

OpenFile(f) ==
    /\ pc = "folder"
    /\ f \in todo
    /\ pc' = "rows"
    /\ file' = f
    /\ row' = 1
    /\ UNCHANGED <<todo, item_tmp, updated_items, vars_found, dumped, items_map, disk, history>>

\* (mutant) a column that is not there is read nevertheless
columnsReadRaw(tmp, r) == [code |-> r.code, price |-> r.price]

\* itmTemp is declared outside the loops: a short row keeps columns of the row
\* before it.
columnsRead(tmp, r) ==
    [code  |-> IF r.code = NoColumn THEN tmp.code ELSE r.code,
     price |-> IF r.price = NoColumn THEN tmp.price ELSE r.price]

\* One row; a file of a subfolder is opened by its bare name, and not found.
NextRow ==
    LET r    == rows_of[file][row]
        item == columnsRead(item_tmp, r)
    IN  /\ pc = "rows"
        /\ file \notin Nested
        /\ row <= Len(rows_of[file])
        /\ row' = row + 1
        /\ IF r.object = "I"
           THEN /\ item_tmp' = item
                /\ updated_items' = (updated_items \/ r.code # NoColumn)
                /\ items_map' = IF item.code > 0 THEN [items_map EXCEPT ![item.code] = item.price]
                                ELSE items_map
           ELSE UNCHANGED <<item_tmp, updated_items, items_map>>
        /\ UNCHANGED <<pc, todo, file, vars_found, dumped, disk, history>>

\* (mutant) a file that could not be renamed is tried again at once
RenameFileOrRetry ==
    /\ pc = "rows"
    /\ row > Len(rows_of[file]) \/ file \in Nested
    /\ pc' = "folder"
    /\ vars_found' = TRUE
    /\ vars_folder' \in {vars_folder, vars_folder \ {file}}
    /\ todo' = IF file \in vars_folder' THEN todo ELSE todo \ {file}
    /\ UNCHANGED <<file, row, item_tmp, updated_items, dumped, items_map,
                   items_csv, items_old, delivered, history>>

\* (mutant) a file that could not be renamed does not count as found
RenameFileChecked ==
    /\ pc = "rows"
    /\ row > Len(rows_of[file]) \/ file \in Nested
    /\ pc' = "folder"
    /\ todo' = todo \ {file}
    /\ vars_folder' \in {vars_folder, vars_folder \ {file}}
    /\ vars_found' = (vars_found \/ file \notin vars_folder')
    /\ UNCHANGED <<file, row, item_tmp, updated_items, dumped, items_map,
                   items_csv, items_old, delivered, history>>

\* .VAR becomes .VAR.OLD; nobody looks whether that went well.
RenameFile ==
    /\ pc = "rows"
    /\ row > Len(rows_of[file]) \/ file \in Nested
    /\ pc' = "folder"
    /\ todo' = todo \ {file}
    /\ vars_found' = TRUE
    /\ \/ file \notin Nested /\ vars_folder' = vars_folder \ {file}
       \/ UNCHANGED vars_folder
    /\ UNCHANGED <<file, row, item_tmp, updated_items, dumped, items_map,
                   items_csv, items_old, delivered, history>>

\* updated_items is never reset: from the first item on, every pass that finds
\* a file saves.
EndFolder ==
    /\ pc = "folder"
    /\ todo = {}
    /\ pc' = IF vars_found /\ updated_items THEN "move" ELSE "sleep"
    /\ UNCHANGED <<todo, file, row, item_tmp, updated_items, vars_found, dumped,
                   items_map, disk, history>>

-----------------------------------------------------------------------------
(* The save *)

\* (mutant) ITEMS.CSV is not moved away but overwritten
MoveArchiveNot ==
    /\ pc = "move"
    /\ pc' = "open"
    /\ UNCHANGED <<todo, file, row, item_tmp, updated_items, vars_found, dumped, items_map,
                   disk, history>>

\* ITEMS.CSV becomes ITEMS.OLD; when that fails nothing is saved.
MoveArchive ==
    /\ pc = "move"
    /\ \/ /\ items_csv # NoFile
          /\ pc' = "open"
          /\ items_old' = items_csv
          /\ items_csv' = NoFile
          /\ damage' = IF damage = "torn" THEN "used" ELSE damage
          /\ UNCHANGED unsaved
       \/ /\ pc' = "sleep"
          /\ unsaved' = TRUE
          /\ UNCHANGED <<items_csv, items_old, damage>>
    /\ UNCHANGED <<todo, file, row, item_tmp, updated_items, vars_found, dumped, items_map,
                   vars_folder, delivered, settled>>

\* dumpToFile makes the new file ...
OpenDump ==
    /\ pc = "open"
    /\ pc' = "dump"
    /\ dumped' = {}
    /\ items_csv' = NoItems
    /\ UNCHANGED <<todo, file, row, item_tmp, updated_items, vars_found, items_map,
                   items_old, vars_folder, delivered, history>>

\* ... or cannot, and asks no more than after it: there is no ITEMS.CSV, and no
\* later save of this process can move it away.
OpenDumpFails ==
    /\ pc = "open"
    /\ pc' = "sleep"
    /\ damage' = IF damage = "none" THEN "torn" ELSE damage
    /\ UNCHANGED <<todo, file, row, item_tmp, updated_items, vars_found, dumped, items_map,
                   disk, settled, unsaved>>

ToDump == {c \in Codes \ dumped : items_map[c] # NoItem}

\* dumpToFile, one row.
DumpRow(c) ==
    /\ pc = "dump"
    /\ c \in ToDump
    /\ \A d \in ToDump : c <= d
    /\ dumped' = dumped \cup {c}
    /\ items_csv' = [items_csv EXCEPT ![c] = items_map[c]]
    /\ UNCHANGED <<pc, todo, file, row, item_tmp, updated_items, vars_found, items_map,
                   items_old, vars_folder, delivered, history>>

\* The disk is full: a row without its last columns takes those of the row
\* before it when it is read, a price may lose digits; no more is written, and
\* nobody asks.
DumpFails ==
    /\ pc = "dump"
    /\ ToDump # {}
    /\ pc' = "sleep"
    /\ \E c \in ToDump, price \in Prices \cup {NoItem} :
          /\ \A d \in ToDump : c <= d
          /\ items_csv' = [items_csv EXCEPT ![c] = price]
    /\ damage' = IF damage = "none" THEN "torn" ELSE damage
    /\ UNCHANGED <<todo, file, row, item_tmp, updated_items, vars_found, dumped, items_map,
                   items_old, vars_folder, delivered, settled, unsaved>>

\* (mutant) the last row is left out
EndDumpEarly ==
    /\ pc = "dump"
    /\ \E c \in Codes : ToDump \subseteq {c}
    /\ pc' = "sleep"
    /\ settled' = items_map
    /\ unsaved' = FALSE
    /\ damage' = "none"
    /\ UNCHANGED <<todo, file, row, item_tmp, updated_items, vars_found, dumped, items_map, disk>>

\* Every item of the memory is in ITEMS.CSV, whatever a save before it left.
EndDump ==
    /\ pc = "dump"
    /\ ToDump = {}
    /\ pc' = "sleep"
    /\ settled' = items_map
    /\ unsaved' = FALSE
    /\ damage' = "none"
    /\ UNCHANGED <<todo, file, row, item_tmp, updated_items, vars_found, dumped, items_map, disk>>

-----------------------------------------------------------------------------
\* Someone puts a .VAR file into VARS; a pass that goes on may see it or not.
Deliver(f) ==
    /\ f \notin delivered
    /\ delivered' = delivered \cup {f}
    /\ vars_folder' = vars_folder \cup {f}
    /\ todo' \in {todo, IF pc \in {"folder", "rows"} THEN todo \cup {f} ELSE todo}
    /\ UNCHANGED <<pc, file, row, item_tmp, updated_items, vars_found, dumped, items_map,
                   items_csv, items_old, history>>

VariationThread ==
    \/ BeginPass
    \/ \E f \in VarFiles : OpenFile(f)
    \/ NextRow \/ RenameFile \/ EndFolder
    \/ MoveArchive \/ OpenDump \/ OpenDumpFails \/ DumpFails \/ EndDump
    \/ \E c \in Codes : DumpRow(c)

LoaderNext ==
    \/ ReadArchive \/ StartThread \/ Die
    \/ VariationThread
    \/ \E f \in VarFiles : Deliver(f)

LoaderSpec == Init /\ [][LoaderNext]_vars

-----------------------------------------------------------------------------
(* Properties *)

\* Whenever the process ends, all the items of the last complete save (or of
\* the archive the store was opened with) are on the disk, in ITEMS.CSV or,
\* during a save and after a torn one, in ITEMS.OLD.  The exception is the time
\* from a start or a save that made use of a torn ITEMS.CSV to the next complete
\* save, which ends it.
ArchiveSurvives == damage # "used" => settled \in {items_csv, items_old}

\* A pass leaves nothing behind: when the thread sleeps, every item that the
\* variations changed in memory is in ITEMS.CSV too, unless ITEMS.CSV could
\* not be moved or written and no complete save has followed.
SavedAsleep ==
    pc = "sleep" /\ ~unsaved /\ damage = "none" => items_map = settled /\ items_csv = settled

\* The thread, the two files and the starts keep the promise of Catalogue: a
\* pass saves all its variations or none, and a process finds what was saved,
\* except between a torn save and the next complete one.
Promise == INSTANCE Catalogue WITH
    working <- pc \notin {"off", "loaded"},
    catalogue <- IF pc = "off" THEN settled ELSE items_map,
    saved <- settled,
    torn <- damage # "none"
KeepsPromise == Promise!Spec

\* A variation file put into VARS itself is opened, as long as the process
\* lives: files that cannot be renamed or archives that cannot be written do
\* not keep the thread from it.
VariationsArrive ==
    \A f \in VarFiles \ Nested :
        f \in vars_folder /\ pc # "off" ~> pc = "off" \/ (pc = "rows" /\ file = f)
=============================================================================
