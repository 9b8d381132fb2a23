---------------------------- MODULE LibraryIndex ----------------------------
(***************************************************************************)
(* The library index (nks-index): scanners walk the preset folders and     *)
(* upsert what they parse into one SQLite file, which queries read through *)
(* connections of their own while presets are saved and deleted.  A        *)
(* scanner is the daemon (its scans take turns, main.rs) or a run of       *)
(* mkindex, a process of its own.                                          *)
(*                                                                         *)
(* A version of a preset file stands for its metadata, and for the mtime   *)
(* and size it is recognised by: every save changes one of the two.        *)
(* SQLite, external: a connection sees what is committed, one transaction  *)
(* writes at a time, and one that is dropped is undone.  presets_fts is a  *)
(* contentless FTS5 table (schema.sql), from which no row can be deleted.  *)
(***************************************************************************)
EXTENDS Naturals, LibraryWatcher

CONSTANTS
  Scanners,
  Folders, Root,  \* the folders of the library; the others lie in Root
  FolderOf,       \* FolderOf[p]: the folder of preset p
  Locked,         \* folders that must not be read
  MaxVersion,     \* bound: saves of a preset
  MaxOther        \* bound: changes of files that are no presets

ASSUME LibraryAssumption ==
  /\ Root \in Folders /\ Locked \subseteq Folders
  /\ FolderOf \in [Presets -> Folders]
  /\ MaxVersion \in Nat \ {0} /\ MaxOther \in Nat
  /\ None \notin Presets \cup Scanners

VARIABLES
  files,  \* files[p]: the version of preset p on disk, 0 if there is none
  saves,  \* saves[p]: versions saved so far
  others, \* changes of other files so far
  db,     \* committed tables: version of p that stamp (mtime and size), name
          \* (and the other columns), types and words (presets_fts) are of
  tx,     \* the tables as the open write transaction sees them, or NoTx
  scan    \* what each scanner is doing

libVars == <<files, saves, others>>
vars == <<libVars, db, tx, scan, watchVars>>

Versions == 0..MaxVersion
Tables == [stamp : [Presets -> Versions], name : [Presets -> Versions],
           types : [Presets -> Versions], words : [Presets -> Versions]]
NoRows == [p \in Presets |-> 0]
Empty == [stamp |-> NoRows, name |-> NoRows, types |-> NoRows, words |-> NoRows]
NoTx == [by |-> None, tables |-> Empty]

\* Three histories: the presets that the scan counted as failed, those whose
\* directory entry, or folder, it passed by without a word, and those saved or
\* deleted since it began.
Idle == [at |-> "idle", folders |-> {}, entries |-> {}, preset |-> None,
         stamp |-> 0, version |-> 0, failed |-> {}, lost |-> {}, changed |-> {}]

Init ==
  /\ files \in [Presets -> {0, 1}]
  /\ saves = files
  /\ others = 0
  /\ db = Empty
  /\ tx = NoTx
  /\ scan = [s \in Scanners |-> Idle]
  /\ WatchInit

----------------------------------------------------------------------------
\* The library

Change(p, version) ==
  /\ files' = [files EXCEPT ![p] = version]
  /\ scan' = [s \in Scanners |->
                [scan[s] EXCEPT !.changed = @ \cup {p}]]
  /\ Notify(p)
  /\ UNCHANGED <<others, db, tx>>

Save(p) ==
  /\ saves[p] < MaxVersion
  /\ saves' = [saves EXCEPT ![p] = @ + 1]
  /\ Change(p, saves[p] + 1)

Delete(p) == files[p] # 0 /\ Change(p, 0) /\ UNCHANGED saves

----------------------------------------------------------------------------
\* Scanner::scan_root and walk

Goes(s, from, to) == scan[s].at = from /\ scan' = [scan EXCEPT ![s] = to]
NoChange == UNCHANGED <<libVars, watchVars>>
OnlyScan == UNCHANGED <<libVars, db, tx, watchVars>>

StartScan(s) ==
  /\ scan[s].at \in {"idle", "done"}
  /\ scan' = [scan EXCEPT ![s] = [Idle EXCEPT !.at = "walk", !.folders = {Root}]]
  /\ OnlyScan

Present == {p \in Presets : files[p] # 0}
In(f) == {p \in Presets : FolderOf[p] = f}

\* exists() answers false of a root that is not there, and of one that cannot
\* be examined: the scan ends, with nothing seen.
RootMissing(s) ==
  /\ scan[s].at \in {"idle", "done"}
  /\ scan' = [scan EXCEPT ![s] = [Idle EXCEPT !.at = "done", !.lost = Present]]
  /\ OnlyScan

Subfolders(f) == IF f = Root THEN Folders \ {Root} ELSE {}

Denied(s, f) == [scan[s] EXCEPT !.folders = @ \ {f}]

\* read_dir's iterator, without the entries that are errors, which flatten()
\* drops, and the folders that is_dir() cannot examine and takes for files.
Listed(s, f, folders, entries) ==
  [scan[s] EXCEPT
     !.folders = (@ \ {f}) \cup folders,
     !.entries = entries,
     !.lost = @ \cup {p \in Present \ entries :
                       FolderOf[p] \in {f} \cup (Subfolders(f) \ folders)}]

ReadFolder(s) ==
  /\ scan[s].entries = {}
  /\ \E f \in scan[s].folders :
       \/ f \in Locked /\ Goes(s, "walk", Denied(s, f))
       \/ /\ f \notin Locked
          /\ \E folders \in SUBSET Subfolders(f), entries \in SUBSET (In(f) \cap Present) :
               Goes(s, "walk", Listed(s, f, folders, entries))
  /\ OnlyScan

\* A folder that read_dir cannot open for any other reason, because it is gone
\* for one, ends the scan.
ReadFails(s) ==
  /\ scan[s].folders # {} /\ scan[s].entries = {}
  /\ Goes(s, "walk", Idle)
  /\ OnlyScan

EndScan(s) ==
  /\ scan[s].folders = {} /\ scan[s].entries = {}
  /\ Goes(s, "walk", [scan[s] EXCEPT !.at = "done"])
  /\ OnlyScan

----------------------------------------------------------------------------
\* Scanner::upsert

Visited(s, p) == [scan[s] EXCEPT !.at = "walk", !.entries = @ \ {p}, !.preset = None,
                                 !.stamp = 0, !.version = 0]
Failed(s, p) == [Visited(s, p) EXCEPT !.failed = @ \cup {p}]

\* Mutant of Unchanged: a preset that is in the index is not looked at again.
UnchangedOnceSeen(p) == db.stamp[p] # 0

Unchanged(p) == db.stamp[p] = files[p]

\* Metadata first: what is read later may be newer than the stamp.  Where it
\* cannot be had, because the file is gone for one, the preset has failed.  A
\* SELECT that fails is taken for a preset that is not in the index.
Stat(s, p) ==
  /\ p \in scan[s].entries
  /\ \/ Goes(s, "walk", Failed(s, p))
     \/ files[p] # 0 /\ Unchanged(p) /\ Goes(s, "walk", Visited(s, p))
     \/ /\ files[p] # 0
        /\ Goes(s, "walk", [scan[s] EXCEPT !.at = "parse", !.preset = p,
                                           !.stamp = files[p]])
  /\ OnlyScan

\* Mutant of StampOf: mtime and size are kept as their sum.
StampSum(s) == scan[s].stamp + scan[s].stamp

\* Mutant of StampOf: the metadata is taken when the file has been indexed.
StampOfFile(s) == files[scan[s].preset]

StampOf(s) == scan[s].stamp

\* NksFile::scan
Parse(s) ==
  /\ Goes(s, "parse", [scan[s] EXCEPT !.at = "insert", !.version = files[scan[s].preset]])
  /\ scan'[s].version # 0
  /\ OnlyScan

\* The file is gone, is not an NKS file, or cannot be read.
ParseFails(s) ==
  /\ Goes(s, "parse", Failed(s, scan[s].preset))
  /\ OnlyScan

\* The first statement takes the write lock.
InsertRow(s) ==
  /\ tx = NoTx
  /\ Goes(s, "insert", [scan[s] EXCEPT !.at = "types"])
  /\ tx' = [by |-> s, tables |->
             [db EXCEPT !.stamp[scan[s].preset] = StampOf(s),
                        !.name[scan[s].preset] = scan[s].version]]
  /\ NoChange /\ UNCHANGED db

\* Another scanner has the lock for longer than SQLite waits.
Busy(s) ==
  /\ tx # NoTx
  /\ Goes(s, "insert", Failed(s, scan[s].preset))
  /\ OnlyScan

\* preset_types and preset_modes: deleted and inserted.
ReplaceTypes(s) ==
  /\ Goes(s, "types", [scan[s] EXCEPT !.at = "words"])
  /\ tx' = [tx EXCEPT !.tables.types[scan[s].preset] = scan[s].version]
  /\ NoChange /\ UNCHANGED db

\* A row of a contentless table is in the way of its DELETE.
HasWords(p) == tx.tables.words[p] # 0

ReplaceWords(s) ==
  /\ Goes(s, "words", [scan[s] EXCEPT !.at = "commit"])
  /\ ~HasWords(scan[s].preset)
  /\ tx' = [tx EXCEPT !.tables.words[scan[s].preset] = scan[s].version]
  /\ NoChange /\ UNCHANGED db

Commit(s) ==
  /\ Goes(s, "commit", Visited(s, scan[s].preset))
  /\ db' = tx.tables
  /\ tx' = NoTx
  /\ NoChange

\* Mutant of Rollback: statements take effect one by one.
RollbackNot == db' = tx.tables /\ tx' = NoTx

Rollback == tx' = NoTx /\ UNCHANGED db

\* The DELETE fails, or any statement for want of space: upsert returns, which
\* drops the transaction.
StatementFails(s) ==
  /\ tx.by = s
  /\ Goes(s, scan[s].at, Failed(s, scan[s].preset))
  /\ Rollback
  /\ NoChange

\* The process ends.
Crash(s) ==
  /\ scan[s].at # "idle"
  /\ scan' = [scan EXCEPT ![s] = Idle]
  /\ IF tx.by = s THEN Rollback ELSE UNCHANGED <<db, tx>>
  /\ NoChange

ScannerStep(s) ==
  \/ StartScan(s) \/ RootMissing(s) \/ ReadFolder(s) \/ ReadFails(s) \/ EndScan(s)
  \/ \E p \in Presets : Stat(s, p)
  \/ Parse(s) \/ ParseFails(s) \/ InsertRow(s) \/ Busy(s) \/ ReplaceTypes(s) \/ ReplaceWords(s)
  \/ Commit(s) \/ StatementFails(s) \/ Crash(s)

WatcherStep == WatchNext /\ UNCHANGED <<libVars, db, tx, scan>>

OtherFileChanges ==
  /\ others < MaxOther
  /\ others' = others + 1
  /\ Notify(None)
  /\ UNCHANGED <<files, saves, db, tx, scan>>

Next ==
  \/ \E p \in Presets : Save(p) \/ Delete(p)
  \/ OtherFileChanges
  \/ \E s \in Scanners : ScannerStep(s)
  \/ WatcherStep

Spec == Init /\ [][Next]_vars /\ WatchFairness

----------------------------------------------------------------------------
\* query::run

Any == MaxVersion + 1

\* The presets found by a text, a type, both or neither: presets joined with
\* preset_types and presets_fts.  A version is found by its own words and types.
Results(text, type) ==
  {p \in Presets : /\ db.stamp[p] # 0
                   /\ type # Any => db.types[p] = type
                   /\ text # Any => db.words[p] = text}

----------------------------------------------------------------------------

ScanStates == {"idle", "walk", "parse", "insert", "types", "words", "commit",
               "done"}

TypeOK ==
  /\ files \in [Presets -> Versions] /\ saves \in [Presets -> Versions]
  /\ others \in 0..MaxOther
  /\ db \in Tables
  /\ tx \in [by : Scanners \cup {None}, tables : Tables]
  /\ scan \in [Scanners -> [at : ScanStates, folders : SUBSET Folders,
                            entries : SUBSET Presets, preset : Presets \cup {None},
                            stamp : Versions, version : Versions,
                            failed : SUBSET Presets, lost : SUBSET Presets,
                            changed : SUBSET Presets]]
  /\ WatchTypeOK

\* A search answers from three tables as from one: whatever is asked, it finds
\* exactly the presets whose row is of the version asked for, while scanners
\* write, fail, wait for one another and crash between two statements.
SearchAgrees ==
  \A text, type \in (1..MaxVersion) \cup {Any} :
    Results(text, type) =
      {p \in Presets : db.name[p] # 0 /\ {text, type} \subseteq {Any, db.name[p]}}

\* A row with the mtime and size of the file, which every later scan passes
\* over, has its content, though the file may change between the reading of
\* its metadata and the reading of its content.
LooksCurrentIsCurrent ==
  \A p \in Presets : db.stamp[p] # 0 /\ db.stamp[p] = files[p] => db.name[p] = files[p]

\* The walk gets to the folder of p: it may be read, and so may the root.
Reachable(p) == {Root, FolderOf[p]} \cap Locked = {}

\* A scan that ends without error has indexed every preset that stayed as it
\* was since the scan began, in a folder that can be reached, except those it
\* counted as failed and those whose entries the file system failed to give.
\* No interleaving of two scanners, no transaction that is undone and no change
\* of another preset makes it pass a preset by.
ScanComplete ==
  \A s \in Scanners : scan[s].at = "done" =>
    \A p \in Presets \ (scan[s].changed \cup scan[s].failed \cup scan[s].lost) :
      files[p] # 0 /\ Reachable(p) => db.stamp[p] = files[p]

\* "SQLite FTS5 virtual tables don't support UPSERT, so we delete + insert to
\* keep updates idempotent" (scanner.rs:139): the words of a preset can be
\* replaced whether or not it is in the index.
UpdatesAreIdempotent ==
  \A s \in Scanners : scan[s].at = "words" => ENABLED ReplaceWords(s)
=============================================================================
