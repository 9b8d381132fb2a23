------------------------ MODULE LibraryIndex_proofs ------------------------
(***************************************************************************)
(* Proofs about LibraryIndex, for any presets, folders, scanners and       *)
(* versions.                                                               *)
(***************************************************************************)
EXTENDS LibraryIndex, TLAPS

Scan == [at : ScanStates, folders : SUBSET Folders,
         entries : SUBSET Presets, preset : Presets \cup {None},
         stamp : Versions, version : Versions,
         failed : SUBSET Presets, lost : SUBSET Presets,
         changed : SUBSET Presets]

\* The stages in which a scanner has the write transaction.
TxStages == {"types", "words", "commit"}

\* What is on disk is the last save.
FilesAreSaved == \A p \in Presets : files[p] \in {0, saves[p]}

\* The four tables are of one version of preset p.
Agree(tables, p) ==
  /\ tables.stamp[p] # 0 <=> tables.name[p] # 0
  /\ tables.types[p] = tables.name[p]
  /\ tables.words[p] = tables.name[p]

DbAgrees == \A p \in Presets : Agree(db, p)

\* No content is older than its stamp, and none is from the future.
Aged(tables) ==
  \A p \in Presets : tables.stamp[p] <= tables.name[p] /\ tables.name[p] <= saves[p]

\* What a scanner that works on a preset knows of it.
Working(r) ==
  r.at \in {"parse", "insert"} \cup TxStages =>
    /\ r.preset \in Presets
    /\ 0 < r.stamp /\ r.stamp <= saves[r.preset]
    /\ r.at # "parse" => r.stamp <= r.version /\ r.version <= saves[r.preset]

Owned == \A s \in Scanners : scan[s].at \in TxStages <=> tx.by = s

\* How far the transaction of scanner s has come.
Replaced(s) ==
  LET p == scan[s].preset IN
  /\ \A q \in Presets \ {p} : Agree(tx.tables, q)
  /\ tx.tables.stamp[p] = scan[s].stamp /\ tx.tables.name[p] = scan[s].version
  /\ scan[s].at \in {"words", "commit"} => tx.tables.types[p] = scan[s].version
  /\ scan[s].at = "commit" => tx.tables.words[p] = scan[s].version

TxReplaces == \A s \in Scanners : tx.by = s => Replaced(s)

IInv ==
  /\ TypeOK
  /\ FilesAreSaved
  /\ DbAgrees /\ Aged(db) /\ Aged(tx.tables)
  /\ \A s \in Scanners : Working(scan[s])
  /\ Owned
  /\ TxReplaces

----------------------------------------------------------------------------

\* The empty tables are tables.
LEMMA EmptyTyped == Empty \in Tables /\ NoTx \in [by : Scanners \cup {None}, tables : Tables]
  BY LibraryAssumption DEF Empty, NoTx, NoRows, Tables, Versions

\* A scanner that scans nothing is a scanner.
LEMMA IdleTyped == Idle \in Scan
  BY LibraryAssumption DEF Idle, Scan, ScanStates, Versions

\* The index is empty, and no file has been saved or seen.
LEMMA InitIInv == Init => IInv
<1> SUFFICES ASSUME Init PROVE IInv
  OBVIOUS
<1> USE DEF Init
<1>1. TypeOK
  <2>1. files \in [Presets -> Versions] /\ saves \in [Presets -> Versions]
    BY LibraryAssumption DEF Versions
  <2> QED
    BY <2>1, EmptyTyped, IdleTyped, LibraryAssumption
    DEF TypeOK, Scan, WatchInit, WatchTypeOK
<1>2. FilesAreSaved
  BY DEF FilesAreSaved
<1>3. DbAgrees /\ Aged(db) /\ Aged(tx.tables)
  BY <1>1 DEF DbAgrees, Agree, Aged, Empty, NoTx, NoRows, TypeOK, Versions
<1>4. Owned /\ TxReplaces /\ \A s \in Scanners : Working(scan[s])
  BY LibraryAssumption
  DEF Owned, TxReplaces, Working, Idle, NoTx, TxStages
<1> QED BY <1>1, <1>2, <1>3, <1>4 DEF IInv

----------------------------------------------------------------------------
\* The steps of the walk, and the reading of a file: only what scanner s knows
\* changes, and it has no transaction before or after.
LEMMA ScanOnly ==
  ASSUME IInv, NEW s \in Scanners, NEW r \in Scan,
         scan[s].at \notin TxStages, r.at \notin TxStages, Working(r),
         scan' = [scan EXCEPT ![s] = r], OnlyScan
  PROVE  IInv'
<1> USE DEF IInv, OnlyScan, libVars, watchVars
<1>1. TypeOK'
  BY DEF TypeOK, Scan, WatchTypeOK
<1>2. FilesAreSaved' /\ DbAgrees' /\ Aged(db)' /\ Aged(tx.tables)'
  BY DEF FilesAreSaved, DbAgrees, Agree, Aged
<1>3. \A t \in Scanners : scan'[t] = IF t = s THEN r ELSE scan[t]
  BY DEF TypeOK
<1>4. (\A t \in Scanners : Working(scan[t]))'
  BY <1>3 DEF Working
<1>5. Owned'
  BY <1>3 DEF Owned
<1>6. TxReplaces'
  <2> SUFFICES ASSUME NEW t \in Scanners, tx.by = t
               PROVE  Replaced(t)'
    BY DEF TxReplaces
  <2>1. t # s /\ scan'[t] = scan[t]
    BY <1>3 DEF Owned
  <2> QED BY <2>1 DEF TxReplaces, Replaced, Agree
<1> QED BY <1>1, <1>2, <1>4, <1>5, <1>6

\* What a scanner that leaves a preset knows.
LEMMA LeavesTyped ==
  ASSUME TypeOK, NEW s \in Scanners, NEW p \in Presets
  PROVE  /\ Visited(s, p) \in Scan /\ Failed(s, p) \in Scan
         /\ Visited(s, p).at = "walk" /\ Failed(s, p).at = "walk"
<1>1. scan[s] \in Scan
  BY DEF TypeOK, Scan
<1>2. 0 \in Versions
  BY LibraryAssumption DEF Versions
<1>3. Visited(s, p) \in Scan /\ Visited(s, p).at = "walk"
  BY <1>1, <1>2 DEF Visited, Scan, ScanStates
<1> QED BY <1>3 DEF Failed, Scan

\* The walk reads and remembers; it leaves the tables alone.
LEMMA WalkIInv ==
  ASSUME IInv, NEW s \in Scanners,
         \/ StartScan(s) \/ RootMissing(s)
         \/ ReadFolder(s) \/ ReadFails(s) \/ EndScan(s)
  PROVE  IInv'
<1> USE DEF IInv, Goes
<1>1. scan[s] \in Scan
  BY DEF TypeOK, Scan
<1>2. CASE StartScan(s)
  <2> DEFINE r == [Idle EXCEPT !.at = "walk", !.folders = {Root}]
  <2>1. r \in Scan /\ r.at = "walk"
    BY IdleTyped, LibraryAssumption DEF Scan, ScanStates
  <2> QED BY <1>2, <2>1, ScanOnly DEF StartScan, TxStages, Working
<1>3. CASE ReadFolder(s)
  <2>1. scan[s].at = "walk" /\ OnlyScan
    BY <1>3 DEF ReadFolder
  <2>2. PICK f \in scan[s].folders :
          \/ scan' = [scan EXCEPT ![s] = Denied(s, f)]
          \/ \E folders \in SUBSET Subfolders(f),
               entries \in SUBSET (In(f) \cap Present) :
               scan' = [scan EXCEPT ![s] = Listed(s, f, folders, entries)]
    BY <1>3 DEF ReadFolder
  <2>3. Denied(s, f) \in Scan /\ Denied(s, f).at = "walk"
    BY <1>1, <2>1 DEF Denied, Scan
  <2>4. ASSUME NEW folders \in SUBSET Subfolders(f),
               NEW entries \in SUBSET (In(f) \cap Present)
        PROVE  /\ Listed(s, f, folders, entries) \in Scan
               /\ Listed(s, f, folders, entries).at = "walk"
    <3>1. folders \subseteq Folders /\ entries \subseteq Presets
      BY DEF Subfolders, In
    <3> QED BY <1>1, <2>1, <3>1 DEF Listed, Scan, Present
  <2>5. PICK r \in Scan : r.at = "walk" /\ scan' = [scan EXCEPT ![s] = r]
    BY <2>2, <2>3, <2>4
  <2> QED BY <2>1, <2>5, ScanOnly DEF TxStages, Working
<1>4. CASE ReadFails(s)
  BY <1>4, IdleTyped, ScanOnly DEF ReadFails, Idle, TxStages, Working
<1>5. CASE EndScan(s)
  <2> DEFINE r == [scan[s] EXCEPT !.at = "done"]
  <2>1. r \in Scan /\ r.at = "done"
    BY <1>1 DEF Scan, ScanStates
  <2> QED BY <1>5, <2>1, ScanOnly DEF EndScan, TxStages, Working
<1>6. CASE RootMissing(s)
  <2> DEFINE r == [Idle EXCEPT !.at = "done", !.lost = Present]
  <2>1. r \in Scan /\ r.at = "done"
    BY IdleTyped DEF Scan, ScanStates, Present
  <2> QED BY <1>6, <2>1, ScanOnly DEF RootMissing, TxStages, Working
<1> QED BY <1>2, <1>3, <1>4, <1>5, <1>6

\* The stamp is that of the last save, the content at least as new.
LEMMA ReadIInv ==
  ASSUME IInv, NEW s \in Scanners,
         (\E p \in Presets : Stat(s, p)) \/ Parse(s) \/ ParseFails(s) \/ Busy(s)
  PROVE  IInv'
<1> USE DEF IInv, Goes
<1>1. scan[s] \in Scan
  BY DEF TypeOK, Scan
<1>2. ASSUME NEW p \in Presets, Stat(s, p) PROVE IInv'
  <2> USE <1>2 DEF Stat
  <2>1. CASE \/ scan' = [scan EXCEPT ![s] = Failed(s, p)]
             \/ scan' = [scan EXCEPT ![s] = Visited(s, p)]
    BY <2>1, LeavesTyped, ScanOnly DEF TxStages, Working
  <2>2. CASE /\ files[p] # 0
             /\ scan' = [scan EXCEPT ![s] = [scan[s] EXCEPT !.at = "parse", !.preset = p,
                                                           !.stamp = files[p]]]
    <3> DEFINE r == [scan[s] EXCEPT !.at = "parse", !.preset = p, !.stamp = files[p]]
    <3>1. r \in Scan
      BY <1>1 DEF Scan, ScanStates, TypeOK
    <3>2. r.at = "parse" /\ r.preset = p /\ r.stamp = files[p]
      BY <1>1 DEF Scan
    <3>3. 0 < files[p] /\ files[p] <= saves[p]
      <4>1. files[p] \in 0..MaxVersion
        BY DEF TypeOK, Versions
      <4>2. files[p] = saves[p]
        BY <2>2 DEF FilesAreSaved
      <4>3. MaxVersion \in Nat /\ files[p] # 0
        BY <2>2, LibraryAssumption
      <4> HIDE DEF IInv, Stat, Goes
      <4> QED BY <4>1, <4>2, <4>3
    <3>4. Working(r)
      BY <3>2, <3>3 DEF Working, TxStages
    <3>5. scan' = [scan EXCEPT ![s] = r] /\ OnlyScan
      BY <2>2
    <3> HIDE DEF r
    <3> QED BY <3>1, <3>2, <3>4, <3>5, ScanOnly DEF TxStages
  <2> QED BY <2>1, <2>2
<1>3. CASE Parse(s)
  <2> DEFINE p == scan[s].preset
             r == [scan[s] EXCEPT !.at = "insert", !.version = files[p]]
  <2>1. scan[s].at = "parse" /\ scan' = [scan EXCEPT ![s] = r] /\ OnlyScan /\ r.version # 0
    BY <1>3 DEF Parse, TypeOK
  <2>2. p \in Presets /\ 0 < scan[s].stamp /\ scan[s].stamp <= saves[p]
    BY <2>1 DEF Working
  <2>3. r \in Scan /\ r.at = "insert" /\ r.preset = p /\ r.stamp = scan[s].stamp
          /\ r.version = files[p]
    BY <1>1, <2>2 DEF Scan, ScanStates, TypeOK
  <2>4. files[p] = saves[p]
    BY <2>1, <2>2, <2>3 DEF FilesAreSaved
  <2>5. Working(r)
    BY <2>2, <2>3, <2>4, LibraryAssumption DEF Working, TxStages, TypeOK, Versions
  <2> HIDE DEF r
  <2> QED BY <2>1, <2>3, <2>5, ScanOnly DEF TxStages
<1>4. CASE ParseFails(s) \/ Busy(s)
  <2>1. scan[s].at \in {"parse", "insert"} /\ scan[s].preset \in Presets
    BY <1>4 DEF ParseFails, Busy, Working
  <2> QED BY <1>4, <2>1, LeavesTyped, ScanOnly DEF ParseFails, Busy, TxStages, Working
<1> QED BY <1>2, <1>3, <1>4

----------------------------------------------------------------------------
\* The write transaction

\* A statement of scanner s on the row of its preset p: what holds of the
\* tables of the transaction t before holds of the others' rows after.
LEMMA StatementIInv ==
  ASSUME IInv, NEW s \in Scanners, NEW r \in Scan, NEW t \in Tables,
         tx.by \in {None, s}, r.at \in TxStages, Working(r),
         r.preset = scan[s].preset,
         \A q \in Presets \ {r.preset} : Agree(t, q),
         t.stamp[r.preset] = r.stamp, t.name[r.preset] = r.version,
         r.at \in {"words", "commit"} => t.types[r.preset] = r.version,
         r.at = "commit" => t.words[r.preset] = r.version,
         Aged(t),
         scan' = [scan EXCEPT ![s] = r], tx' = [by |-> s, tables |-> t],
         NoChange, UNCHANGED db
  PROVE  IInv'
<1> USE DEF IInv, NoChange, libVars, watchVars
<1>1. TypeOK'
  BY DEF TypeOK, Scan, WatchTypeOK
<1>2. FilesAreSaved' /\ DbAgrees' /\ Aged(db)' /\ Aged(tx.tables)'
  BY DEF FilesAreSaved, DbAgrees, Agree, Aged
<1>3. \A u \in Scanners : scan'[u] = IF u = s THEN r ELSE scan[u]
  BY DEF TypeOK
<1>4. (\A u \in Scanners : Working(scan[u]))'
  BY <1>3 DEF Working
<1>5. Owned'
  <2> SUFFICES ASSUME NEW u \in Scanners
               PROVE  scan'[u].at \in TxStages <=> s = u
    BY DEF Owned
  <2>1. CASE u = s
    BY <2>1, <1>3
  <2>2. CASE u # s
    BY <2>2, <1>3, LibraryAssumption DEF Owned
  <2> QED BY <2>1, <2>2
<1>6. TxReplaces'
  BY <1>3 DEF TxReplaces, Replaced, Agree
<1> QED BY <1>1, <1>2, <1>4, <1>5, <1>6

\* The row of a transaction is that of the version read.
LEMMA InsertRowIInv ==
  ASSUME IInv, NEW s \in Scanners, InsertRow(s)
  PROVE  IInv'
<1> DEFINE p == scan[s].preset
           r == [scan[s] EXCEPT !.at = "types"]
           t == [db EXCEPT !.stamp[p] = scan[s].stamp, !.name[p] = scan[s].version]
<1>1. /\ scan[s] \in Scan /\ scan[s].at = "insert"
      /\ p \in Presets /\ 0 < scan[s].stamp /\ scan[s].stamp <= saves[p]
      /\ scan[s].stamp <= scan[s].version /\ scan[s].version <= saves[p]
  BY DEF InsertRow, Goes, IInv, TypeOK, Scan, Working
<1>2. r \in Scan /\ r.at = "types" /\ r.preset = p /\ r.stamp = scan[s].stamp
        /\ r.version = scan[s].version
  BY <1>1 DEF Scan, ScanStates
<1>3. db \in Tables /\ scan[s].stamp \in Versions /\ scan[s].version \in Versions
  BY <1>1 DEF IInv, TypeOK, Scan
<1>4. /\ t \in Tables
      /\ \A q \in Presets : /\ t.stamp[q] = IF q = p THEN scan[s].stamp ELSE db.stamp[q]
                            /\ t.name[q] = IF q = p THEN scan[s].version ELSE db.name[q]
                            /\ t.types[q] = db.types[q] /\ t.words[q] = db.words[q]
  BY <1>1, <1>3 DEF Tables
<1>5. Working(r)
  BY <1>1, <1>2 DEF Working
<1>6. scan' = [scan EXCEPT ![s] = r] /\ tx' = [by |-> s, tables |-> t]
        /\ tx.by = None /\ NoChange /\ UNCHANGED db
  BY DEF InsertRow, Goes, StampOf, NoTx
<1> HIDE DEF r, t
<1>7. ASSUME NEW q \in Presets \ {p}
      PROVE  Agree(t, q)
  <2>1. Agree(db, q)
    BY DEF IInv, DbAgrees
  <2> QED BY <1>4, <2>1 DEF Agree
<1>8. Aged(t)
  BY <1>1, <1>4 DEF IInv, Aged
<1> QED BY <1>1, <1>2, <1>4, <1>5, <1>6, <1>7, <1>8, StatementIInv DEF TxStages

\* The words and the types follow the row within the transaction.
LEMMA ReplaceIInv ==
  ASSUME IInv, NEW s \in Scanners, ReplaceTypes(s) \/ ReplaceWords(s)
  PROVE  IInv'
<1> DEFINE p == scan[s].preset
<1>1. /\ scan[s] \in Scan /\ scan[s].at \in TxStages /\ Working(scan[s])
      /\ p \in Presets /\ tx.by = s /\ Replaced(s)
  BY DEF ReplaceTypes, ReplaceWords, Goes, IInv, TypeOK, Scan, Working, TxStages, Owned,
         TxReplaces
<1>2. tx \in [by : Scanners \cup {None}, tables : Tables] /\ scan[s].version \in Versions
  BY <1>1 DEF IInv, TypeOK, Scan
<1>3. CASE ReplaceTypes(s)
  <2> DEFINE r == [scan[s] EXCEPT !.at = "words"]
             t == [tx.tables EXCEPT !.types[p] = scan[s].version]
  <2>1. r \in Scan /\ r.at = "words" /\ r.preset = p /\ r.stamp = scan[s].stamp
          /\ r.version = scan[s].version
    BY <1>1 DEF Scan, ScanStates
  <2>2. /\ t \in Tables
        /\ t.stamp = tx.tables.stamp /\ t.name = tx.tables.name /\ t.words = tx.tables.words
        /\ \A q \in Presets :
             t.types[q] = IF q = p THEN scan[s].version ELSE tx.tables.types[q]
    BY <1>1, <1>2 DEF Tables
  <2>3. Working(r)
    BY <1>1, <2>1 DEF Working, TxStages
  <2>4. scan' = [scan EXCEPT ![s] = r] /\ tx' = [by |-> s, tables |-> t]
          /\ NoChange /\ UNCHANGED db
    BY <1>1, <1>2, <1>3 DEF ReplaceTypes, Goes
  <2> HIDE DEF r, t
  <2>5. ASSUME NEW q \in Presets \ {p}
        PROVE  Agree(t, q)
    <3>1. Agree(tx.tables, q)
      BY <1>1 DEF Replaced
    <3> QED BY <2>2, <3>1 DEF Agree
  <2>6. Aged(t)
    BY <2>2 DEF IInv, Aged
  <2>7. t.stamp[p] = scan[s].stamp /\ t.name[p] = scan[s].version /\ t.types[p] = scan[s].version
    BY <1>1, <2>2 DEF Replaced
  <2> QED BY <1>1, <2>1, <2>2, <2>3, <2>4, <2>5, <2>6, <2>7, StatementIInv DEF TxStages
<1>4. CASE ReplaceWords(s)
  <2> DEFINE r == [scan[s] EXCEPT !.at = "commit"]
             t == [tx.tables EXCEPT !.words[p] = scan[s].version]
  <2>1. r \in Scan /\ r.at = "commit" /\ r.preset = p /\ r.stamp = scan[s].stamp
          /\ r.version = scan[s].version
    BY <1>1 DEF Scan, ScanStates
  <2>2. /\ t \in Tables
        /\ t.stamp = tx.tables.stamp /\ t.name = tx.tables.name /\ t.types = tx.tables.types
        /\ \A q \in Presets :
             t.words[q] = IF q = p THEN scan[s].version ELSE tx.tables.words[q]
    BY <1>1, <1>2 DEF Tables
  <2>3. Working(r)
    BY <1>1, <2>1 DEF Working, TxStages
  <2>4. scan' = [scan EXCEPT ![s] = r] /\ tx' = [by |-> s, tables |-> t]
          /\ NoChange /\ UNCHANGED db /\ scan[s].at = "words"
    BY <1>1, <1>2, <1>4 DEF ReplaceWords, Goes
  <2> HIDE DEF r, t
  <2>5. ASSUME NEW q \in Presets \ {p}
        PROVE  Agree(t, q)
    <3>1. Agree(tx.tables, q)
      BY <1>1 DEF Replaced
    <3> QED BY <2>2, <3>1 DEF Agree
  <2>6. Aged(t)
    BY <2>2 DEF IInv, Aged
  <2>7. /\ t.stamp[p] = scan[s].stamp /\ t.name[p] = scan[s].version
        /\ t.types[p] = scan[s].version /\ t.words[p] = scan[s].version
    BY <1>1, <2>2, <2>4 DEF Replaced
  <2> QED BY <1>1, <2>1, <2>2, <2>3, <2>4, <2>5, <2>6, <2>7, StatementIInv DEF TxStages
<1> QED BY <1>3, <1>4

\* The transaction of scanner s ends, with its tables committed or undone.
LEMMA TxEnds ==
  ASSUME IInv, NEW s \in Scanners, NEW r \in Scan,
         tx.by = s, r.at \notin TxStages, Working(r),
         scan' = [scan EXCEPT ![s] = r], tx' = NoTx,
         db' \in {db, tx.tables}, DbAgrees',
         NoChange
  PROVE  IInv'
<1> USE DEF IInv, NoChange, libVars, watchVars
<1>1. TypeOK'
  <2>1. db' \in Tables
    BY DEF TypeOK
  <2> QED BY <2>1, EmptyTyped DEF TypeOK, Scan, WatchTypeOK
<1>2. FilesAreSaved'
  BY DEF FilesAreSaved
<1>3. Aged(db)'
  BY DEF Aged
<1>4. Aged(tx.tables)'
  <2>1. \A p \in Presets : saves[p] \in Nat
    BY DEF TypeOK, Versions
  <2> QED BY <2>1 DEF Aged, NoTx, Empty, NoRows
<1>5. \A u \in Scanners : scan'[u] = IF u = s THEN r ELSE scan[u]
  BY DEF TypeOK
<1>6. (\A u \in Scanners : Working(scan[u]))'
  BY <1>5 DEF Working
<1>7. tx'.by = None
  BY DEF NoTx
<1>8. Owned'
  <2> SUFFICES ASSUME NEW u \in Scanners PROVE scan'[u].at \notin TxStages
    BY <1>7, LibraryAssumption DEF Owned
  <2> QED BY <1>5 DEF Owned
<1>9. TxReplaces'
  BY <1>7, LibraryAssumption DEF TxReplaces
<1> QED BY <1>1, <1>2, <1>3, <1>4, <1>6, <1>8, <1>9

\* A transaction becomes the database as a whole, or not at all.
LEMMA EndIInv ==
  ASSUME IInv, NEW s \in Scanners, Commit(s) \/ StatementFails(s) \/ Crash(s)
  PROVE  IInv'
<1>1. CASE Commit(s)
  <2>1. scan[s].at = "commit" /\ tx.by = s /\ scan[s].preset \in Presets /\ Replaced(s)
          /\ Working(scan[s])
    BY <1>1 DEF Commit, Goes, IInv, Owned, TxReplaces, TxStages, Working
  <2>2. DbAgrees'
    <3>1. scan[s] \in Scan
      BY DEF IInv, TypeOK, Scan
    <3>2. scan[s].stamp # 0 /\ scan[s].version # 0
      BY <2>1, <3>1, LibraryAssumption DEF Working, Scan, Versions, TxStages
    <3>3. \A p \in Presets : Agree(tx.tables, p)
      BY <2>1, <3>2 DEF Replaced, Agree
    <3> QED BY <1>1, <3>3 DEF Commit, DbAgrees, Agree
  <2> DEFINE r == Visited(s, scan[s].preset)
  <2>3. r \in Scan /\ r.at \notin TxStages /\ Working(r)
    BY <2>1, LeavesTyped DEF IInv, TxStages, Working
  <2>4. scan' = [scan EXCEPT ![s] = r] /\ tx' = NoTx /\ db' = tx.tables /\ NoChange
    BY <1>1 DEF Commit, Goes
  <2> HIDE DEF r
  <2> QED BY <2>1, <2>2, <2>3, <2>4, TxEnds
<1>2. CASE StatementFails(s)
  <2>1. tx.by = s /\ scan[s].preset \in Presets
    BY <1>2 DEF StatementFails, IInv, Owned, TxStages, Working
  <2> DEFINE r == Failed(s, scan[s].preset)
  <2>2. r \in Scan /\ r.at \notin TxStages /\ Working(r)
    BY <2>1, LeavesTyped DEF IInv, TxStages, Working
  <2>3. scan' = [scan EXCEPT ![s] = r] /\ tx' = NoTx /\ db' = db /\ NoChange
          /\ DbAgrees'
    BY <1>2 DEF StatementFails, Goes, Rollback, IInv, DbAgrees, Agree
  <2> HIDE DEF r
  <2> QED BY <2>1, <2>2, <2>3, TxEnds
<1>3. CASE Crash(s)
  <2>1. Idle \in Scan /\ Idle.at \notin TxStages /\ Working(Idle)
    BY IdleTyped DEF Idle, TxStages, Working
  <2>2. CASE tx.by = s
    <3>1. scan' = [scan EXCEPT ![s] = Idle] /\ tx' = NoTx /\ db' = db /\ NoChange
            /\ DbAgrees'
      BY <1>3, <2>2 DEF Crash, Rollback, IInv, DbAgrees, Agree
    <3> QED BY <2>1, <2>2, <3>1, TxEnds
  <2>3. CASE tx.by # s
    <3>1. scan[s].at \notin TxStages
      BY <2>3 DEF IInv, Owned
    <3>2. OnlyScan /\ scan' = [scan EXCEPT ![s] = Idle]
      BY <1>3, <2>3 DEF Crash, OnlyScan, NoChange
    <3> QED BY <2>1, <3>1, <3>2, ScanOnly
  <2> QED BY <2>2, <2>3
<1> QED BY <1>1, <1>2, <1>3

----------------------------------------------------------------------------
\* The library

\* Files are saved, deleted and become unreadable; scanners crash.
LEMMA ChangeIInv ==
  ASSUME IInv, NEW p \in Presets, NEW v \in Versions, Change(p, v),
         saves' \in [Presets -> Versions],
         \A q \in Presets : saves[q] <= saves'[q] /\ (q # p => saves'[q] = saves[q]),
         v \in {0, saves'[p]}
  PROVE  IInv'
<1> USE DEF IInv, Change
<1>1. \A s \in Scanners : scan[s] \in Scan /\ scan'[s] = [scan[s] EXCEPT !.changed = @ \cup {p}]
  BY DEF TypeOK, Scan
<1>2. \A s \in Scanners :
        /\ scan'[s] \in Scan
        /\ scan'[s].at = scan[s].at /\ scan'[s].preset = scan[s].preset
        /\ scan'[s].stamp = scan[s].stamp /\ scan'[s].version = scan[s].version
  <2> SUFFICES ASSUME NEW s \in Scanners
               PROVE  LET r == [scan[s] EXCEPT !.changed = @ \cup {p}] IN
                      /\ r \in Scan
                      /\ r.at = scan[s].at /\ r.preset = scan[s].preset
                      /\ r.stamp = scan[s].stamp /\ r.version = scan[s].version
    BY <1>1
  <2>1. scan[s] \in Scan
    BY <1>1
  <2> HIDE DEF IInv, Change
  <2> QED BY <2>1 DEF Scan
<1>3. TypeOK'
  <2>1. scan' \in [Scanners -> Scan]
    BY <1>2
  <2>2. WatchTypeOK'
    BY DEF TypeOK, WatchTypeOK, Notify
  <2>3. files' \in [Presets -> Versions]
    BY DEF TypeOK
  <2> QED BY <2>1, <2>2, <2>3 DEF TypeOK, Scan
<1>4. FilesAreSaved'
  <2>1. \A q \in Presets : files'[q] = IF q = p THEN v ELSE files[q]
    BY DEF TypeOK
  <2> QED BY <2>1 DEF FilesAreSaved
<1>5. DbAgrees'
  BY DEF DbAgrees, Agree
<1>6. \A q \in Presets : saves[q] \in Nat /\ saves'[q] \in Nat
  <2>1. saves \in [Presets -> Versions] /\ Versions \subseteq Nat
    BY DEF TypeOK, Versions
  <2> HIDE DEF IInv, Change
  <2> QED BY <2>1
<1>7. Aged(db)' /\ Aged(tx.tables)'
  <2>1. \A t \in Tables : Aged(t) => \A q \in Presets : t.stamp[q] <= t.name[q] /\ t.name[q] <= saves'[q]
    BY <1>6 DEF Aged, Tables, Versions
  <2>2. db \in Tables /\ tx.tables \in Tables
    BY DEF TypeOK
  <2> QED BY <2>1, <2>2 DEF Aged
<1>8. (\A s \in Scanners : Working(scan[s]))'
  <2> SUFFICES ASSUME NEW s \in Scanners,
                      scan[s].at \in {"parse", "insert"} \cup TxStages
               PROVE  /\ scan[s].preset \in Presets
                      /\ 0 < scan[s].stamp /\ scan[s].stamp <= saves'[scan[s].preset]
                      /\ scan[s].at # "parse" =>
                           /\ scan[s].stamp <= scan[s].version
                           /\ scan[s].version <= saves'[scan[s].preset]
    BY <1>2 DEF Working
  <2>1. scan[s].stamp \in Nat /\ scan[s].version \in Nat
    BY <1>1 DEF Scan, Versions
  <2> QED BY <1>6, <2>1 DEF Working
<1>9. Owned'
  BY <1>2 DEF Owned
<1>10. TxReplaces'
  BY <1>2 DEF TxReplaces, Replaced, Agree
<1> QED BY <1>3, <1>4, <1>5, <1>7, <1>8, <1>9, <1>10

\* Whatever the library does, the tables stay as they are.
LEMMA LibraryIInv ==
  ASSUME IInv, NEW p \in Presets, Save(p) \/ Delete(p)
  PROVE  IInv'
<1>1. saves \in [Presets -> Versions] /\ \A q \in Presets : saves[q] \in Nat
  BY DEF IInv, TypeOK, Versions
<1>2. CASE Save(p)
  <2>1. saves[p] + 1 \in Versions
    BY <1>1, <1>2, LibraryAssumption DEF Save, Versions
  <2> QED BY <1>1, <1>2, <2>1, ChangeIInv DEF Save
<1>3. CASE Delete(p)
  BY <1>1, <1>3, LibraryAssumption, ChangeIInv DEF Delete, Versions
<1> QED BY <1>2, <1>3

\* The watcher reads neither the tables nor the scans.
LEMMA WatcherIInv ==
  ASSUME IInv, WatcherStep \/ OtherFileChanges
  PROVE  IInv'
<1> USE DEF IInv, libVars
<1>1. WatchTypeOK'
  <2>1. WatchTypeOK
    BY DEF TypeOK
  <2>2. CASE Receive /\ WatcherStep
    <3>1. Head(events) \in Presets \cup {None} /\ Tail(events) \in Seq(Presets \cup {None})
      BY <2>1, <2>2 DEF Receive, WatchTypeOK
    <3> QED BY <2>1, <2>2, <3>1 DEF Receive, WatchTypeOK
  <2>3. CASE (DebounceElapses \/ OnBatch) /\ WatcherStep
    BY <2>1, <2>3 DEF DebounceElapses, OnBatch, WatchTypeOK
  <2>4. CASE OtherFileChanges
    BY <2>1, <2>4 DEF OtherFileChanges, Notify, WatchTypeOK
  <2> QED BY <2>2, <2>3, <2>4 DEF WatcherStep, WatchNext
<1>2. UNCHANGED <<files, saves, db, tx, scan>> /\ others' \in 0..MaxOther
  BY LibraryAssumption DEF WatcherStep, OtherFileChanges, TypeOK
<1>3. TypeOK'
  BY <1>1, <1>2 DEF TypeOK
<1> QED BY <1>2, <1>3
     DEF FilesAreSaved, DbAgrees, Agree, Aged, Working, Owned, TxReplaces, Replaced

\* Every action keeps the invariant.
LEMMA NextIInv == IInv /\ [Next]_vars => IInv'
<1> SUFFICES ASSUME IInv, [Next]_vars PROVE IInv'
  OBVIOUS
<1>1. CASE Next
  BY <1>1, LibraryIInv, WatcherIInv, WalkIInv, ReadIInv, InsertRowIInv, ReplaceIInv, EndIInv
  DEF Next, ScannerStep
<1>2. CASE UNCHANGED vars
  BY <1>2
  DEF vars, libVars, watchVars, IInv, TypeOK, WatchTypeOK, FilesAreSaved, DbAgrees, Agree,
      Aged, Working, Owned, TxReplaces, Replaced
<1> QED BY <1>1, <1>2

\* The inductive invariant: committed rows agree in all tables, the open
\* transaction agrees as far as it has come, and no content is older than its
\* stamp.
THEOREM IndexInvariant == Spec => []IInv
<1> QED BY InitIInv, NextIInv, PTL DEF Spec

\* The index is type correct, for any library and any number of scanners.
THEOREM TypeCorrect == Spec => []TypeOK
<1>1. IInv => TypeOK
  BY DEF IInv
<1> QED BY <1>1, IndexInvariant, PTL

\* Whatever is asked of the index, the three tables answer as one.
THEOREM SearchesAgree == Spec => []SearchAgrees
<1>1. IInv => SearchAgrees
  <2> SUFFICES ASSUME IInv, NEW text \in (1..MaxVersion) \cup {Any},
                      NEW type \in (1..MaxVersion) \cup {Any}, NEW p \in Presets
               PROVE  p \in Results(text, type) <=>
                        db.name[p] # 0 /\ {text, type} \subseteq {Any, db.name[p]}
    BY DEF SearchAgrees, Results
  <2>1. Agree(db, p)
    BY DEF IInv, DbAgrees
  <2> QED BY <2>1 DEF Agree, Results
<1> QED BY <1>1, IndexInvariant, PTL

\* A row that a scan would pass over has the content of its file.
THEOREM CurrentIsCurrent == Spec => []LooksCurrentIsCurrent
<1>1. IInv => LooksCurrentIsCurrent
  <2> SUFFICES ASSUME IInv, NEW p \in Presets, db.stamp[p] # 0, db.stamp[p] = files[p]
               PROVE  db.name[p] = files[p]
    BY DEF LooksCurrentIsCurrent
  <2>1. files[p] = saves[p]
    BY DEF IInv, FilesAreSaved
  <2>2. db.stamp[p] <= db.name[p] /\ db.name[p] <= saves[p]
    BY DEF IInv, Aged
  <2>3. db.stamp[p] \in Nat /\ db.name[p] \in Nat
    BY DEF IInv, TypeOK, Tables, Versions
  <2> QED BY <2>1, <2>2, <2>3
<1> QED BY <1>1, IndexInvariant, PTL
----------------------------------------------------------------------------
\* What a scan covers

\* Preset p is in a folder that the walk has still to read.
ToWalk(r, p) == {Root, FolderOf[p]} \cap r.folders # {}

\* A preset that stayed as it was is still to be seen, or is in the index.
Covered(r) ==
  r.at # "idle" =>
    \A p \in Presets \ (r.changed \cup r.failed \cup r.lost) :
      files[p] # 0 /\ Reachable(p) =>
        ToWalk(r, p) \/ p \in r.entries \/ db.stamp[p] = files[p]

\* A walk ends with nothing left.
Ended(r) == r.at = "done" => r.folders = {} /\ r.entries = {}

\* The stamp of the preset at hand is that of the file, unless that changed.
Fresh(r) ==
  r.at \in {"parse", "insert"} \cup TxStages =>
    r.preset \in r.changed \/ r.stamp = files[r.preset]

\* A transaction only adds: it leaves the rows of the other presets, and gets
\* to its commit only if its own preset had no row.
TxAdds(s) ==
  tx.by = s =>
    LET p == scan[s].preset IN
    /\ \A q \in Presets \ {p} : tx.tables.stamp[q] = db.stamp[q]
    /\ scan[s].at \in {"types", "words"} => tx.tables.words[p] = db.words[p]
    /\ scan[s].at = "commit" => db.stamp[p] = 0

Sound(r) == Covered(r) /\ Ended(r) /\ Fresh(r)

Coverage == \A s \in Scanners : Sound(scan[s]) /\ TxAdds(s)

\* No preset is covered before a scan.
LEMMA InitCoverage == Init => Coverage
BY LibraryAssumption
DEF Init, Coverage, Sound, Covered, Ended, Fresh, TxAdds, Idle, NoTx, TxStages

\* A scanner without a transaction changes what it knows.
LEMMA ScanOnlyCoverage ==
  ASSUME IInv, Coverage, NEW s \in Scanners, NEW r,
         scan[s].at \notin TxStages, Sound(r),
         scan' = [scan EXCEPT ![s] = r], OnlyScan
  PROVE  Coverage'
<1>1. UNCHANGED <<files, db, tx>>
  BY DEF OnlyScan, libVars
<1>2. \A t \in Scanners : scan'[t] = IF t = s THEN r ELSE scan[t]
  BY DEF IInv, TypeOK
<1>3. \A q : Sound(q) => Sound(q)'
  BY <1>1 DEF Sound, Covered, ToWalk, Ended, Fresh
<1>4. ASSUME NEW t \in Scanners PROVE Sound(scan[t])'
  <2>1. \A q : q = scan'[t] => Sound(q)
    BY <1>2 DEF Coverage
  <2> QED BY <1>1, <2>1 DEF Sound, Covered, ToWalk, Ended, Fresh
<1>5. ASSUME NEW t \in Scanners PROVE TxAdds(t)'
  <2>1. tx.by = t => t # s
    BY DEF IInv, Owned
  <2> QED BY <1>1, <1>2, <2>1 DEF Coverage, TxAdds
<1> QED BY <1>4, <1>5 DEF Coverage

\* The walk: a folder is left with its presets at hand, the root also with its
\* folders to come.
LEMMA WalkCoverage ==
  ASSUME IInv, Coverage, NEW s \in Scanners,
         \/ StartScan(s) \/ RootMissing(s)
         \/ ReadFolder(s) \/ ReadFails(s) \/ EndScan(s)
  PROVE  Coverage'
<1>1. scan[s] \in Scan /\ Sound(scan[s])
  BY DEF IInv, TypeOK, Scan, Coverage
<1>2. CASE StartScan(s)
  <2> DEFINE r == [Idle EXCEPT !.at = "walk", !.folders = {Root}]
  <2>1. /\ r.at = "walk" /\ r.folders = {Root} /\ scan[s].at \in {"idle", "done"}
        /\ scan' = [scan EXCEPT ![s] = r] /\ OnlyScan
    BY <1>2 DEF StartScan, Idle
  <2>2. Sound(r)
    BY <2>1 DEF Sound, Covered, ToWalk, Ended, Fresh, TxStages
  <2> HIDE DEF r
  <2> QED BY <2>1, <2>2, ScanOnlyCoverage DEF TxStages
<1>3. CASE ReadFolder(s)
  <2>1. scan[s].at = "walk" /\ scan[s].entries = {} /\ OnlyScan
    BY <1>3 DEF ReadFolder, Goes
  <2>2. PICK f \in scan[s].folders :
          \/ f \in Locked /\ scan' = [scan EXCEPT ![s] = Denied(s, f)]
          \/ \E folders \in SUBSET Subfolders(f),
               entries \in SUBSET (In(f) \cap Present) :
               scan' = [scan EXCEPT ![s] = Listed(s, f, folders, entries)]
    BY <1>3 DEF ReadFolder, Goes
  <2>3. CASE f \in Locked /\ scan' = [scan EXCEPT ![s] = Denied(s, f)]
    <3> DEFINE r == Denied(s, f)
    <3>1. /\ r.at = "walk" /\ r.changed = scan[s].changed /\ r.failed = scan[s].failed
          /\ r.lost = scan[s].lost /\ r.folders = scan[s].folders \ {f}
          /\ r.entries = scan[s].entries
      BY <1>1, <2>1 DEF Denied, Scan
    <3> HIDE DEF r
    <3>2. ASSUME NEW p \in Presets, Reachable(p), ToWalk(scan[s], p)
          PROVE  ToWalk(r, p)
      BY <2>3, <3>1, <3>2 DEF Reachable, ToWalk
    <3>3. Sound(r)
      BY <1>1, <2>1, <3>1, <3>2 DEF Sound, Covered, Ended, Fresh, TxStages
    <3> QED BY <2>1, <2>3, <3>3, ScanOnlyCoverage DEF TxStages, r
  <2>4. ASSUME NEW folders \in SUBSET Subfolders(f),
               NEW entries \in SUBSET (In(f) \cap Present),
               scan' = [scan EXCEPT ![s] = Listed(s, f, folders, entries)]
        PROVE  Coverage'
    <3> DEFINE r == Listed(s, f, folders, entries)
    <3>1. /\ r.at = "walk" /\ r.changed = scan[s].changed /\ r.failed = scan[s].failed
          /\ r.folders = (scan[s].folders \ {f}) \cup folders
          /\ r.entries = entries
          /\ r.lost = scan[s].lost
               \cup {p \in Present \ entries :
                      FolderOf[p] \in {f} \cup (Subfolders(f) \ folders)}
      BY <1>1, <2>1 DEF Listed, Scan
    <3> HIDE DEF r
    <3>2. ASSUME NEW p \in Presets \ (r.changed \cup r.failed \cup r.lost),
                 files[p] # 0, Reachable(p)
          PROVE  ToWalk(r, p) \/ p \in r.entries \/ db.stamp[p] = files[p]
      <4>1. ToWalk(scan[s], p) \/ db.stamp[p] = files[p]
        BY <1>1, <2>1, <3>1, <3>2 DEF Sound, Covered
      <4>2. p \in Present /\ FolderOf[p] \in Folders
        BY <3>2, LibraryAssumption DEF Present
      <4>3. \/ p \in entries
            \/ FolderOf[p] # f /\ FolderOf[p] \notin Subfolders(f) \ folders
        BY <3>1, <3>2, <4>2
      <4>4. CASE p \in entries
        BY <3>1, <4>4
      <4>5. CASE /\ FolderOf[p] # f /\ FolderOf[p] \notin Subfolders(f) \ folders
                 /\ ToWalk(scan[s], p)
        <5>1. CASE f = Root
          BY <3>1, <4>2, <4>5, <5>1 DEF Subfolders, ToWalk
        <5>2. CASE f # Root
          BY <3>1, <4>5, <5>2 DEF ToWalk
        <5> QED BY <5>1, <5>2
      <4> QED BY <4>1, <4>3, <4>4, <4>5
    <3>3. Sound(r)
      BY <3>1, <3>2 DEF Sound, Covered, Ended, Fresh, TxStages
    <3> QED BY <2>1, <2>4, <3>3, ScanOnlyCoverage DEF TxStages, r
  <2> QED BY <2>2, <2>3, <2>4
<1>4. CASE ReadFails(s)
  <2>1. Sound(Idle)
    BY DEF Idle, Sound, Covered, Ended, Fresh, TxStages
  <2> QED BY <1>4, <2>1, ScanOnlyCoverage DEF ReadFails, Goes, TxStages
<1>5. CASE EndScan(s)
  <2> DEFINE r == [scan[s] EXCEPT !.at = "done"]
  <2>1. /\ scan[s].at = "walk" /\ scan[s].folders = {} /\ scan[s].entries = {}
        /\ scan' = [scan EXCEPT ![s] = r] /\ OnlyScan
    BY <1>5 DEF EndScan, Goes
  <2>2. /\ r.at = "done" /\ r.folders = {} /\ r.entries = {}
        /\ r.changed = scan[s].changed /\ r.failed = scan[s].failed
        /\ r.lost = scan[s].lost
    BY <1>1, <2>1 DEF Scan
  <2>3. Sound(r)
    BY <1>1, <2>1, <2>2 DEF Sound, Covered, ToWalk, Ended, Fresh, TxStages
  <2> HIDE DEF r
  <2> QED BY <2>1, <2>3, ScanOnlyCoverage DEF TxStages
<1>6. CASE RootMissing(s)
  <2> DEFINE r == [Idle EXCEPT !.at = "done", !.lost = Present]
  <2>1. /\ r.at = "done" /\ r.lost = Present /\ r.folders = {} /\ r.entries = {}
        /\ scan[s].at \in {"idle", "done"}
        /\ scan' = [scan EXCEPT ![s] = r] /\ OnlyScan
    BY <1>6 DEF RootMissing, Idle
  <2>2. Sound(r)
    BY <2>1 DEF Sound, Covered, Ended, Fresh, TxStages, Present
  <2> HIDE DEF r
  <2> QED BY <2>1, <2>2, ScanOnlyCoverage DEF TxStages
<1> QED BY <1>2, <1>3, <1>4, <1>5, <1>6

\* What a scanner that leaves a preset knows: the preset is in the index, or
\* counted as failed.
LEMMA LeavesSound ==
  ASSUME IInv, Coverage, NEW s \in Scanners, NEW p \in Presets,
         scan[s].at # "idle"
  PROVE  /\ Sound(Failed(s, p))
         /\ p \in scan[s].changed \/ db.stamp[p] = files[p] => Sound(Visited(s, p))
<1>1. scan[s] \in Scan /\ Sound(scan[s])
  BY DEF IInv, TypeOK, Scan, Coverage
<1>2. /\ Visited(s, p).at = "walk" /\ Visited(s, p).folders = scan[s].folders
      /\ Visited(s, p).entries = scan[s].entries \ {p}
      /\ Visited(s, p).changed = scan[s].changed /\ Visited(s, p).failed = scan[s].failed
      /\ Visited(s, p).lost = scan[s].lost
      /\ Failed(s, p) = [Visited(s, p) EXCEPT !.failed = scan[s].failed \cup {p}]
  BY <1>1 DEF Visited, Failed, Scan
<1>3. Visited(s, p) \in Scan
  BY LeavesTyped DEF IInv
<1>4. /\ Failed(s, p).at = "walk" /\ Failed(s, p).folders = scan[s].folders
      /\ Failed(s, p).entries = scan[s].entries \ {p}
      /\ Failed(s, p).changed = scan[s].changed
      /\ Failed(s, p).failed = scan[s].failed \cup {p}
      /\ Failed(s, p).lost = scan[s].lost
  BY <1>2, <1>3 DEF Scan
<1>5. Sound(Failed(s, p))
  BY <1>1, <1>4 DEF Sound, Covered, ToWalk, Ended, Fresh, TxStages
<1>6. p \in scan[s].changed \/ db.stamp[p] = files[p] => Sound(Visited(s, p))
  BY <1>1, <1>2 DEF Sound, Covered, ToWalk, Ended, Fresh, TxStages
<1> QED BY <1>5, <1>6

\* A preset is passed over if its row looks current, or its stamp is taken.
LEMMA ReadCoverage ==
  ASSUME IInv, Coverage, NEW s \in Scanners,
         (\E p \in Presets : Stat(s, p)) \/ Parse(s) \/ ParseFails(s) \/ Busy(s)
  PROVE  Coverage'
<1>1. scan[s] \in Scan /\ Sound(scan[s])
  BY DEF IInv, TypeOK, Scan, Coverage
<1>2. ASSUME NEW p \in Presets, Stat(s, p) PROVE Coverage'
  <2>1. scan[s].at = "walk" /\ OnlyScan
    BY <1>2 DEF Stat, Goes
  <2>2. CASE \/ scan' = [scan EXCEPT ![s] = Failed(s, p)]
             \/ scan' = [scan EXCEPT ![s] = Visited(s, p)] /\ db.stamp[p] = files[p]
    BY <2>1, <2>2, LeavesSound, ScanOnlyCoverage DEF TxStages
  <2>3. CASE /\ files[p] # 0
             /\ scan' = [scan EXCEPT ![s] = [scan[s] EXCEPT !.at = "parse", !.preset = p,
                                                           !.stamp = files[p]]]
    <3> DEFINE r == [scan[s] EXCEPT !.at = "parse", !.preset = p, !.stamp = files[p]]
    <3>1. /\ r.at = "parse" /\ r.preset = p /\ r.stamp = files[p]
          /\ r.folders = scan[s].folders /\ r.entries = scan[s].entries
          /\ r.changed = scan[s].changed /\ r.failed = scan[s].failed
          /\ r.lost = scan[s].lost
      BY <1>1 DEF Scan
    <3>2. scan' = [scan EXCEPT ![s] = r]
      BY <2>3
    <3> HIDE DEF r
    <3>3. Sound(r)
      BY <1>1, <2>1, <3>1 DEF Sound, Covered, ToWalk, Ended, Fresh
    <3> QED BY <2>1, <3>2, <3>3, ScanOnlyCoverage DEF TxStages
  <2> QED BY <1>2, <2>2, <2>3 DEF Stat, Goes, Unchanged
<1>3. CASE Parse(s)
  <2> DEFINE r == [scan[s] EXCEPT !.at = "insert", !.version = files[scan[s].preset]]
  <2>1. scan[s].at = "parse" /\ scan' = [scan EXCEPT ![s] = r] /\ OnlyScan
    BY <1>3 DEF Parse, Goes
  <2>2. /\ r.at = "insert" /\ r.preset = scan[s].preset /\ r.stamp = scan[s].stamp
        /\ r.folders = scan[s].folders /\ r.entries = scan[s].entries
        /\ r.changed = scan[s].changed /\ r.failed = scan[s].failed
        /\ r.lost = scan[s].lost
    BY <1>1 DEF Scan
  <2> HIDE DEF r
  <2>3. Sound(r)
    BY <1>1, <2>1, <2>2 DEF Sound, Covered, ToWalk, Ended, Fresh
  <2> QED BY <2>1, <2>3, ScanOnlyCoverage DEF TxStages
<1>4. CASE ParseFails(s) \/ Busy(s)
  <2>1. /\ scan[s].at \in {"parse", "insert"} /\ scan[s].preset \in Presets /\ OnlyScan
        /\ scan' = [scan EXCEPT ![s] = Failed(s, scan[s].preset)]
    BY <1>4 DEF ParseFails, Busy, Goes, IInv, Working
  <2> QED BY <2>1, LeavesSound, ScanOnlyCoverage DEF TxStages
<1> QED BY <1>2, <1>3, <1>4

\* Within a transaction the walk stands still, and the words of a preset that
\* has a row are in the way of its commit.
LEMMA StatementCoverage ==
  ASSUME IInv, Coverage, NEW s \in Scanners,
         InsertRow(s) \/ ReplaceTypes(s) \/ ReplaceWords(s)
  PROVE  Coverage'
<1> DEFINE p == scan[s].preset
<1>1. /\ scan[s] \in Scan /\ Sound(scan[s]) /\ TxAdds(s)
      /\ scan[s].at \in {"insert"} \cup TxStages
      /\ p \in Presets /\ db \in Tables
      /\ tx \in [by : Scanners \cup {None}, tables : Tables]
  BY DEF IInv, TypeOK, Scan, Coverage, InsertRow, ReplaceTypes, ReplaceWords, Goes,
         TxStages, Working
<1>2. UNCHANGED <<files, db>>
  BY DEF InsertRow, ReplaceTypes, ReplaceWords, NoChange, libVars
<1>3. PICK stage \in TxStages : scan' = [scan EXCEPT ![s] = [scan[s] EXCEPT !.at = stage]]
  BY DEF InsertRow, ReplaceTypes, ReplaceWords, Goes, TxStages
<1> DEFINE r == [scan[s] EXCEPT !.at = stage]
<1>4. /\ r.at = stage /\ r.preset = p /\ r.stamp = scan[s].stamp
      /\ r.folders = scan[s].folders /\ r.entries = scan[s].entries
      /\ r.changed = scan[s].changed /\ r.failed = scan[s].failed
      /\ r.lost = scan[s].lost
  BY <1>1 DEF Scan
<1>5. \A t \in Scanners : scan'[t] = IF t = s THEN r ELSE scan[t]
  BY <1>3 DEF IInv, TypeOK
<1> HIDE DEF r
<1>6. Sound(r)
  BY <1>1, <1>4 DEF Sound, Covered, ToWalk, Ended, Fresh, TxStages
<1>7. ASSUME NEW t \in Scanners PROVE Sound(scan[t])'
  <2>1. \A q : q = scan'[t] => Sound(q)
    BY <1>5, <1>6 DEF Coverage
  <2> QED BY <1>2, <2>1 DEF Sound, Covered, ToWalk, Ended, Fresh
<1>8. tx'.by = s
  BY <1>1 DEF InsertRow, ReplaceTypes, ReplaceWords, Goes, IInv, Owned, TxStages
<1>9. /\ \A q \in Presets \ {p} : tx'.tables.stamp[q] = db.stamp[q]
      /\ stage \in {"types", "words"} => tx'.tables.words[p] = db.words[p]
      /\ stage = "commit" => db.stamp[p] = 0
  <2>1. CASE InsertRow(s)
    <3>1. stage = "types" /\ scan'[s].at = "types"
      BY <1>1, <1>4, <1>5, <2>1 DEF InsertRow, Goes, IInv, TypeOK, Scan
    <3>2. tx'.tables = [db EXCEPT !.stamp[p] = StampOf(s), !.name[p] = scan[s].version]
      BY <2>1 DEF InsertRow
    <3> QED BY <1>1, <3>1, <3>2 DEF Tables
  <2>2. CASE ReplaceTypes(s)
    <3>1. stage = "words" /\ scan[s].at = "types" /\ tx.by = s
      BY <1>1, <1>4, <1>5, <2>2 DEF ReplaceTypes, Goes, IInv, TypeOK, Scan, Owned, TxStages
    <3>2. tx' = [tx EXCEPT !.tables.types[p] = scan[s].version]
      BY <2>2 DEF ReplaceTypes
    <3>3. tx'.tables.stamp = tx.tables.stamp /\ tx'.tables.words = tx.tables.words
      BY <1>1, <3>2 DEF Tables
    <3> QED BY <1>1, <3>1, <3>3 DEF TxAdds
  <2>3. CASE ReplaceWords(s)
    <3>1. stage = "commit" /\ scan[s].at = "words" /\ tx.by = s
      BY <1>1, <1>4, <1>5, <2>3 DEF ReplaceWords, Goes, IInv, TypeOK, Scan, Owned, TxStages
    <3>2. tx' = [tx EXCEPT !.tables.words[p] = scan[s].version]
      BY <2>3 DEF ReplaceWords
    <3>3. tx'.tables.stamp = tx.tables.stamp
      BY <1>1, <3>2 DEF Tables
    <3>4. db.words[p] = 0
      BY <1>1, <2>3, <3>1 DEF ReplaceWords, HasWords, TxAdds
    <3>5. db.stamp[p] = 0
      BY <1>1, <3>4 DEF IInv, DbAgrees, Agree
    <3> QED BY <1>1, <3>1, <3>3, <3>5 DEF TxAdds
  <2> QED BY <2>1, <2>2, <2>3
<1>10. ASSUME NEW t \in Scanners PROVE TxAdds(t)'
  BY <1>2, <1>4, <1>5, <1>8, <1>9 DEF TxAdds
<1> QED BY <1>7, <1>10 DEF Coverage


\* A commit adds the row of the preset and takes none away.
LEMMA CommitCoverage ==
  ASSUME IInv, Coverage, NEW s \in Scanners, Commit(s)
  PROVE  Coverage'
<1> DEFINE p == scan[s].preset
           r == Visited(s, p)
<1>1. /\ scan[s] \in Scan /\ Sound(scan[s]) /\ TxAdds(s) /\ scan[s].at = "commit"
      /\ p \in Presets /\ tx.by = s /\ Replaced(s)
  BY DEF IInv, TypeOK, Scan, Coverage, Commit, Goes, TxStages, Working, Owned, TxReplaces
<1>2. /\ scan' = [scan EXCEPT ![s] = r] /\ db' = tx.tables /\ tx'.by = None
      /\ UNCHANGED files
  BY DEF Commit, Goes, NoTx, NoChange, libVars
<1>3. \A t \in Scanners : scan'[t] = IF t = s THEN r ELSE scan[t]
  BY <1>2 DEF IInv, TypeOK
<1>4. \A q \in Presets : db.stamp[q] = files[q] /\ files[q] # 0 => db'.stamp[q] = files[q]
  BY <1>1, <1>2 DEF TxAdds
<1>5. p \in scan[s].changed \/ db'.stamp[p] = files[p]
  BY <1>1, <1>2 DEF Sound, Fresh, TxStages, Replaced
<1>6. /\ r.at = "walk" /\ r.folders = scan[s].folders /\ r.entries = scan[s].entries \ {p}
      /\ r.changed = scan[s].changed /\ r.failed = scan[s].failed
      /\ r.lost = scan[s].lost
  BY <1>1 DEF Visited, Scan
<1> HIDE DEF r
<1>7. ASSUME NEW t \in Scanners PROVE Sound(scan[t])'
  <2>1. CASE t = s
    <3>1. Covered(scan[t])'
      BY <1>1, <1>2, <1>3, <1>4, <1>5, <1>6, <2>1 DEF Sound, Covered, ToWalk
    <3> QED BY <1>2, <1>3, <1>6, <2>1, <3>1 DEF Sound, Ended, Fresh, TxStages
  <2>2. CASE t # s
    <3>1. Sound(scan[t]) /\ scan'[t] = scan[t]
      BY <1>3, <2>2 DEF Coverage
    <3>2. Covered(scan[t])'
      BY <1>2, <1>4, <3>1 DEF Sound, Covered, ToWalk
    <3> QED BY <1>2, <3>1, <3>2 DEF Sound, Ended, Fresh
  <2> QED BY <2>1, <2>2
<1>8. ASSUME NEW t \in Scanners PROVE TxAdds(t)'
  BY <1>2, LibraryAssumption DEF TxAdds
<1> QED BY <1>7, <1>8 DEF Coverage

\* What is undone leaves the index as it was, and the preset is counted as
\* failed, or the scan is over.
LEMMA UndoneCoverage ==
  ASSUME IInv, Coverage, NEW s \in Scanners, StatementFails(s) \/ Crash(s)
  PROVE  Coverage'
<1> DEFINE p == scan[s].preset
<1>1. PICK r : /\ scan' = [scan EXCEPT ![s] = r] /\ Sound(r)
               /\ (tx.by = s /\ tx'.by = None) \/ (tx.by # s /\ UNCHANGED tx)
               /\ UNCHANGED <<files, db>>
  <2>1. CASE StatementFails(s)
    <3>1. scan[s].at # "idle" /\ p \in Presets
      BY <2>1 DEF StatementFails, IInv, Owned, TxStages, Working
    <3>2. Sound(Failed(s, p))
      BY <3>1, LeavesSound
    <3>3. /\ scan' = [scan EXCEPT ![s] = Failed(s, p)] /\ tx.by = s /\ tx'.by = None
          /\ UNCHANGED <<files, db>>
      BY <2>1 DEF StatementFails, Goes, Rollback, NoTx, NoChange, libVars
    <3> QED BY <3>2, <3>3
  <2>2. CASE Crash(s)
    <3>1. Sound(Idle)
      BY DEF Idle, Sound, Covered, Ended, Fresh, TxStages
    <3>2. scan' = [scan EXCEPT ![s] = Idle] /\ UNCHANGED <<files, db>>
      BY <2>2 DEF Crash, Rollback, NoChange, libVars
    <3>3. (tx.by = s /\ tx'.by = None) \/ (tx.by # s /\ UNCHANGED tx)
      BY <2>2 DEF Crash, Rollback, NoTx
    <3> QED BY <3>1, <3>2, <3>3
  <2> QED BY <2>1, <2>2
<1>2. \A t \in Scanners : scan'[t] = IF t = s THEN r ELSE scan[t]
  BY <1>1 DEF IInv, TypeOK
<1>3. ASSUME NEW t \in Scanners PROVE Sound(scan[t])'
  <2>1. \A q : q = scan'[t] => Sound(q)
    BY <1>1, <1>2 DEF Coverage
  <2> QED BY <1>1, <2>1 DEF Sound, Covered, ToWalk, Ended, Fresh
<1>4. ASSUME NEW t \in Scanners PROVE TxAdds(t)'
  BY <1>1, <1>2, LibraryAssumption DEF Coverage, TxAdds
<1> QED BY <1>3, <1>4 DEF Coverage

\* A preset that changes is no concern of the scans under way.
LEMMA ChangeCoverage ==
  ASSUME IInv, Coverage, NEW p \in Presets, Save(p) \/ Delete(p)
  PROVE  Coverage'
<1>1. PICK v : Change(p, v)
  BY DEF Save, Delete
<1>2. /\ UNCHANGED <<db, tx>>
      /\ \A q \in Presets \ {p} : files'[q] = files[q]
  BY <1>1 DEF Change, IInv, TypeOK
<1>3. ASSUME NEW t \in Scanners
      PROVE  /\ scan'[t].at = scan[t].at /\ scan'[t].folders = scan[t].folders
             /\ scan'[t].entries = scan[t].entries /\ scan'[t].preset = scan[t].preset
             /\ scan'[t].stamp = scan[t].stamp /\ scan'[t].failed = scan[t].failed
             /\ scan'[t].lost = scan[t].lost
             /\ scan'[t].changed = scan[t].changed \cup {p}
  <2>1. scan[t] \in Scan
    BY DEF IInv, TypeOK, Scan
  <2> QED BY <1>1, <2>1 DEF Change, Scan
<1>4. ASSUME NEW t \in Scanners PROVE Sound(scan[t])'
  <2>1. Sound(scan[t])
    BY DEF Coverage
  <2>2. Covered(scan[t])'
    BY <1>2, <1>3, <2>1 DEF Sound, Covered, ToWalk
  <2>3. Fresh(scan[t])'
    <3>1. scan[t].at \in {"parse", "insert"} \cup TxStages => scan[t].preset \in Presets
      BY DEF IInv, Working
    <3> QED BY <1>2, <1>3, <2>1, <3>1 DEF Sound, Fresh
  <2> QED BY <1>3, <2>1, <2>2, <2>3 DEF Sound, Ended
<1>5. ASSUME NEW t \in Scanners PROVE TxAdds(t)'
  BY <1>2, <1>3 DEF Coverage, TxAdds
<1> QED BY <1>4, <1>5 DEF Coverage

\* Every action keeps what scans cover.
LEMMA NextCoverage == IInv /\ Coverage /\ [Next]_vars => Coverage'
<1> SUFFICES ASSUME IInv, Coverage, [Next]_vars PROVE Coverage'
  OBVIOUS
<1>1. ASSUME UNCHANGED <<files, db, tx, scan>> PROVE Coverage'
  BY <1>1 DEF Coverage, Sound, Covered, ToWalk, Ended, Fresh, TxAdds
<1>2. CASE OtherFileChanges \/ WatcherStep \/ UNCHANGED vars
  BY <1>1, <1>2 DEF OtherFileChanges, WatcherStep, vars, libVars
<1>3. ASSUME NEW p \in Presets, Save(p) \/ Delete(p) PROVE Coverage'
  BY <1>3, ChangeCoverage
<1>4. ASSUME NEW s \in Scanners, ScannerStep(s) PROVE Coverage'
  BY <1>4, WalkCoverage, ReadCoverage, StatementCoverage, CommitCoverage, UndoneCoverage
  DEF ScannerStep
<1> QED BY <1>2, <1>3, <1>4 DEF Next

\* A scan that ends without error has indexed every preset that it could reach
\* and that stayed as it was, except those it counted as failed and those whose
\* entries the file system failed to give, though several scanners, processes of
\* their own, write to one index.
THEOREM ScansAreComplete == Spec => []ScanComplete
<1>1. Coverage => ScanComplete
  BY DEF Coverage, Sound, Covered, ToWalk, Ended, ScanComplete
<1>2. Spec => []Coverage
  BY InitCoverage, NextCoverage, IndexInvariant, PTL DEF Spec
<1> QED BY <1>1, <1>2, PTL
=============================================================================
