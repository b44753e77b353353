----------------------------- MODULE IndexProofs -----------------------------
(***************************************************************************)
(* Proofs about Index and about whole runs of it, for any files, names,    *)
(* texts and number of edits and faults: types, what each step keeps, and  *)
(* what a run that ends well leaves behind.  TypeInv is inductive, the     *)
(* other invariants are inductive given those before them.                 *)
(***************************************************************************)
EXTENDS IndexHistory, IndexStability, TLAPS

\* What a run knows of the file in hand, and when it has stamps to write down.
Shape ==
  /\ pc \in {"compare", "delete", "read", "persist", "replace", "nodes", "refs", "file"}
       => cur.file \in File
  /\ pc \in {"replace", "nodes", "refs", "file"} => cur.text \in Text
  /\ meta # {} => pc \in {"diff", "compare", "meta"}

TypeInv == TypeOK /\ Shape

-----------------------------------------------------------------------------
(* Helpers keep their types *)

\* Begin leaves a run that is typed, with nothing in hand.
LEMMA BeginTyped ==
  ASSUME NEW k \in Kinds, NEW step \in {"idle", "diff", "pick", "remove"},
         NEW F \in SUBSET File, NEW R \in SUBSET File, Begin(k, step, F, R)
  PROVE  RunOK' /\ Shape'
<1>1. NoCur \in [file : File \cup {Missing}, stamp : Nat, text : Text \cup {Missing, Unreadable}]
  BY DEF NoCur
<1> QED
  BY <1>1 DEF Begin, RunOK, Shape, Steps

\* The names a change of a file can affect are names that references can have.
LEMMA NamesTyped ==
  ASSUME TypeOK, NEW f \in File
  PROVE  NamesOf(f) \subseteq Written /\ NodeNames(f) \subseteq Written
BY IndexAssumption DEF NamesOf, NodeNames, Restored, TypeOK, TablesOK, Ref, Edge

\* A stat'ed or read file is a record of the type of cur.
LEMMA HoldingTyped ==
  ASSUME NEW f \in File, NEW s \in Nat, NEW t \in Text \cup {Missing, Unreadable}
  PROVE  /\ Holding(f, s, t) \in [file : File \cup {Missing}, stamp : Nat,
                                  text : Text \cup {Missing, Unreadable}]
         /\ Holding(f, s, t).file = f
         /\ Holding(f, s, t).stamp = s
         /\ Holding(f, s, t).text = t
BY DEF Holding

\* So is the empty hand.
LEMMA NoCurTyped ==
  /\ NoCur \in [file : File \cup {Missing}, stamp : Nat, text : Text \cup {Missing, Unreadable}]
  /\ NoCur.stamp = 0
BY DEF NoCur

-----------------------------------------------------------------------------
(* Every action keeps TypeInv *)

\* The actions that start or end a run.
Boundary ==
  \/ StartSync \/ StartFull \/ Abort \/ FullFailed \/ Finish \/ RunError \/ Kill
  \/ \E S \in SUBSET File : StartFiles(S) \/ StartList(S)

\* They leave a typed run.
LEMMA BoundaryTyped ==
  ASSUME TypeInv, Boundary
  PROVE  TypeInv'
<1>1. RunOK' /\ Shape'
  BY BeginTyped
     DEF Boundary, StartSync, StartFull, StartFiles, StartList, Abort, FullFailed, Finish, RunError,
         Kill, Over, Listed, Tracked, Kinds, Runs
<1>2. DiskOK' /\ TablesOK'
  BY DEF Boundary, StartSync, StartFull, StartFiles, StartList, Abort, FullFailed, Finish, Result,
         RunError, Kill, Tick, TypeInv, TypeOK,
         DiskOK, TablesOK, disks, tables
<1> QED
  BY <1>1, <1>2 DEF TypeInv, TypeOK

\* The comparison of a sync with the disk.
LEMMA DiffTyped ==
  ASSUME TypeInv,
         \/ Compare \/ DiffDone \/ MetaDone
         \/ \E f \in File : DiffSkip(f) \/ DiffStat(f)
         \/ \E m \in meta : UpsertMeta(m[1], m[2])
  PROVE  TypeInv'
<1> USE DEF TypeInv, TypeOK, DiskOK, TablesOK, RunOK, Shape, Steps, Go,
            disks, tables, lists, selection, pass, outcome
<1>1. CASE Compare
  BY <1>1, NoCurTyped DEF Compare, Readable
<1>2. CASE DiffDone
  BY <1>2 DEF DiffDone
<1>3. CASE MetaDone
  BY <1>3 DEF MetaDone
<1>4. ASSUME NEW f \in File, DiffSkip(f)
      PROVE  TypeInv'
  BY <1>4 DEF DiffSkip
<1>5. ASSUME NEW f \in File, DiffStat(f)
      PROVE  TypeInv'
  BY <1>5, HoldingTyped DEF DiffStat
<1>6. ASSUME NEW m \in meta, UpsertMeta(m[1], m[2])
      PROVE  TypeInv'
  BY <1>6 DEF UpsertMeta
<1> QED
  BY <1>1, <1>2, <1>3, <1>4, <1>5, <1>6

\* Removal of the files that are gone, and the names to retry.
LEMMA RemoveTyped ==
  ASSUME TypeInv, RemoveDelete \/ CaptureNames \/ \E f \in File : RemoveRestore(f)
  PROVE  TypeInv'
<1> USE DEF TypeInv, TypeOK, DiskOK, TablesOK, RunOK, Shape, Steps, Go,
            disks, tables, lists, selection, pass, outcome
<1>1. CASE RemoveDelete
  BY <1>1, NoCurTyped DEF RemoveDelete, DeleteFile, Untracked
<1>2. CASE CaptureNames
  <2>1. names' \subseteq Written
    BY <1>2, NamesTyped DEF CaptureNames
  <2> QED
    BY <1>2, <2>1 DEF CaptureNames
<1>3. ASSUME NEW f \in File, RemoveRestore(f)
      PROVE  TypeInv'
  <2>1. names' \subseteq Written
    BY <1>3, NamesTyped DEF RemoveRestore
  <2>2. refs' \subseteq Ref
    BY <1>3 DEF RemoveRestore, RestoreRefs, Restored
  <2> QED
    BY <1>3, <2>1, <2>2, HoldingTyped DEF RemoveRestore, RestoreRefs
<1> QED
  BY <1>1, <1>2, <1>3

\* Reading a file, and storing it transaction by transaction.
LEMMA StoreTyped ==
  ASSUME TypeInv, ParseStep \/ StoreStep \/ DropUnreplaced
  PROVE  TypeInv'
<1> USE IndexAssumption
    DEF TypeInv, TypeOK, DiskOK, TablesOK, RunOK, Shape, Steps, Go, Runs, Readable, Parsed,
        Unstored, disks, tables, lists, selection, pass, outcome
<1>1. ASSUME NEW f \in File, ParseStat(f)
      PROVE  TypeInv'
  BY <1>1, HoldingTyped DEF ParseStat
<1>2. CASE ParseRead
  BY <1>2, HoldingTyped DEF ParseRead
<1>3. CASE SkipStore
  BY <1>3, NoCurTyped DEF SkipStore, FileDone
<1>4. CASE DropUnreplaced
  BY <1>4, NoCurTyped DEF DropUnreplaced, FileDone, DeleteFile, Untracked
<1>5. CASE StoreRestore
  BY <1>5 DEF StoreRestore, Storing, RestoreRefs, Restored
<1>6. CASE StoreDelete
  BY <1>6 DEF StoreDelete, Storing, DeleteFile, Untracked
<1>7. CASE StoreNodes
  BY <1>7 DEF StoreNodes, Storing, InsertNodes
<1>8. CASE StoreRefs
  BY <1>8 DEF StoreRefs, Storing, InsertRefs, RefsIn, Ref
<1>9. CASE StoreFile
  BY <1>9, NoCurTyped DEF StoreFile, UpsertFile, FileDone
<1> QED
  BY <1>1, <1>2, <1>3, <1>4, <1>5, <1>6, <1>7, <1>8, <1>9 DEF ParseStep, StoreStep

\* Reconciliation, and the steps on to the next phase.
LEMMA ReconcileTyped ==
  ASSUME TypeInv,
         \/ SyncParsed \/ FullParsed \/ FilesParsed \/ ListParsed \/ ReconcileDone \/ ResolveDone
         \/ \E f \in File : ReconcileKeep(f) \/ ReconcileRemove(f)
  PROVE  TypeInv'
<1> USE DEF TypeInv, TypeOK, DiskOK, TablesOK, RunOK, Shape, Steps, Go,
            disks, tables, lists, selection, pass, outcome
<1>1. CASE SyncParsed
  BY <1>1 DEF SyncParsed
<1>2. CASE FullParsed
  BY <1>2 DEF FullParsed, Tracked
<1>3. CASE ReconcileDone \/ ResolveDone
  BY <1>3 DEF ReconcileDone, ResolveDone
<1>4. ASSUME NEW f \in File, ReconcileKeep(f)
      PROVE  TypeInv'
  BY <1>4 DEF ReconcileKeep
<1>5. ASSUME NEW f \in File, ReconcileRemove(f)
      PROVE  TypeInv'
  BY <1>5 DEF ReconcileRemove, DeleteFile, Untracked
<1>6. CASE FilesParsed
  <2>1. names' \subseteq Written
    BY <1>6, NamesTyped DEF FilesParsed
  <2> QED
    BY <1>6, <2>1 DEF FilesParsed
<1>7. CASE ListParsed
  BY <1>7 DEF ListParsed
<1> QED
  BY <1>1, <1>2, <1>3, <1>4, <1>5, <1>6, <1>7

\* Resolution: an edge is a reference and a file that answers it.
LEMMA ResolveTyped ==
  ASSUME TypeInv, Resolve \/ ForgetResolved
  PROVE  TypeInv'
<1> USE DEF TypeInv, TypeOK, DiskOK, TablesOK, RunOK, Shape, Steps, Go, Runs,
            disks, lists, outcome
<1>1. CASE Resolve
  <2>1. PICK rows \in SUBSET refs :
          /\ seen' = seen \cup rows
          /\ \E found \in SUBSET {r \in rows : Targets(r) # {}} :
               /\ \E pick \in [found -> File] :
                    /\ \A r \in found : pick[r] \in Targets(r)
                    /\ edges' = edges \cup {<<r[1], r[2], r[3], pick[r]>> : r \in found}
               /\ batch' = found
               /\ declined' = declined \cup {<<r, Targets(r)>> : r \in rows \ found}
    BY <1>1 DEF Resolve
  <2>2. PICK found \in SUBSET rows :
          /\ \E pick \in [found -> File] :
               edges' = edges \cup {<<r[1], r[2], r[3], pick[r]>> : r \in found}
          /\ batch' = found
          /\ declined' = declined \cup {<<r, Targets(r)>> : r \in rows \ found}
    BY <2>1
  <2> PICK pick \in [found -> File] :
          edges' = edges \cup {<<r[1], r[2], r[3], pick[r]>> : r \in found}
    BY <2>2
  <2>3. rows \subseteq Ref /\ found \subseteq Ref
    BY <2>1, <2>2
  <2>4. \A r \in found : <<r[1], r[2], r[3], pick[r]>> \in Edge
    BY <2>2, <2>3 DEF Ref, Edge
  <2>5. edges' \subseteq Edge
    BY <2>2, <2>4
  <2>6. \A r \in rows : <<r, Targets(r)>> \in Ref \X SUBSET File
    BY <2>3 DEF Targets
  <2>7. declined' \subseteq Ref \X SUBSET File
    BY <2>2, <2>6
  <2>8. seen' \subseteq Ref /\ batch' \subseteq Ref
    BY <2>1, <2>2, <2>3
  <2> QED
    BY <1>1, <2>5, <2>7, <2>8 DEF Resolve
<1>2. CASE ForgetResolved
  BY <1>2 DEF ForgetResolved, AfterBatch
<1> QED
  BY <1>1, <1>2

\* An edit of a file.
LEMMA EditTyped ==
  ASSUME TypeInv, EditStep
  PROVE  TypeInv'
BY DEF EditStep, Edit, Tick, TypeInv, TypeOK, DiskOK, TablesOK, RunOK, Shape,
       tables, run, lists, selection, pass, outcome

\* Together: the actions of the specification.
LEMMA NextTyped ==
  ASSUME TypeInv, [Next]_vars
  PROVE  TypeInv'
<1>1. CASE Next
  BY <1>1, BoundaryTyped, DiffTyped, RemoveTyped, StoreTyped, ReconcileTyped, ResolveTyped,
     EditTyped
     DEF Next, RunStep, SyncStep, FullStep, FilesStep, ListStep, ParseStep, StoreStep, ResolveStep,
         Boundary
<1>2. CASE UNCHANGED vars
  BY <1>2 DEF TypeInv, TypeOK, DiskOK, TablesOK, RunOK, Shape, Tracked, vars, disks, tables, run,
              lists, selection, pass, outcome
<1> QED
  BY <1>1, <1>2

\* It holds from the start.
LEMMA InitTyped == Init => TypeInv
<1> SUFFICES ASSUME Init
             PROVE  TypeInv
  OBVIOUS
<1>1. DiskOK
  BY DEF Init, DiskOK
<1>2. TablesOK
  BY DEF Init, TablesOK, Untracked
<1>3. RunOK /\ Shape
  BY NoCurTyped DEF Init, RunOK, Shape, Steps, Kinds
<1> QED
  BY <1>1, <1>2, <1>3 DEF TypeInv, TypeOK

\* TypeInv is an invariant.
LEMMA AlwaysTyped == Spec => []TypeInv
BY InitTyped, NextTyped, PTL DEF Spec

\* The tables and the state of a run keep their types, whatever fails or is
\* edited: references, restored ones included, stay references that could have
\* been written, and nothing is stored of a file that could not be read.
THEOREM IndexTypeCorrect == Spec => []TypeOK
<1>1. TypeInv => TypeOK
  BY DEF TypeInv
<1> QED
  BY <1>1, AlwaysTyped, PTL

-----------------------------------------------------------------------------
(* Stamps *)

\* The file on disk, if it still has stamp s, has text t.
Agrees(f, s, t) == disk[f].stamp = s => disk[f].text = t

\* No stamp anywhere is later than the last one given out, ...
ClockInv ==
  /\ \A f \in File : disk[f].stamp <= clock /\ files[f].stamp <= clock
  /\ cur.stamp <= clock
  /\ \A m \in meta : m[2] <= clock

\* ... and a stamp that a run stores, holds or has to write down was taken
\* before the text it stands next to was read.
StampInv ==
  /\ \A f \in Tracked : Agrees(f, files[f].stamp, files[f].hash)
  /\ \A m \in meta : Agrees(m[1], m[2], files[m[1]].hash)
  /\ pc \in {"persist", "replace", "nodes", "refs", "file"} /\ Readable(cur.text)
       => Agrees(cur.file, cur.stamp, cur.text)

\* Stamps are handed on, never invented; only an edit has a new one.
LEMMA NextClock ==
  ASSUME TypeInv, TypeInv', ClockInv, [Next]_vars
  PROVE  ClockInv'
<1> USE NoCurTyped, HoldingTyped
    DEF TypeInv, TypeOK, DiskOK, TablesOK, RunOK, Shape, ClockInv, Untracked, Go, disks, tables,
        lists, selection, pass, outcome, run
<1>1. CASE Boundary
  BY <1>1 DEF Boundary, StartSync, StartFull, StartFiles, StartList, Abort, FullFailed, Finish,
              RunError, Kill, Over, Begin, Tick
<1>2. CASE Compare
  BY <1>2 DEF Compare
<1>3. CASE \/ DiffDone \/ MetaDone \/ SyncParsed \/ FullParsed
            \/ FilesParsed \/ ListParsed \/ ReconcileDone \/ ResolveDone
  BY <1>3 DEF DiffDone, MetaDone, SyncParsed, FullParsed, FilesParsed, ListParsed, ReconcileDone,
              ResolveDone
<1>4. ASSUME NEW f \in File, DiffSkip(f) \/ DiffStat(f) \/ ParseStat(f) \/ ReconcileKeep(f)
      PROVE  ClockInv'
  BY <1>4 DEF DiffSkip, DiffStat, ParseStat, ReconcileKeep
<1>5. ASSUME NEW m \in meta, UpsertMeta(m[1], m[2])
      PROVE  ClockInv'
  BY <1>5 DEF UpsertMeta
<1>6. CASE RemoveDelete \/ DropUnreplaced
  <2>1. cur.file \in File /\ DeleteFile(cur.file)
    BY <1>6 DEF RemoveDelete, DropUnreplaced
  <2>2. \A f \in File : files'[f].stamp \in {files[f].stamp, 0}
    BY <2>1 DEF DeleteFile
  <2>3. cur' = NoCur /\ UNCHANGED <<disk, clock, meta>>
    BY <1>6 DEF RemoveDelete, DropUnreplaced, FileDone
  <2> QED
    BY <2>2, <2>3
<1>7. ASSUME NEW f \in File, RemoveRestore(f) \/ ReconcileRemove(f)
      PROVE  ClockInv'
  <2>1. CASE RemoveRestore(f)
    BY <2>1 DEF RemoveRestore, RestoreRefs
  <2>2. CASE ReconcileRemove(f)
    <3>1. \A g \in File : files'[g].stamp \in {files[g].stamp, 0}
      BY <2>2 DEF ReconcileRemove, DeleteFile
    <3> QED
      BY <2>2, <3>1 DEF ReconcileRemove
  <2> QED
    BY <1>7, <2>1, <2>2
<1>8. CASE CaptureNames \/ Resolve \/ ForgetResolved
  BY <1>8 DEF CaptureNames, Resolve, ForgetResolved, AfterBatch
<1>9. CASE ParseRead
  BY <1>9 DEF ParseRead
<1>10. CASE SkipStore
  BY <1>10 DEF SkipStore, FileDone
<1>11. CASE StoreRestore \/ StoreDelete \/ StoreNodes \/ StoreRefs
  BY <1>11 DEF StoreRestore, StoreDelete, StoreNodes, StoreRefs, Storing, RestoreRefs, DeleteFile,
               InsertNodes, InsertRefs
<1>12. CASE StoreFile
  <2>1. cur.file \in File /\ cur' = NoCur /\ UNCHANGED <<disk, clock, meta>>
    BY <1>12 DEF StoreFile, FileDone
  <2>2. \A f \in File : files'[f].stamp \in {files[f].stamp, cur.stamp}
    BY <1>12, <2>1 DEF StoreFile, UpsertFile
  <2> QED
    BY <2>1, <2>2
<1>13. CASE EditStep
  BY <1>13 DEF EditStep, Edit, Tick
<1>14. CASE UNCHANGED vars
  BY <1>14 DEF vars
<1> QED
  BY <1>1, <1>2, <1>3, <1>4, <1>5, <1>6, <1>7, <1>8, <1>9, <1>10, <1>11, <1>12, <1>13, <1>14
     DEF Next, RunStep, SyncStep, FullStep, FilesStep, ListStep, ParseStep, StoreStep, ResolveStep,
         Boundary

\* A file that is tracked after a deletion is another one, with the row it had.
LEMMA DeleteFrame ==
  ASSUME TypeOK, NEW f \in File, DeleteFile(f), NEW g \in Tracked'
  PROVE  g \in Tracked /\ g # f /\ files'[g] = files[g]
BY DEF DeleteFile, Untracked, Tracked, TypeOK, TablesOK

\* A deletion only makes fewer rows to agree with the disk.
LEMMA DeleteStamp ==
  ASSUME TypeInv, StampInv, NEW f \in File, DeleteFile(f), disk' = disk, meta = {}, meta' = meta,
         \/ cur' = NoCur
         \/ UNCHANGED cur /\ pc' = "nodes" /\ pc = "replace"
         \/ UNCHANGED cur /\ pc' = "reconcile"
  PROVE  StampInv'
<1>1. \A g \in Tracked' : g \in Tracked /\ files'[g] = files[g]
  BY DeleteFrame DEF TypeInv
<1> QED
  BY <1>1, IndexAssumption DEF StampInv, Agrees, NoCur, Readable

\* What a run stores next to a stamp was read after the stamp was taken, and
\* an edit in between has given the file another stamp.
LEMMA NextStamp ==
  ASSUME TypeInv, TypeInv', ClockInv, StampInv, [Next]_vars
  PROVE  StampInv'
<1> USE IndexAssumption
    DEF StampInv, Agrees, Readable, Go, disks, tables, lists, selection, pass, outcome, run
<1>1. CASE Boundary
  BY <1>1 DEF Boundary, StartSync, StartFull, StartFiles, StartList, Abort, FullFailed, Finish,
              RunError, Kill, Over, Begin, Tracked
<1>2. CASE Compare
  BY <1>2 DEF Compare, IsChanged, TypeInv, TypeOK, RunOK, Shape, Tracked
<1>3. CASE \/ DiffDone \/ MetaDone \/ SyncParsed \/ FullParsed
            \/ FilesParsed \/ ListParsed \/ ReconcileDone \/ ResolveDone
  BY <1>3 DEF DiffDone, MetaDone, SyncParsed, FullParsed, FilesParsed, ListParsed, ReconcileDone,
       ResolveDone, Tracked
<1>4. ASSUME NEW f \in File, DiffSkip(f) \/ DiffStat(f) \/ ReconcileKeep(f)
      PROVE  StampInv'
  BY <1>4 DEF DiffSkip, DiffStat, ReconcileKeep, Tracked
<1>5. ASSUME NEW f \in File, ParseStat(f)
      PROVE  StampInv'
  BY <1>5, HoldingTyped DEF ParseStat, Tracked, Holding
<1>6. ASSUME NEW m \in meta, UpsertMeta(m[1], m[2])
      PROVE  StampInv'
  BY <1>6 DEF UpsertMeta, Tracked, TypeInv, TypeOK, TablesOK, RunOK
<1>7. CASE RemoveDelete \/ DropUnreplaced
  <2>1. cur.file \in File /\ DeleteFile(cur.file)
    BY <1>7 DEF RemoveDelete, DropUnreplaced, TypeInv, Shape
  <2>2. cur' = NoCur /\ meta = {} /\ UNCHANGED <<disk, meta>>
    BY <1>7 DEF RemoveDelete, DropUnreplaced, FileDone, TypeInv, Shape
  <2> QED
    BY <2>1, <2>2, DeleteStamp
<1>8. CASE StoreDelete
  <2>1. cur.file \in File /\ DeleteFile(cur.file)
    BY <1>8 DEF StoreDelete, TypeInv, Shape
  <2>2. UNCHANGED <<cur, disk, meta>> /\ meta = {} /\ pc' = "nodes" /\ pc = "replace"
    BY <1>8 DEF StoreDelete, Storing, TypeInv, Shape
  <2> QED
    BY <2>1, <2>2, DeleteStamp
<1>9. ASSUME NEW f \in File, ReconcileRemove(f)
      PROVE  StampInv'
  <2>1. UNCHANGED <<cur, disk, meta>> /\ meta = {} /\ pc' = "reconcile"
    BY <1>9 DEF ReconcileRemove, TypeInv, Shape
  <2> QED
    BY <1>9, <2>1, DeleteStamp DEF ReconcileRemove
<1>10. ASSUME NEW f \in File, RemoveRestore(f)
       PROVE  StampInv'
  BY <1>10 DEF RemoveRestore, RestoreRefs, Tracked
<1>11. CASE CaptureNames \/ Resolve \/ ForgetResolved
  BY <1>11 DEF CaptureNames, Resolve, ForgetResolved, AfterBatch, Tracked
<1>12. CASE ParseRead
  BY <1>12, HoldingTyped DEF ParseRead, Holding, Tracked
<1>13. CASE SkipStore
  BY <1>13 DEF SkipStore, FileDone, Tracked
<1>14. CASE StoreRestore \/ StoreNodes \/ StoreRefs
  BY <1>14 DEF StoreRestore, StoreNodes, StoreRefs, Storing, RestoreRefs, InsertNodes, InsertRefs,
               Unstored, Parsed, Tracked
<1>15. CASE StoreFile
  <2>1. meta = {} /\ cur.file \in File /\ cur.text \in Text
    BY <1>15 DEF StoreFile, TypeInv, Shape
  <2>2. \A g \in File : /\ g = cur.file => files'[g] = [hash |-> cur.text, stamp |-> cur.stamp]
                        /\ g # cur.file => files'[g] = files[g]
    BY <1>15, <2>1 DEF StoreFile, UpsertFile, TypeInv, TypeOK, TablesOK
  <2>3. pc' = "pick" /\ UNCHANGED <<disk, meta>>
    BY <1>15 DEF StoreFile, FileDone
  <2>4. Agrees(cur.file, cur.stamp, cur.text)
    BY <1>15, <2>1 DEF StoreFile
  <2> QED
    BY <2>1, <2>2, <2>3, <2>4 DEF Tracked
<1>16. ASSUME NEW f \in File, NEW text \in Text \cup {Missing, Unreadable}, Edit(f, text)
       PROVE  StampInv'
  <2>1. \A g \in File : g # f => disk'[g] = disk[g]
    BY <1>16 DEF Edit
  <2>2. disk'[f].stamp = clock + 1
    BY <1>16 DEF Edit, TypeInv, TypeOK, DiskOK
  <2>3. UNCHANGED <<files, meta, cur, pc>>
    BY <1>16 DEF Edit
  <2>4. files[f].stamp # clock + 1 /\ cur.stamp # clock + 1
        /\ \A m \in meta : m[2] # clock + 1
    BY DEF ClockInv, TypeInv, TypeOK, DiskOK, TablesOK, RunOK
  <2>5. \A m \in meta : m[1] \in File
    BY DEF TypeInv, TypeOK, RunOK
  <2>6. pc \in {"persist", "replace", "nodes", "refs", "file"} => cur.file \in File
    BY DEF TypeInv, Shape
  <2> QED
    BY <2>1, <2>2, <2>3, <2>4, <2>5, <2>6 DEF Tracked
<1>17. CASE UNCHANGED vars
  BY <1>17 DEF vars, Tracked
<1> QED
  BY <1>1, <1>2, <1>3, <1>4, <1>5, <1>6, <1>7, <1>8, <1>9, <1>10, <1>11, <1>12, <1>13, <1>14,
     <1>15, <1>16, <1>17
     DEF Next, RunStep, SyncStep, FullStep, FilesStep, ListStep, ParseStep, StoreStep, ResolveStep,
         EditStep, Boundary

\* A stored stamp never hides a change: whenever the row of a file has the stamp
\* of the file on disk, it has the hash of its text as well, however the edits
\* fell between the stat, the read and the write of the row (read_and_parse).
THEOREM IndexNoMaskedChange == Spec => []NoMaskedChange
<1> DEFINE Inv == ClockInv /\ StampInv
<1>1. Init => Inv
  BY NoCurTyped DEF Init, ClockInv, StampInv, Untracked, Tracked
<1>2. TypeInv /\ TypeInv' /\ Inv /\ [Next]_vars => Inv'
  BY NextClock, NextStamp
<1>3. Inv => NoMaskedChange
  BY DEF StampInv, Agrees, NoMaskedChange
<1> HIDE DEF Inv
<1> QED
  BY <1>1, <1>2, <1>3, AlwaysTyped, PTL DEF Spec

-----------------------------------------------------------------------------
(* Tracked files are stored *)

\* Every node that a text defines is in the table.
HasNodes(f, t) == \A n \in Defines[t] : <<f, n>> \in nodes

\* A run writes the files row of the file in hand only after its nodes.
StoredInv ==
  /\ \A f \in Tracked : HasNodes(f, files[f].hash)
  /\ pc \in {"refs", "file"} => HasNodes(cur.file, cur.text)

\* Nodes go only with the row of their file, and a row comes only after them.
LEMMA NextStored ==
  ASSUME TypeInv, TypeInv', StoredInv, [Next]_vars
  PROVE  StoredInv'
<1> USE IndexAssumption DEF StoredInv, HasNodes, Go, disks, tables, lists, selection, pass, outcome, run
<1>1. CASE Boundary
  BY <1>1 DEF Boundary, StartSync, StartFull, StartFiles, StartList, Abort, FullFailed, Finish,
              RunError, Kill, Over, Begin, Tracked
<1>2. CASE \/ Compare \/ DiffDone \/ MetaDone \/ SyncParsed \/ FullParsed
            \/ FilesParsed \/ ListParsed \/ ReconcileDone \/ ResolveDone
  BY <1>2 DEF Compare, DiffDone, MetaDone, SyncParsed, FullParsed, FilesParsed, ListParsed,
              ReconcileDone, ResolveDone, Tracked
<1>3. ASSUME NEW f \in File,
             DiffSkip(f) \/ DiffStat(f) \/ ParseStat(f) \/ ReconcileKeep(f) \/ RemoveRestore(f)
      PROVE  StoredInv'
  BY <1>3 DEF DiffSkip, DiffStat, ParseStat, ReconcileKeep, RemoveRestore, RestoreRefs, Tracked
<1>4. ASSUME NEW m \in meta, UpsertMeta(m[1], m[2])
      PROVE  StoredInv'
  BY <1>4 DEF UpsertMeta, Tracked, TypeInv, TypeOK, TablesOK, RunOK
<1>5. ASSUME NEW f \in File, DeleteFile(f), pc' \notin {"refs", "file"}
      PROVE  StoredInv'
  <2>1. \A g \in Tracked' : g \in Tracked /\ g # f /\ files'[g] = files[g]
    BY <1>5, DeleteFrame DEF TypeInv
  <2>2. \A n \in nodes : n[1] # f => n \in nodes'
    BY <1>5 DEF DeleteFile
  <2> QED
    BY <1>5, <2>1, <2>2
<1>6. CASE RemoveDelete \/ DropUnreplaced \/ StoreDelete \/ \E f \in File : ReconcileRemove(f)
  BY <1>5, <1>6
     DEF RemoveDelete, DropUnreplaced, StoreDelete, ReconcileRemove, TypeInv, Shape
<1>7. CASE CaptureNames \/ Resolve \/ ForgetResolved \/ ParseRead \/ SkipStore \/ StoreRestore
  BY <1>7 DEF CaptureNames, Resolve, ForgetResolved, AfterBatch, ParseRead, SkipStore, FileDone, StoreRestore,
              Storing, RestoreRefs, Tracked
<1>8. CASE StoreNodes
  BY <1>8 DEF StoreNodes, Storing, InsertNodes, Tracked
<1>9. CASE StoreRefs
  BY <1>9 DEF StoreRefs, Storing, InsertRefs, Tracked
<1>10. CASE StoreFile
  <2>1. cur.file \in File
    BY <1>10 DEF StoreFile, TypeInv, Shape
  <2>2. \A g \in File : /\ g = cur.file => files'[g] = [hash |-> cur.text, stamp |-> cur.stamp]
                        /\ g # cur.file => files'[g] = files[g]
    BY <1>10, <2>1 DEF StoreFile, UpsertFile, TypeInv, TypeOK, TablesOK
  <2>3. pc' = "pick" /\ UNCHANGED nodes /\ HasNodes(cur.file, cur.text)
    BY <1>10 DEF StoreFile, UpsertFile
  <2> QED
    BY <2>1, <2>2, <2>3 DEF Tracked
<1>11. CASE EditStep
  BY <1>11 DEF EditStep, Edit, Tracked
<1>12. CASE UNCHANGED vars
  BY <1>12 DEF vars, Tracked
<1> QED
  BY <1>1, <1>2, <1>3, <1>4, <1>6, <1>7, <1>8, <1>9, <1>10, <1>11, <1>12
     DEF Next, RunStep, SyncStep, FullStep, FilesStep, ListStep, ParseStep, StoreStep, ResolveStep,
         Boundary

\* A run that is killed or fails between two transactions of a file leaves no
\* row that claims nodes which are not there (store_extraction_result).
THEOREM IndexTrackedIsStored == Spec => []TrackedIsStored
<1>1. Init => StoredInv
  BY NoCurTyped DEF Init, StoredInv, Untracked, Tracked
<1>2. TypeInv /\ TypeInv' /\ StoredInv /\ [Next]_vars => StoredInv'
  BY NextStored
<1>3. StoredInv => TrackedIsStored
  BY DEF StoredInv, HasNodes, TrackedIsStored
<1> QED
  BY <1>1, <1>2, <1>3, AlwaysTyped, PTL DEF Spec

-----------------------------------------------------------------------------
(* Resolution                                                                *)

\* A build has put every row it has passed to the resolver: what it answered is
\* in the batch to delete, and what it declined stays.
BuildInv ==
  kind \in Builds =>
    /\ pc \notin {"resolve", "forget", "finish"} => seen = {}
    /\ pc = "resolve" => \A r \in refs \cap seen : Declined(r)
    /\ pc = "forget" => \A r \in refs \cap seen : r \in batch \/ Declined(r)
    /\ pc = "finish" /\ touched => \A r \in refs : Declined(r)

\* The steps into and within the end of a run.
LEMMA NextBuild ==
  ASSUME BuildInv, [Next]_vars
  PROVE  BuildInv'
<1> USE DEF BuildInv, Declined, Builds, Runs, Go, Targets, disks, tables, lists, selection, pass,
            outcome, run
<1>1. CASE Resolve
  <2> SUFFICES ASSUME kind \in Builds
               PROVE  BuildInv'
    BY <1>1 DEF Resolve
  <2>1. PICK rows, found :
          /\ seen' = seen \cup rows /\ batch' = found
          /\ declined' = declined \cup {<<r, Targets(r)>> : r \in rows \ found}
    BY <1>1 DEF Resolve
  <2>2. pc = "resolve" /\ pc' = "forget" /\ UNCHANGED <<refs, nodes, kind>>
    BY <1>1 DEF Resolve
  <2>3. \A r \in refs \cap seen : <<r, Targets(r)>> \in declined'
    BY <2>1, <2>2
  <2>4. \A r \in rows : r \in batch' \/ <<r, Targets(r)>> \in declined'
    BY <2>1
  <2>5. \A r \in refs' \cap seen' : r \in batch' \/ <<r, Targets(r)>> \in declined'
    BY <2>1, <2>2, <2>3, <2>4
  <2> QED
    BY <2>2, <2>5
<1>2. CASE ForgetResolved
  BY <1>2 DEF ForgetResolved, AfterBatch
<1>3. CASE ResolveDone
  BY <1>3 DEF ResolveDone, Unseen
<1>4. CASE ReconcileDone \/ SyncParsed \/ FilesParsed \/ ListParsed
  BY <1>4 DEF ReconcileDone, SyncParsed, FilesParsed, ListParsed
<1>5. CASE EditStep \/ UNCHANGED vars
  BY <1>5 DEF EditStep, Edit, vars
<1>6. CASE Boundary
  BY <1>6 DEF Boundary, StartSync, StartFull, StartFiles, StartList, Abort, FullFailed, Finish,
              RunError, Kill, Over, Begin
<1>7. ASSUME {pc, pc'} \cap {"resolve", "forget", "finish"} = {}, UNCHANGED <<kind, seen>>
      PROVE  BuildInv'
  BY <1>7
<1>8. CASE \/ Compare \/ DiffDone \/ MetaDone \/ RemoveDelete \/ CaptureNames \/ FullParsed
           \/ \E f \in File : DiffSkip(f) \/ DiffStat(f) \/ RemoveRestore(f)
           \/ \E m \in meta : UpsertMeta(m[1], m[2])
           \/ \E f \in File : ReconcileKeep(f) \/ ReconcileRemove(f)
  BY <1>7, <1>8 DEF Compare, DiffDone, MetaDone, RemoveDelete, CaptureNames, FullParsed, DiffSkip,
                    DiffStat, RemoveRestore, UpsertMeta, ReconcileKeep, ReconcileRemove
<1>9. CASE ParseStep \/ StoreStep \/ DropUnreplaced
  BY <1>7, <1>9 DEF ParseStep, ParseStat, ParseRead, StoreStep, SkipStore, StoreRestore, StoreDelete,
                    StoreNodes, StoreRefs, StoreFile, DropUnreplaced, FileDone, Storing
<1> QED
  BY <1>1, <1>2, <1>3, <1>4, <1>5, <1>6, <1>8, <1>9
     DEF Next, RunStep, SyncStep, FullStep, FilesStep, ListStep, ResolveStep, Boundary

\* A build that ends well has put every row that is left to the resolver, with the
\* nodes there are, whatever earlier runs left unresolved and although each page
\* shrinks the table it pages through (resolve_and_persist_batched).
THEOREM IndexFullTriesAll == Spec => []FullTriesAll
<1>1. Init => BuildInv
  BY DEF Init, BuildInv, Builds
<1>2. BuildInv => FullTriesAll
  BY DEF BuildInv, FullTriesAll
<1> QED
  BY <1>1, <1>2, NextBuild, PTL DEF Spec

\* The names of a set of files' nodes are noted, but for those of the file in hand
\* whose nodes are stored and that is not yet counted.
Noted ==
  \A f \in changed, n \in Name : <<f, n>> \in nodes =>
    n \in names \/ (pc \in {"refs", "file"} /\ f = cur.file /\ n \in Defines[cur.text])

\* An update notes the names of the files it replaces, before and after, and so
\* comes to every reference by such a name.
RepairInv ==
  kind \in {"sync", "files"} =>
    /\ pc \in {"meta", "remove", "delete"} => todo = changed
    /\ pc \in {"pick", "read", "persist", "replace", "nodes", "refs", "file"} /\ kind = "sync" => Noted
    /\ pc = "resolve" => Noted
    /\ pc = "forget" => \A r \in refs : r[3] \in Name /\ Targets(r) \cap changed # {} =>
                          r \in batch \/ Declined(r)
    /\ pc = "finish" /\ (kind = "sync" \/ touched) =>
         \A r \in refs : r[3] \in Name /\ Targets(r) \cap changed # {} => Declined(r)

\* Every step keeps RepairInv.
LEMMA NextRepair ==
  ASSUME TypeInv, RepairInv, [Next]_vars
  PROVE  RepairInv'
<1> USE DEF RepairInv, Noted, Declined, Runs, Go, Targets, disks, tables, lists, selection, pass,
            outcome, run
<1>1. CASE \/ EditStep \/ UNCHANGED vars
  BY <1>1 DEF EditStep, Edit, vars
<1>2. CASE Boundary
  BY <1>2 DEF Boundary, StartSync, StartFull, StartFiles, StartList, Abort, FullFailed, Finish,
              RunError, Kill, Over, Begin
<1>3. CASE \/ Compare \/ DiffDone \/ MetaDone \/ RemoveDelete
           \/ \E f \in File : DiffSkip(f) \/ DiffStat(f) \/ RemoveRestore(f)
           \/ \E m \in meta : UpsertMeta(m[1], m[2])
  <2>1. CASE \/ MetaDone \/ RemoveDelete \/ \E f \in File : RemoveRestore(f)
             \/ \E m \in meta : UpsertMeta(m[1], m[2])
    <3>1. /\ pc \in {"meta", "remove", "delete"} /\ pc' \in {"meta", "remove", "delete"}
          /\ UNCHANGED <<kind, todo, changed>>
      BY <2>1 DEF MetaDone, RemoveDelete, RemoveRestore, UpsertMeta
    <3> QED BY <3>1
  <2>2. CASE Compare \/ DiffDone \/ \E f \in File : DiffSkip(f) \/ DiffStat(f)
    BY <2>2 DEF Compare, DiffDone, DiffSkip, DiffStat
  <2> QED BY <1>3, <2>1, <2>2
<1>4. CASE \/ FullParsed \/ ListParsed \/ ReconcileDone \/ ResolveDone
           \/ \E f \in File : ReconcileKeep(f) \/ ReconcileRemove(f)
  BY <1>4 DEF FullParsed, ListParsed, ReconcileDone, ResolveDone, ReconcileKeep, ReconcileRemove, Builds
<1>5. CASE CaptureNames
  <2>1. \A f \in changed, n \in Name : <<f, n>> \in nodes => n \in names'
    BY <1>5 DEF CaptureNames, NamesOf, NodeNames
  <2> QED BY <1>5, <2>1 DEF CaptureNames
<1>6. CASE FilesParsed
  <2>1. \A f \in changed, n \in Name : <<f, n>> \in nodes => n \in names'
    BY <1>6 DEF FilesParsed, NodeNames
  <2> QED BY <1>6, <2>1 DEF FilesParsed
<1>7. CASE SyncParsed
  BY <1>7 DEF SyncParsed
<1>8. CASE (\E f \in File : ParseStat(f)) \/ ParseRead
  BY <1>8 DEF ParseStat, ParseRead
<1>9. CASE SkipStore \/ DropUnreplaced
  <2>1. nodes' \subseteq nodes /\ names \subseteq names'
    BY <1>9 DEF SkipStore, DropUnreplaced, FileDone, DeleteFile
  <2>2. pc = "persist" /\ pc' = "pick" /\ UNCHANGED <<kind, changed>>
    BY <1>9 DEF SkipStore, DropUnreplaced, FileDone
  <2> QED BY <2>1, <2>2
<1>10. CASE StoreRestore \/ StoreDelete
  <2>1. nodes' \subseteq nodes /\ UNCHANGED <<names, changed, kind>>
    BY <1>10 DEF StoreRestore, StoreDelete, Storing, RestoreRefs, DeleteFile
  <2>2. pc \in {"persist", "replace"} /\ pc' \in {"replace", "nodes"}
    BY <1>10 DEF StoreRestore, StoreDelete
  <2> QED BY <2>1, <2>2
<1>11. CASE StoreNodes
  <2>1. /\ nodes' = nodes \cup {<<cur.file, n>> : n \in Defines[cur.text]}
        /\ UNCHANGED <<names, changed, kind, cur>> /\ pc \in {"nodes", "persist"} /\ pc' = "refs"
    BY <1>11 DEF StoreNodes, Storing, InsertNodes
  <2> QED BY <2>1
<1>12. CASE StoreRefs
  BY <1>12 DEF StoreRefs, Storing, InsertRefs
<1>13. CASE StoreFile
  <2>1. /\ pc = "file" /\ pc' = "pick" /\ UNCHANGED <<nodes, changed, kind>>
        /\ kind = "sync" => names' = names \cup Defines[cur.text]
    BY <1>13 DEF StoreFile, UpsertFile, FileDone, Parsed, Readable, TypeInv, Shape
  <2> QED BY <2>1
<1>14. CASE Resolve
  <2>1. kind \in {"sync", "files"} =>
          \A r \in refs : r[3] \in Name /\ Targets(r) \cap changed # {} => r \in Selected
    <3>1. \A r \in refs : r[3] \in Name => Bare[r[3]] = r[3]
      BY IndexAssumption
    <3> QED BY <1>14, <3>1 DEF Resolve, Selected, Builds
  <2>2. pc' = "forget" /\ UNCHANGED <<refs, nodes, changed, kind>>
    BY <1>14 DEF Resolve
  <2>3. kind \in {"sync", "files"} =>
          \A r \in Selected : r \in batch' \/ <<r, Targets(r)>> \in declined'
    BY <1>14 DEF Resolve, Builds
  <2>4. kind \in {"sync", "files"} =>
          \A r \in refs : r[3] \in Name /\ Targets(r) \cap changed # {} =>
            r \in batch' \/ <<r, Targets(r)>> \in declined'
    BY <2>1, <2>3
  <2> QED BY <2>2, <2>4
<1>15. CASE ForgetResolved
  BY <1>15 DEF ForgetResolved, AfterBatch, Builds
<1> QED
  BY <1>1, <1>2, <1>3, <1>4, <1>5, <1>6, <1>7, <1>8, <1>9, <1>10, <1>11, <1>12, <1>13, <1>14, <1>15
     DEF Next, RunStep, SyncStep, FullStep, FilesStep, ListStep, ParseStep, StoreStep, ResolveStep,
         Boundary

\* An update that ends well leaves no reference by a bare name that a changed file
\* defines, unless the resolver has just declined it, wherever it stands and
\* whatever failed before: the names are noted
\* before the files are replaced and after (sync, index_files,
\* get_unresolved_references_by_names).
THEOREM IndexSyncRepairs == Spec => []SyncRepairs
<1>1. Init => RepairInv
  BY DEF Init, RepairInv
<1>2. TypeInv /\ RepairInv /\ [Next]_vars => RepairInv'
  BY NextRepair
<1>3. RepairInv => SyncRepairs
  BY DEF RepairInv, SyncRepairs
<1> QED
  BY <1>1, <1>2, <1>3, AlwaysTyped, PTL DEF Spec

-----------------------------------------------------------------------------
(* Whole runs                                                                *)

historyVars == <<vars, began>>

\* The memory of a run changes nothing of it.
LEMMA HistoryIsNext == [HistoryNext]_historyVars => [Next]_vars
BY DEF HistoryNext, historyVars

-----------------------------------------------------------------------------
(* A run comes to every file that is left alone                              *)

\* The file in hand, from the moment it is read until its row is written.
Parsing == pc \in {"read", "persist", "replace", "nodes", "refs", "file"}
InHand(f) == Parsing /\ cur.file = f

Stored(f) == files[f].hash = disk[f].text

\* A readable file that is left alone is stored, or the run still comes to it; a
\* sync comes only to those it has to store.
ReadableInv(f) ==
  Readable(disk[f].text) =>
    /\ f \notin gone /\ (pc = "delete" => cur.file # f)
    /\ pc \in {"diff", "compare"} =>
         f \in todo \cup changed \/ (pc = "compare" /\ cur.file = f) \/ Stored(f)
    /\ pc \in {"diff", "compare"} /\ f \in changed => ~Stored(f)
    /\ pc \in {"meta", "remove", "delete", "pick"} \/ Parsing =>
         /\ f \in todo \/ InHand(f) \/ (Asked(f) => Stored(f))
         /\ kind = "sync" /\ f \in todo => ~Stored(f)
    /\ InHand(f) => /\ f \notin todo /\ (pc # "read" => cur.text = disk[f].text)
                    /\ kind = "sync" /\ pc \in {"read", "persist"} => ~Stored(f)
    /\ pc \in {"reconcile", "resolve", "forget", "finish"} => (Asked(f) => Stored(f))

\* A file that is gone is not tracked, or the run still removes it.
MissingInv(f) ==
  disk[f].text = Missing /\ kind \in {"sync", "full"} =>
    /\ f \notin changed /\ (pc # "reconcile" => f \notin todo)
    /\ ~InHand(f) /\ (pc = "compare" => cur.file # f)
    /\ kind = "sync" => f \notin Tracked \/ f \in gone \/ (pc = "delete" /\ cur.file = f)
    /\ kind = "sync" /\ pc \notin {"diff", "compare", "meta", "remove", "delete"} => gone = {}
    /\ pc = "reconcile" => f \notin Tracked \/ f \in todo
    /\ pc \in {"resolve", "forget", "finish"} => f \notin Tracked

FileInv(f) == ReadableInv(f) /\ MissingInv(f)

FreshInv ==
  /\ pc = "idle" <=> kind = "none"
  /\ began \in Nat /\ began <= clock
  /\ kind \in Runs => \A f \in File : LeftAlone(f) => FileInv(f)

\* At its start a run has everything to do.
LEMMA StartFresh ==
  ASSUME TypeInv, FreshInv, HistoryNext, Boundary
  PROVE  FreshInv'
<1> USE DEF Begin, Over, disks, tables, Builds, Runs
<1>1. CASE Abort \/ FullFailed \/ Finish \/ RunError \/ Kill
  BY <1>1 DEF Abort, FullFailed, Finish, RunError, Kill, Tick, HistoryNext, FreshInv, TypeInv, TypeOK, DiskOK
<1>2. CASE StartSync \/ StartFull \/ \E S \in SUBSET File : StartFiles(S) \/ StartList(S)
  <2>1. /\ pc' # "idle" /\ kind' \in Runs /\ began' = clock /\ clock' = clock /\ clock \in Nat
        /\ UNCHANGED <<disk, files>>
    BY <1>2 DEF StartSync, StartFull, StartFiles, StartList, HistoryNext, TypeInv, TypeOK, DiskOK
  <2>2. SUFFICES ASSUME NEW f \in File
                 PROVE  FileInv(f)'
    BY <2>1 DEF FreshInv
  <2>3. Readable(disk[f].text) => disk[f].text # Missing
    BY IndexAssumption DEF Readable
  <2>4. CASE StartSync
    BY <2>1, <2>3, <2>4 DEF StartSync, FileInv, ReadableInv, MissingInv, Parsing, InHand, Listed,
         Tracked, Readable
  <2>5. CASE StartFull
    BY <2>1, <2>3, <2>5 DEF StartFull, FileInv, ReadableInv, MissingInv, Parsing, InHand, Listed,
         Tracked, Readable
  <2>6. ASSUME NEW S \in SUBSET File, StartFiles(S) \/ StartList(S)
        PROVE  FileInv(f)'
    BY <2>1, <2>3, <2>6 DEF StartFiles, StartList, FileInv, ReadableInv, MissingInv, Parsing, InHand,
         Asked, Readable
  <2> QED BY <1>2, <2>4, <2>5, <2>6
<1> QED BY <1>1, <1>2 DEF Boundary

\* What the steps in between leave alone.
LEMMA DiffFresh ==
  ASSUME TypeInv, StampInv, NEW f \in File, FileInv(f),
         \/ Compare \/ DiffDone \/ MetaDone
         \/ \E g \in File : DiffSkip(g) \/ DiffStat(g)
         \/ \E m \in meta : UpsertMeta(m[1], m[2])
  PROVE  FileInv(f)'
<1> USE IndexAssumption DEF FileInv, ReadableInv, MissingInv, Parsing, InHand, Asked, Stored, Go, disks, tables,
            lists, selection, pass, outcome, Readable
<1>1. CASE Compare
  <2>1. /\ kind = "sync" /\ pc = "compare" /\ pc' = "diff" /\ UNCHANGED <<disk, files, kind, todo, gone>>
        /\ f # cur.file => (f \in changed' <=> f \in changed)
        /\ f = cur.file /\ disk[f].text \in Text =>
             IF Stored(f) THEN changed' = changed ELSE changed' = changed \cup {f}
        /\ f = cur.file /\ disk[f].text \notin Text => changed' = changed
    BY <1>1 DEF Compare, IsChanged
  <2>2. f \in Tracked' <=> f \in Tracked
    BY <2>1 DEF Tracked
  <2> QED BY <2>1, <2>2
<1>2. CASE DiffDone \/ MetaDone
  <2>1. f \in Tracked' <=> f \in Tracked
    BY <1>2 DEF DiffDone, MetaDone, Tracked
  <2> QED BY <1>2, <2>1 DEF DiffDone, MetaDone
<1>3. ASSUME NEW g \in File, DiffSkip(g) \/ DiffStat(g)
      PROVE  FileInv(f)'
  <2>1. f \in Tracked' <=> f \in Tracked
    BY <1>3 DEF DiffSkip, DiffStat, Tracked
  <2>2. CASE DiffSkip(g)
    <3>1. g \in Tracked /\ disk[g].text # Missing => Stored(g)
      BY <2>2 DEF DiffSkip, Skipped, StampInv, Agrees
    <3> QED BY <2>1, <2>2, <3>1 DEF DiffSkip, Skipped
  <2>3. CASE DiffStat(g)
    <3>1. cur'.file = g
      BY <2>3, HoldingTyped DEF DiffStat, Holding
    <3> QED BY <2>1, <2>3, <3>1 DEF DiffStat
  <2> QED BY <1>3, <2>2, <2>3
<1>4. ASSUME NEW m \in meta, UpsertMeta(m[1], m[2])
      PROVE  FileInv(f)'
  <2>1. files'[f].hash = files[f].hash
    BY <1>4 DEF UpsertMeta, TypeInv, TypeOK, TablesOK, RunOK
  <2>2. f \in Tracked' <=> f \in Tracked
    BY <2>1 DEF Tracked
  <2> QED BY <1>4, <2>1, <2>2 DEF UpsertMeta
<1> QED BY <1>1, <1>2, <1>3, <1>4

\* A removal takes only files that are gone.
LEMMA RemoveFresh ==
  ASSUME TypeInv, NEW f \in File, FileInv(f), kind \in Runs,
         RemoveDelete \/ CaptureNames \/ \E g \in File : RemoveRestore(g)
  PROVE  FileInv(f)'
<1> USE IndexAssumption DEF FileInv, ReadableInv, MissingInv, Parsing, InHand, Asked, Stored, Go, disks, tables,
            lists, selection, pass, outcome, Readable
<1>1. CASE RemoveDelete
  <2>1. cur.file \in File
    BY <1>1 DEF RemoveDelete, TypeInv, Shape
  <2>2. f # cur.file => files'[f] = files[f]
    BY <1>1, <2>1 DEF RemoveDelete, DeleteFile, TypeInv, TypeOK, TablesOK
  <2>3. f \in Tracked' => f \in Tracked /\ f # cur.file
    BY <1>1, <2>1, DeleteFrame DEF RemoveDelete, TypeInv
  <2> QED BY <1>1, <2>2, <2>3 DEF RemoveDelete
<1>2. CASE CaptureNames
  <2>1. f \in Tracked' <=> f \in Tracked
    BY <1>2 DEF CaptureNames, Tracked
  <2> QED BY <1>2, <2>1 DEF CaptureNames
<1>3. ASSUME NEW g \in File, RemoveRestore(g)
      PROVE  FileInv(f)'
  <2>1. f \in Tracked' <=> f \in Tracked
    BY <1>3 DEF RemoveRestore, RestoreRefs, Tracked
  <2>2. cur'.file = g
    BY <1>3, HoldingTyped DEF RemoveRestore, Holding
  <2> QED BY <1>3, <2>1, <2>2 DEF RemoveRestore, RestoreRefs
<1> QED BY <1>1, <1>2, <1>3

\* The file in hand is stored with what is on disk.
LEMMA ParseFresh ==
  ASSUME TypeInv, NEW f \in File, FileInv(f), kind \in Runs, ParseStep \/ StoreStep \/ DropUnreplaced
  PROVE  FileInv(f)'
<1> USE IndexAssumption DEF FileInv, ReadableInv, MissingInv, Parsing, InHand, Asked, Stored, Go, disks, tables,
            lists, selection, pass, outcome, Readable
<1>1. ASSUME NEW g \in File, ParseStat(g)
      PROVE  FileInv(f)'
  <2>1. f \in Tracked' <=> f \in Tracked
    BY <1>1 DEF ParseStat, Tracked
  <2>2. cur'.file = g
    BY <1>1, HoldingTyped DEF ParseStat, Holding
  <2>3. /\ pc = "pick" /\ g \in todo /\ todo' = todo \ {g} /\ UNCHANGED <<disk, files, kind, gone, changed>>
        /\ pc' = IF disk[g].text = Missing THEN "persist" ELSE "read"
    BY <1>1 DEF ParseStat
  <2>4. ReadableInv(f)'
    <3>1. CASE f = g
      BY <2>2, <2>3, <3>1
    <3>2. CASE f # g
      BY <2>2, <2>3, <3>2
    <3> QED BY <3>1, <3>2
  <2>5. MissingInv(f)'
    BY <2>1, <2>2, <2>3
  <2> QED BY <2>4, <2>5
<1>2. CASE ParseRead
  <2>1. f \in Tracked' <=> f \in Tracked
    BY <1>2 DEF ParseRead, Tracked
  <2>2. cur'.file = cur.file /\ cur'.text = disk[cur.file].text
    BY <1>2 DEF ParseRead, Holding
  <2> QED BY <1>2, <2>1, <2>2 DEF ParseRead
<1>3. ASSUME pc' \in {"replace", "nodes", "refs", "file"}, Parsing, pc # "read", UNCHANGED <<disk, kind, lists, cur, changed>>,
             f # cur.file => files'[f] = files[f]
      PROVE  FileInv(f)'
  <2>1. f # cur.file => (f \in Tracked' <=> f \in Tracked)
    BY <1>3 DEF Tracked
  <2>2. ReadableInv(f)'
    BY <1>3
  <2>3. MissingInv(f)'
    BY <1>3, <2>1
  <2> QED BY <2>2, <2>3
<1>4. CASE StoreRestore \/ StoreNodes \/ StoreRefs
  BY <1>3, <1>4 DEF StoreRestore, StoreNodes, StoreRefs, Storing, RestoreRefs, InsertNodes, InsertRefs
<1>5. CASE StoreDelete
  <2>1. cur.file \in File
    BY <1>5 DEF StoreDelete, TypeInv, Shape
  <2>2. f # cur.file => files'[f] = files[f]
    BY <1>5, <2>1 DEF StoreDelete, DeleteFile, TypeInv, TypeOK, TablesOK
  <2> QED BY <1>3, <1>5, <2>2 DEF StoreDelete, Storing
<1>6. ASSUME pc' = "pick", Parsing, pc # "read", UNCHANGED <<disk, kind, lists, changed>>,
             f # cur.file => files'[f] = files[f], f = cur.file /\ disk[f].text \in Text => Stored(f)'
      PROVE  FileInv(f)'
  <2>1. f # cur.file => (f \in Tracked' <=> f \in Tracked)
    BY <1>6 DEF Tracked
  <2> QED BY <1>6, <2>1
<1>7. CASE SkipStore
  <2>1. f = cur.file /\ disk[f].text \in Text => Stored(f)
    BY <1>7 DEF SkipStore, Unstored, Parsed
  <2> QED BY <1>6, <1>7, <2>1 DEF SkipStore, FileDone
<1>8. CASE DropUnreplaced
  <2>1. cur.file \in File
    BY <1>8 DEF DropUnreplaced, TypeInv, Shape
  <2>2. f # cur.file => files'[f] = files[f]
    BY <1>8, <2>1 DEF DropUnreplaced, DeleteFile, TypeInv, TypeOK, TablesOK
  <2>3. f = cur.file => disk[f].text \notin Text
    BY <1>8 DEF DropUnreplaced, Unstored, Parsed
  <2> QED BY <1>6, <1>8, <2>2, <2>3 DEF DropUnreplaced, FileDone
<1>9. CASE StoreFile
  <2>1. cur.file \in File
    BY <1>9 DEF StoreFile, TypeInv, Shape
  <2>2. /\ f # cur.file => files'[f] = files[f]
        /\ f = cur.file => files'[f].hash = cur.text
    BY <1>9, <2>1 DEF StoreFile, UpsertFile, TypeInv, TypeOK, TablesOK
  <2> QED BY <1>6, <1>9, <2>2 DEF StoreFile, FileDone
<1> QED BY <1>1, <1>2, <1>4, <1>5, <1>7, <1>8, <1>9 DEF ParseStep, StoreStep

\* The end of a run keeps what was stored.
LEMMA RestFresh ==
  ASSUME TypeInv, NEW f \in File, FileInv(f), kind \in Runs,
         \/ SyncParsed \/ FullParsed \/ FilesParsed \/ ListParsed \/ ReconcileDone \/ ResolveDone
         \/ Resolve \/ ForgetResolved
         \/ \E g \in File : ReconcileKeep(g) \/ ReconcileRemove(g)
  PROVE  FileInv(f)'
<1> USE IndexAssumption DEF FileInv, ReadableInv, MissingInv, Parsing, InHand, Asked, Stored, Go, disks, tables,
            lists, selection, pass, outcome, Readable
<1>1. CASE FullParsed
  BY <1>1 DEF FullParsed, Tracked, Listed
<1>2. CASE SyncParsed \/ FilesParsed \/ ListParsed
  <2>1. UNCHANGED Tracked
    BY <1>2 DEF SyncParsed, FilesParsed, ListParsed, Tracked
  <2> QED BY <1>2, <2>1 DEF SyncParsed, FilesParsed, ListParsed
<1>3. CASE ReconcileDone \/ ResolveDone \/ Resolve \/ ForgetResolved
  <2>1. UNCHANGED Tracked
    BY <1>3 DEF ReconcileDone, ResolveDone, Resolve, ForgetResolved, AfterBatch, Tracked
  <2> QED BY <1>3, <2>1 DEF ReconcileDone, ResolveDone, Resolve, ForgetResolved, AfterBatch
<1>4. ASSUME NEW g \in File, ReconcileKeep(g)
      PROVE  FileInv(f)'
  <2>1. UNCHANGED Tracked
    BY <1>4 DEF ReconcileKeep, Tracked
  <2> QED BY <1>4, <2>1 DEF ReconcileKeep
<1>5. ASSUME NEW g \in File, ReconcileRemove(g)
      PROVE  FileInv(f)'
  <2>1. f # g => files'[f] = files[f]
    BY <1>5 DEF ReconcileRemove, DeleteFile, TypeInv, TypeOK, TablesOK
  <2>2. f \in Tracked' => f \in Tracked /\ f # g
    BY <1>5, DeleteFrame DEF ReconcileRemove, TypeInv
  <2> QED BY <1>5, <2>1, <2>2 DEF ReconcileRemove
<1> QED BY <1>1, <1>2, <1>3, <1>4, <1>5

\* An edit takes a file out of those left alone: its stamp is a new one.
LEMMA EditFresh ==
  ASSUME TypeInv, FreshInv, HistoryNext, EditStep
  PROVE  FreshInv'
<1>1. PICK f \in File, text \in Text \cup {Missing, Unreadable} : Edit(f, text)
  BY DEF EditStep
<1>2. /\ UNCHANGED <<files, kind, pc, todo, gone, cur, changed>> /\ clock' = clock + 1
      /\ \A g \in File : g # f => disk'[g] = disk[g]
      /\ disk'[f].stamp = clock + 1
      /\ began' \in Nat /\ began' <= clock /\ (pc # "idle" => began' = began)
  BY <1>1 DEF Edit, Tick, HistoryNext, FreshInv, TypeInv, TypeOK, DiskOK, tables, run, lists, selection, pass
<1>3. UNCHANGED Tracked
  BY <1>2 DEF Tracked
<1>4. clock \in Nat
  BY DEF TypeInv, TypeOK, DiskOK
<1>5. SUFFICES ASSUME kind \in Runs, NEW g \in File, LeftAlone(g)'
               PROVE  FileInv(g)'
  BY <1>2, <1>4 DEF FreshInv
<1>6. g # f /\ LeftAlone(g)
  BY <1>2, <1>4, <1>5 DEF LeftAlone, FreshInv, Runs
<1> QED
  BY <1>2, <1>3, <1>5, <1>6 DEF FreshInv, FileInv, ReadableInv, MissingInv, Parsing, InHand, Asked, Stored

\* Together: every step of HistorySpec keeps FreshInv.
LEMMA NextFresh ==
  ASSUME TypeInv, StampInv, FreshInv, [HistoryNext]_historyVars
  PROVE  FreshInv'
<1> DEFINE Inner ==
      \/ Compare \/ DiffDone \/ MetaDone \/ RemoveDelete \/ CaptureNames
      \/ \E g \in File : DiffSkip(g) \/ DiffStat(g) \/ RemoveRestore(g)
      \/ \E m \in meta : UpsertMeta(m[1], m[2])
      \/ ParseStep \/ StoreStep \/ DropUnreplaced
      \/ SyncParsed \/ FullParsed \/ FilesParsed \/ ListParsed \/ ReconcileDone \/ ResolveDone
      \/ Resolve \/ ForgetResolved
      \/ \E g \in File : ReconcileKeep(g) \/ ReconcileRemove(g)
<1>1. ASSUME Inner, HistoryNext
      PROVE  FreshInv'
  <2>1. pc # "idle" /\ pc' # "idle" /\ kind' = kind /\ kind \in Runs
    BY <1>1 DEF Go, Runs, Builds, Compare, DiffDone, MetaDone, RemoveDelete, CaptureNames, DiffSkip, DiffStat,
         RemoveRestore, UpsertMeta, ParseStep, ParseStat, ParseRead, StoreStep, SkipStore, StoreRestore,
         StoreDelete, StoreNodes, StoreRefs, StoreFile, DropUnreplaced, SyncParsed, FullParsed,
         FilesParsed, ListParsed, ReconcileDone, ResolveDone, Resolve, ForgetResolved, AfterBatch,
         ReconcileKeep, ReconcileRemove
  <2>2. UNCHANGED disks
    BY <1>1 DEF Compare, DiffDone, MetaDone, RemoveDelete, CaptureNames, DiffSkip, DiffStat,
         RemoveRestore, UpsertMeta, ParseStep, ParseStat, ParseRead, StoreStep, SkipStore, StoreRestore,
         StoreDelete, StoreNodes, StoreRefs, StoreFile, DropUnreplaced, SyncParsed, FullParsed,
         FilesParsed, ListParsed, ReconcileDone, ResolveDone, Resolve, ForgetResolved, AfterBatch,
         ReconcileKeep, ReconcileRemove,
         FileDone, Storing
  <2>3. began' = began
    BY <1>1, <2>1 DEF HistoryNext
  <2>4. ASSUME NEW f \in File, FileInv(f)
        PROVE  FileInv(f)'
    BY <1>1, <2>1, <2>4, DiffFresh, RemoveFresh, ParseFresh, RestFresh
  <2> QED BY <2>1, <2>2, <2>3, <2>4 DEF FreshInv, LeftAlone, disks, Runs
<1>2. CASE UNCHANGED historyVars
  BY <1>2 DEF historyVars, vars, disks, tables, run, lists, selection, pass, FreshInv, LeftAlone,
       FileInv, ReadableInv,
              MissingInv, Parsing, InHand, Asked, Stored, Tracked
<1>3. ASSUME HistoryNext
      PROVE  Inner \/ Boundary \/ EditStep
  BY <1>3 DEF HistoryNext, Next, RunStep, SyncStep, FullStep, FilesStep, ListStep, ParseStep, StoreStep,
              ResolveStep, Boundary
<1> HIDE DEF Inner
<1> QED BY <1>1, <1>2, <1>3, StartFresh, EditFresh

\* A sync or a full index that ends well has stored every file that was left alone
\* and removed every one that was gone, however it was overtaken by edits and
\* whatever killed runs left in the tables (sync, index_all,
\* reconcile_removed_files); a run on given files has stored those.
THEOREM RunsAreFresh == HistorySpec => []RunFresh
<1> DEFINE Inv == TypeInv /\ ClockInv /\ StampInv /\ FreshInv
<1>1. HistoryInit => Inv
  <2>1. Init => ClockInv /\ StampInv
    BY NoCurTyped DEF Init, ClockInv, StampInv, Untracked, Tracked
  <2> QED BY <2>1, InitTyped DEF HistoryInit, Init, FreshInv, Runs, Builds
<1>2. Inv /\ [HistoryNext]_historyVars => Inv'
  BY HistoryIsNext, NextTyped, NextClock, NextStamp, NextFresh
<1>3. Inv => RunFresh
  BY DEF FreshInv, FileInv, ReadableInv, MissingInv, Parsing, InHand, Asked, Stored, RunFresh,
         TypeInv, TypeOK, RunOK, Kinds
<1> HIDE DEF Inv
<1> QED BY <1>1, <1>2, <1>3, PTL DEF HistorySpec, historyVars

-----------------------------------------------------------------------------
(* What a run does to the tables when it is let go to its end                *)

\* What a run knows of the disk, which does not change under it: a sync has only
\* files in hand that it can read and has to store, removes none that is there,
\* and a full index finds none to remove.
CalmInv ==
  /\ pc = "idle" <=> kind = "none"
  /\ kind = "sync" =>
       /\ \A f \in changed : Readable(disk[f].text)
       /\ pc \in {"diff", "compare"} => \A f \in changed : ~Stored(f)
       /\ pc \in {"meta", "remove", "delete"} => todo = changed
       /\ pc \in {"meta", "remove", "delete", "pick"} \/ Parsing => \A f \in todo : ~Stored(f)
       /\ pc \in {"read", "persist"} => ~Stored(cur.file)
       /\ gone \cap Listed = {} /\ (pc = "delete" => cur.file \notin Listed)
  /\ kind \in {"sync", "files"} =>
       /\ kind = "files" \/ pc \notin {"diff", "compare"} => todo \subseteq changed
       /\ pc = "remove" => todo = changed
       /\ Parsing => cur.file \in changed
  /\ Parsing => cur.file \notin todo
  /\ Parsing /\ pc # "read" /\ (Readable(cur.text) \/ kind = "sync") => cur.text = disk[cur.file].text
  /\ pc = "replace" => files[cur.file].hash # cur.text
  /\ pc \in {"nodes", "refs", "file"} => cur.file \notin Tracked
  /\ kind = "full" /\ pc = "reconcile" => todo \subseteq Listed /\ gone = {}

Site(e) == <<e[1], e[2], e[3]>>
Own(f) == RefsIn(f, files[f].hash)

\* Nodes, references and edges are those of the tracked texts and of the file
\* in hand.
NodeInv ==
  \A f \in File, n \in Name :
    <<f, n>> \in nodes <=> \/ f \in Tracked /\ n \in Defines[files[f].hash]
                           \/ pc \in {"refs", "file"} /\ cur.file = f /\ n \in Defines[cur.text]
RefInv ==
  \A r \in refs : \/ r[1] \in Tracked /\ r \in Own(r[1])
                  \/ pc = "file" /\ r \in RefsIn(cur.file, cur.text)
EdgeInv ==
  \A e \in edges : /\ e[1] \in Tracked /\ Site(e) \in Own(e[1])
                   /\ e[4] \in Tracked /\ Bare[e[3]] \in Defines[files[e[4]].hash]

\* A reference is a row or one edge; both only while the edge is about to go with
\* its target, or the row with its batch.
SiteInv ==
  /\ \A e \in edges, f \in edges : Site(e) = Site(f) => e = f
  /\ \A e \in edges : Site(e) \in refs =>
       \/ pc \in {"delete", "replace"} /\ e[4] = cur.file /\ e[1] # cur.file
       \/ pc = "forget" /\ Site(e) \in batch

\* It is never neither.
KeptInv ==
  /\ RefsConserved
  /\ pc \in {"delete", "replace"} =>
       \A e \in edges : e[4] = cur.file /\ e[1] # cur.file => Site(e) \in refs
  /\ pc = "file" => RefsIn(cur.file, cur.text) \subseteq refs
  /\ pc = "forget" => \A r \in batch : Resolved(r)

TablesInv == NodeInv /\ RefInv /\ EdgeInv /\ SiteInv /\ KeptInv

Update == kind \in {"sync", "files"}

\* A file has the text it started with, or another one for good.
HashInv ==
  Update => \A f \in File :
    \/ files[f].hash = start.files[f].hash
    \/ start.files[f].hash # disk[f].text /\ files[f].hash \in {Missing, disk[f].text}

Promised(e) == kind = "files" => e[3] \in Name
Untouched(f) == files[f].hash = start.files[f].hash

\* An edge that the run found is there, or its reference is, under a noted name,
\* and will be looked at; in the end the resolver may have declined it.
SurviveInv ==
  Update => \A e \in start.edges : Promised(e) /\ Untouched(e[1]) =>
    IF pc \in {"forget", "finish"}
    THEN <<e[4], Bare[e[3]]>> \in nodes =>
           Resolved(Site(e)) \/ (Site(e) \in refs /\ Declined(Site(e)))
    ELSE \/ e \in edges
         \/ /\ Site(e) \in refs /\ e[3] \in names
            /\ kind = "sync" => e[4] \in changed \/ e[4] \notin Tracked
            /\ kind = "files" => touched \/ pc \in {"nodes", "refs", "file"}

StartInv ==
  Update => \A e \in start.edges :
    /\ e \in Edge /\ start.files[e[1]].hash # Missing
    /\ Site(e) \in RefsIn(e[1], start.files[e[1]].hash)

\* The names of what the run replaces or removes are noted first.
CapturedInv ==
  Update => /\ pc = "pick" \/ Parsing =>
                 \A e \in edges : Promised(e) /\ e[4] \in changed /\ e[1] # e[4] => e[3] \in names
            /\ pc = "delete" =>
                 \A e \in edges : e[4] = cur.file /\ e[1] # e[4] => e[3] \in names
BeforeInv ==
  Update => IF pc \in {"diff", "compare", "meta", "remove", "delete"}
            THEN \A n \in start.nodes : kind = "files" \/ n[1] \in Listed => n \in nodes
            ELSE \A f \in changed, n \in Name : <<f, n>> \in start.nodes => n \in names

\* What was selected is resolved or declined.
SelectedInv ==
  Update => /\ pc = "forget" => \A r \in Selected : r \in batch \/ Declined(r)
            /\ pc = "finish" /\ (IF kind = "sync" THEN changed # {} ELSE touched) =>
                 \A r \in Selected : Declined(r)

-----------------------------------------------------------------------------
(* The control of a run *)

stableVars == <<vars, start>>

\* The steps of StableSpec are steps of the index.
LEMMA StableIsNext == [StableNext]_stableVars => [Next]_vars
BY DEF StableNext, stableVars, SyncRun, CalmEdit, Next, RunStep

\* The steps of a run that leave nodes, references, edges and hashes alone, apart
\* from the last two.
QuietStep ==
  \/ Compare \/ DiffDone \/ MetaDone \/ CaptureNames
  \/ \E f \in File : DiffSkip(f) \/ DiffStat(f)
  \/ \E m \in meta : UpsertMeta(m[1], m[2])
  \/ ParseStep \/ SkipStore
  \/ SyncParsed \/ FilesParsed \/ FullParsed \/ ReconcileDone \/ ResolveDone
  \/ \E f \in File : ReconcileKeep(f)

\* Those that change the tables.
WriteStep ==
  \/ RemoveDelete \/ StoreRestore \/ StoreDelete \/ StoreNodes \/ StoreRefs \/ StoreFile
  \/ Resolve \/ ForgetResolved
  \/ \E f \in File : RemoveRestore(f)

\* Its first step and its last.
RunBoundary ==
  \/ StartSync \/ StartFull \/ Abort \/ FullFailed \/ Finish
  \/ \E S \in SUBSET File : StartFiles(S)

\* A run that is let go to its end takes no other step: a sync need not drop what
\* it has in hand, and a full index has nothing to remove.
LEMMA StableSteps ==
  ASSUME TypeInv, CalmInv, StableNext
  PROVE  QuietStep \/ WriteStep \/ RunBoundary \/ CalmEdit
<1>1. ~DropUnreplaced
  BY DEF DropUnreplaced, Go, Unstored, Parsed, CalmInv, Parsing, Stored
<1>2. \A f \in File : ~ReconcileRemove(f)
  BY DEF ReconcileRemove, Go, CalmInv, Listed
<1> QED
  BY <1>1, <1>2 DEF StableNext, SyncRun, SyncStep, FullStep, FilesStep, ParseStep, StoreStep,
                    ResolveStep, QuietStep, WriteStep, RunBoundary

\* What a quiet step may change.
LEMMA QuietFrame ==
  ASSUME TypeInv, QuietStep
  PROVE  /\ UNCHANGED <<disks, nodes, refs, edges, batch>>
         /\ UNCHANGED kind /\ kind \in Runs /\ pc # "idle" /\ pc' # "idle"
         /\ \A f \in File : files'[f].hash = files[f].hash
         /\ UNCHANGED Tracked
         /\ pc \notin {"delete", "replace", "nodes", "refs", "file", "forget", "finish"}
         /\ pc = "resolve" => kind \in Builds
         /\ pc' \notin {"delete", "replace", "nodes", "refs", "file", "forget"}
         /\ names \subseteq names'
<1> USE DEF Go, disks, tables, lists, selection, pass, outcome, Runs, Builds
<1>1. CASE \/ Compare \/ DiffDone \/ MetaDone \/ CaptureNames
           \/ \E f \in File : DiffSkip(f) \/ DiffStat(f)
  <2>1. UNCHANGED Tracked
    BY <1>1 DEF Compare, DiffDone, MetaDone, CaptureNames, DiffSkip, DiffStat, Tracked
  <2> QED BY <1>1, <2>1 DEF Compare, DiffDone, MetaDone, CaptureNames, DiffSkip, DiffStat
<1>2. ASSUME NEW m \in meta, UpsertMeta(m[1], m[2])
      PROVE  /\ UNCHANGED <<disks, nodes, refs, edges, batch, names, kind>> /\ kind = "sync"
             /\ pc = "meta" /\ pc' = "meta"
             /\ \A f \in File : files'[f].hash = files[f].hash
             /\ UNCHANGED Tracked
  <2>1. \A f \in File : files'[f].hash = files[f].hash
    BY <1>2 DEF UpsertMeta, TypeInv, TypeOK, TablesOK, RunOK
  <2>2. UNCHANGED Tracked
    BY <2>1 DEF Tracked
  <2> QED BY <1>2, <2>1, <2>2 DEF UpsertMeta
<1>3. CASE ParseStep \/ SkipStore
  <2>1. UNCHANGED Tracked
    BY <1>3 DEF ParseStep, ParseStat, ParseRead, SkipStore, Tracked
  <2> QED BY <1>3, <2>1 DEF ParseStep, ParseStat, ParseRead, SkipStore, FileDone
<1>4. CASE \/ SyncParsed \/ FilesParsed \/ FullParsed \/ ReconcileDone \/ ResolveDone
           \/ \E f \in File : ReconcileKeep(f)
  <2>1. UNCHANGED Tracked
    BY <1>4 DEF SyncParsed, FilesParsed, FullParsed, ReconcileDone, ResolveDone, ReconcileKeep, Tracked
  <2> QED BY <1>4, <2>1 DEF SyncParsed, FilesParsed, FullParsed, ReconcileDone, ResolveDone, ReconcileKeep
<1> QED BY <1>1, <1>2, <1>3, <1>4 DEF QuietStep

\* Comparing, reading and parsing keep what is known of the disk.
LEMMA QuietCalm ==
  ASSUME TypeInv, CalmInv, StableNext, QuietStep
  PROVE  CalmInv'
<1>0. /\ UNCHANGED <<disk, kind, Tracked, Listed>> /\ kind \in Runs /\ pc # "idle" /\ pc' # "idle"
      /\ \A f \in File : files'[f].hash = files[f].hash
      /\ pc' \notin {"delete", "replace", "nodes", "refs", "file"}
  BY QuietFrame DEF disks, Listed
<1> USE DEF CalmInv, Parsing, Stored, Go, lists, selection, pass, outcome, Runs, Builds
<1>1. CASE Compare
  <2>1. /\ kind = "sync" /\ pc = "compare" /\ pc' = "diff" /\ UNCHANGED <<gone, todo>>
        /\ \A f \in changed' : f \in changed \/ (f = cur.file /\ Readable(disk[f].text) /\ ~Stored(f))
    BY <1>1 DEF Compare, IsChanged
  <2>2. changed' \subseteq File
    BY <1>1 DEF Compare, TypeInv, TypeOK, RunOK, Shape
  <2> QED BY <1>0, <2>1, <2>2
<1>2. CASE DiffDone \/ MetaDone \/ CaptureNames
  BY <1>0, <1>2 DEF DiffDone, MetaDone, CaptureNames, TypeInv, TypeOK, RunOK
<1>3. ASSUME NEW f \in File, DiffSkip(f) \/ DiffStat(f)
      PROVE  CalmInv'
  BY <1>0, <1>3 DEF DiffSkip, DiffStat, TypeInv, TypeOK, RunOK
<1>4. ASSUME NEW m \in meta, UpsertMeta(m[1], m[2])
      PROVE  CalmInv'
  BY <1>0, <1>4 DEF UpsertMeta, TypeInv, TypeOK, RunOK
<1>5. ASSUME NEW f \in File, ParseStat(f)
      PROVE  CalmInv'
  <2>1. cur'.file = f
    BY <1>5, HoldingTyped DEF ParseStat, Holding
  <2>2. cur'.text = Unreadable
    BY <1>5 DEF ParseStat, Holding
  <2>3. kind = "sync" => disk[f].text # Missing
    BY <1>5, IndexAssumption DEF ParseStat, Readable
  <2> QED BY <1>0, <1>5, <2>1, <2>2, <2>3, IndexAssumption DEF ParseStat, TypeInv, TypeOK, RunOK, Readable
<1>6. CASE ParseRead
  <2>1. cur'.file = cur.file /\ cur'.text = disk[cur.file].text
    BY <1>6 DEF ParseRead, Holding
  <2> QED BY <1>0, <1>6, <2>1 DEF ParseRead, TypeInv, TypeOK, RunOK, Shape
<1>7. CASE SkipStore
  BY <1>0, <1>7 DEF SkipStore, FileDone, TypeInv, TypeOK, RunOK
<1>8. CASE SyncParsed \/ FilesParsed \/ ReconcileDone \/ ResolveDone
  BY <1>0, <1>8 DEF SyncParsed, FilesParsed, ReconcileDone, ResolveDone, TypeInv, TypeOK, RunOK
<1>9. CASE FullParsed
  BY <1>0, <1>9 DEF FullParsed, StableNext
<1>10. ASSUME NEW f \in File, ReconcileKeep(f)
       PROVE  CalmInv'
  BY <1>0, <1>10 DEF ReconcileKeep
<1> QED BY <1>1, <1>2, <1>3, <1>4, <1>5, <1>6, <1>7, <1>8, <1>9, <1>10 DEF QuietStep, ParseStep

\* So do the transactions.
LEMMA WriteCalm ==
  ASSUME TypeInv, CalmInv, WriteStep
  PROVE  CalmInv'
<1> USE DEF CalmInv, Parsing, Stored, Go, disks, tables, lists, selection, pass, outcome, Runs, Builds,
     Storing, FileDone
<1>1. ASSUME NEW f \in File, RemoveRestore(f)
      PROVE  CalmInv'
  <2>1. cur'.file = f
    BY <1>1, HoldingTyped DEF RemoveRestore, Holding
  <2>2. UNCHANGED <<disk, files, changed, todo, kind>> /\ UNCHANGED Listed
    BY <1>1 DEF RemoveRestore, RestoreRefs, Listed
  <2> QED BY <1>1, <2>1, <2>2 DEF RemoveRestore
<1>2. CASE RemoveDelete
  <2>0. cur.file \in File
    BY <1>2 DEF RemoveDelete, TypeInv, Shape
  <2>1. /\ \A f \in File : f # cur.file => files'[f] = files[f]
        /\ UNCHANGED <<disk, changed, todo, gone, kind>> /\ UNCHANGED Listed
    BY <1>2, <2>0 DEF RemoveDelete, DeleteFile, TypeInv, TypeOK, TablesOK, Listed
  <2>2. cur.file \notin Listed /\ cur.file \notin changed /\ changed \subseteq File
    BY <1>2, IndexAssumption DEF RemoveDelete, Readable, Listed, TypeInv, TypeOK, RunOK
  <2> QED BY <1>2, <2>1, <2>2 DEF RemoveDelete
<1>3. CASE StoreRestore \/ StoreNodes \/ StoreRefs
  <2>1. UNCHANGED <<disk, files, lists, cur, changed, kind>> /\ UNCHANGED <<Listed, Tracked>>
    BY <1>3 DEF StoreRestore, StoreNodes, StoreRefs, RestoreRefs, InsertNodes, InsertRefs, Listed, Tracked
  <2> QED BY <1>3, <2>1 DEF StoreRestore, StoreNodes, StoreRefs, Unstored
<1>4. CASE StoreDelete
  <2>0. cur.file \in File /\ todo \subseteq File
    BY <1>4 DEF StoreDelete, TypeInv, Shape, TypeOK, RunOK
  <2>1. /\ \A f \in File : f # cur.file => files'[f] = files[f]
        /\ cur.file \notin Tracked'
        /\ UNCHANGED <<disk, changed, lists, cur, kind>> /\ UNCHANGED Listed
    BY <1>4, <2>0 DEF StoreDelete, DeleteFile, TypeInv, TypeOK, TablesOK, Listed, Tracked, Untracked
  <2> QED BY <1>4, <2>0, <2>1 DEF StoreDelete
<1>5. CASE StoreFile
  <2>0. cur.file \in File /\ todo \subseteq File
    BY <1>5 DEF StoreFile, TypeInv, Shape, TypeOK, RunOK
  <2>1. /\ \A f \in File : f # cur.file => files'[f] = files[f]
        /\ UNCHANGED <<disk, changed, lists, kind>> /\ UNCHANGED Listed
    BY <1>5, <2>0 DEF StoreFile, UpsertFile, TypeInv, TypeOK, TablesOK, Listed
  <2> QED BY <1>5, <2>0, <2>1 DEF StoreFile
<1>6. CASE Resolve \/ ForgetResolved
  BY <1>6 DEF Resolve, ForgetResolved, AfterBatch, Listed
<1> QED BY <1>1, <1>2, <1>3, <1>4, <1>5, <1>6 DEF WriteStep

\* Together: the disk is as a run that is let go to its end found it.
LEMMA StableCalm ==
  ASSUME TypeInv, CalmInv, [StableNext]_stableVars
  PROVE  CalmInv'
<1>1. CASE RunBoundary
  BY <1>1, IndexAssumption
     DEF RunBoundary, StartSync, StartFull, StartFiles, Abort, FullFailed, Finish,
         Over, Begin, CalmInv, Parsing, Listed, Tracked, disks, tables
<1>2. CASE CalmEdit
  BY <1>2 DEF CalmEdit, EditStep, Edit, CalmInv, Parsing, run, tables, lists, selection, pass
<1>3. CASE UNCHANGED stableVars
  BY <1>3 DEF stableVars, vars, disks, tables, run, lists, selection, pass, CalmInv, Parsing, Stored,
       Listed, Tracked
<1> QED BY <1>1, <1>2, <1>3, StableSteps, QuietCalm, WriteCalm

-----------------------------------------------------------------------------
(* The rows are those of the tracked texts *)

\* An edge has a site, and comes from a restored reference of its target.
LEMMA SitesTyped ==
  ASSUME TypeOK
  PROVE  /\ \A e \in edges : /\ e[1] \in File /\ e[2] \in Name /\ e[3] \in Written /\ e[4] \in File
                             /\ Bare[e[3]] \in Name /\ e = <<e[1], e[2], e[3], e[4]>>
                             /\ Site(e) \in Ref
                             /\ Site(e)[1] = e[1] /\ Site(e)[2] = e[2] /\ Site(e)[3] = e[3]
         /\ \A r \in refs : /\ r[1] \in File /\ r[2] \in Name /\ r[3] \in Written
                            /\ Bare[r[3]] \in Name /\ r = <<r[1], r[2], r[3]>>
BY IndexAssumption DEF TypeOK, TablesOK, Edge, Ref, Site

\* The references of a text are references of its file.
LEMMA OwnTyped ==
  ASSUME NEW f \in File, NEW t \in Text
  PROVE  /\ \A r \in RefsIn(f, t) : r[1] = f /\ r \in Ref
         /\ \A r \in RefsIn(f, t) : r = <<r[1], r[2], r[3]>>
BY IndexAssumption DEF RefsIn, Ref

\* What is restored for f are the references whose edges lead into f from elsewhere.
LEMMA RestoredSites ==
  ASSUME TypeOK, NEW f \in File
  PROVE  \A r : r \in Restored(f) <=> \E e \in edges : e[4] = f /\ e[1] # f /\ Site(e) = r
<1>1. ASSUME NEW r \in Restored(f)
      PROVE  \E e \in edges : e[4] = f /\ e[1] # f /\ Site(e) = r
  <2>1. /\ <<r[1], r[2], r[3], f>> \in edges /\ r[1] # f /\ r \in Ref
    BY <1>1 DEF Restored
  <2>2. r = <<r[1], r[2], r[3]>>
    BY <2>1 DEF Ref
  <2> QED BY <2>1, <2>2 DEF Site
<1>2. ASSUME NEW e \in edges, e[4] = f, e[1] # f
      PROVE  Site(e) \in Restored(f)
  BY <1>2, SitesTyped DEF Restored
<1> QED BY <1>1, <1>2

\* Quiet steps keep the rows those of the tracked texts.
LEMMA QuietTables ==
  ASSUME TypeInv, TablesInv, QuietStep
  PROVE  TablesInv'
<1>1. /\ UNCHANGED <<nodes, refs, edges>> /\ UNCHANGED Tracked
      /\ \A f \in File : files'[f].hash = files[f].hash
      /\ pc \notin {"delete", "replace", "refs", "file", "forget"}
      /\ pc' \notin {"delete", "replace", "refs", "file", "forget"}
  BY QuietFrame
<1>2. Tracked \subseteq File /\ TypeOK
  BY DEF Tracked, TypeInv
<1>3. NodeInv'
  BY <1>1 DEF TablesInv, NodeInv
<1>4. RefInv'
  BY <1>1, <1>2, SitesTyped DEF TablesInv, RefInv, Own
<1>5. EdgeInv'
  BY <1>1, <1>2, SitesTyped DEF TablesInv, EdgeInv, Own, Site
<1>6. SiteInv'
  BY <1>1 DEF TablesInv, SiteInv, Site
<1>7. KeptInv'
  BY <1>1, <1>2 DEF TablesInv, KeptInv, RefsConserved, Resolved
<1> QED BY <1>3, <1>4, <1>5, <1>6, <1>7 DEF TablesInv

\* Restoring gives every edge that is about to go its reference back.
LEMMA RestoreTables ==
  ASSUME TypeInv, TablesInv, NEW f \in File, RestoreRefs(f), cur'.file = f,
         pc \in {"remove", "persist"}, pc' \in {"delete", "replace"}
  PROVE  TablesInv'
<1>0. TypeOK /\ Tracked \subseteq File
  BY DEF TypeInv, Tracked
<1>1. UNCHANGED <<files, nodes, edges>> /\ UNCHANGED Tracked /\ refs' = refs \cup Restored(f)
  BY DEF RestoreRefs, Tracked
<1>2. NodeInv'
  BY <1>1 DEF TablesInv, NodeInv
<1>3. RefInv'
  <2>1. ASSUME NEW r \in Restored(f)
        PROVE  r[1] \in Tracked /\ r \in Own(r[1])
    <3>1. PICK e \in edges : Site(e) = r
      BY <1>0, RestoredSites
    <3>2. r[1] = e[1]
      BY <3>1, <1>0, SitesTyped
    <3> QED BY <3>1, <3>2 DEF TablesInv, EdgeInv
  <2> QED BY <1>1, <2>1 DEF TablesInv, RefInv, Own
<1>4. EdgeInv'
  BY <1>1 DEF TablesInv, EdgeInv, Own, Site
<1>5. SiteInv'
  <2>1. ASSUME NEW e \in edges, Site(e) \in refs'
        PROVE  e[4] = f /\ e[1] # f
    <3>1. Site(e) \in Restored(f)
      BY <1>1, <2>1 DEF TablesInv, SiteInv
    <3>2. PICK d \in edges : d[4] = f /\ d[1] # f /\ Site(d) = Site(e)
      BY <3>1, <1>0, RestoredSites
    <3> QED BY <3>2 DEF TablesInv, SiteInv
  <2> QED BY <1>1, <2>1 DEF TablesInv, SiteInv, Site
<1>6. KeptInv'
  <2>1. RefsConserved'
    BY <1>1 DEF TablesInv, KeptInv, RefsConserved, Resolved
  <2>2. \A e \in edges : e[4] = f /\ e[1] # f => Site(e) \in refs'
    BY <1>1, <1>0, RestoredSites
  <2> QED BY <1>1, <2>1, <2>2 DEF KeptInv, Site
<1> QED BY <1>2, <1>3, <1>4, <1>5, <1>6 DEF TablesInv

\* So a deletion loses none.
LEMMA DeleteTables ==
  ASSUME TypeInv, TablesInv, NEW f \in File, DeleteFile(f), cur.file = f,
         pc \in {"delete", "replace"}, pc' \in {"remove", "nodes"}
  PROVE  TablesInv'
<1>0. TypeOK /\ Tracked \subseteq File
  BY DEF TypeInv, Tracked
<1>1. /\ Tracked' = Tracked \ {f}
      /\ \A g \in File : g # f => files'[g] = files[g]
  BY <1>0 DEF DeleteFile, Tracked, Untracked, TypeOK, TablesOK
<1>2. /\ nodes' = {n \in nodes : n[1] # f}
      /\ refs' = {r \in refs : r[1] # f}
      /\ edges' = {e \in edges : e[1] # f /\ e[4] # f}
  BY DEF DeleteFile
<1>3. NodeInv'
  BY <1>0, <1>1, <1>2 DEF TablesInv, NodeInv
<1>4. RefInv'
  <2>1. \A r \in refs' : r[1] \in Tracked /\ r \in Own(r[1]) /\ r[1] # f
    BY <1>2 DEF TablesInv, RefInv
  <2> QED BY <1>0, <1>1, <2>1 DEF RefInv, Own
<1>5. EdgeInv'
  BY <1>0, <1>1, <1>2 DEF TablesInv, EdgeInv, Own, Site
<1>6. SiteInv'
  BY <1>1, <1>2 DEF TablesInv, SiteInv, Site
<1>7. RefsConserved'
  <2>1. SUFFICES ASSUME NEW g \in Tracked', NEW r \in RefsIn(g, files'[g].hash)
                 PROVE  r \in refs' \/ \E h \in File : <<r[1], r[2], r[3], h>> \in edges'
    BY DEF RefsConserved, Resolved
  <2>2. g \in Tracked /\ g # f /\ files'[g] = files[g] /\ files[g].hash \in Text
    BY <1>0, <1>1, <2>1 DEF Tracked, TypeOK, TablesOK
  <2>3. r[1] = g /\ r = <<r[1], r[2], r[3]>> /\ r \in RefsIn(g, files[g].hash)
    BY <2>1, <2>2, <1>0, OwnTyped
  <2>4. CASE r \in refs
    BY <1>2, <2>2, <2>3, <2>4
  <2>5. CASE r \notin refs
    <3>1. PICK h \in File : <<r[1], r[2], r[3], h>> \in edges
      BY <2>2, <2>3, <2>5 DEF TablesInv, KeptInv, RefsConserved, Resolved
    <3>2. CASE h = f
      <4> DEFINE e == <<r[1], r[2], r[3], h>>
      <4>1. e[4] = f /\ e[1] # f /\ Site(e) = r
        BY <2>2, <2>3, <3>2 DEF Site
      <4> QED BY <4>1, <3>1, <2>5 DEF TablesInv, KeptInv
    <3>3. CASE h # f
      BY <1>2, <2>2, <2>3, <3>1, <3>3
    <3> QED BY <3>2, <3>3
  <2> QED BY <2>4, <2>5
<1>8. KeptInv'
  BY <1>7 DEF KeptInv
<1> QED BY <1>3, <1>4, <1>5, <1>6, <1>8 DEF TablesInv

\* A file that is being stored has no rows yet: nothing is replaced.
LEMMA FreshNodes ==
  ASSUME TypeInv, TablesInv, CalmInv, StoreNodes
  PROVE  /\ cur.file \in File /\ cur.text \in Text /\ cur.file \notin Tracked
         /\ refs' = refs /\ edges' = edges /\ files' = files
         /\ nodes' = nodes \cup {<<cur.file, n>> : n \in Defines[cur.text]}
<1>1. cur.file \in File /\ cur.text \in Text /\ cur.file \notin Tracked /\ TypeOK /\ pc # "file"
  BY DEF StoreNodes, Go, Unstored, Parsed, Readable, CalmInv, Parsing, TypeInv, Shape
<1>2. /\ refs' = {r \in refs : <<r[1], r[2]>> \notin {<<cur.file, n>> : n \in Defines[cur.text]}}
      /\ edges' = {e \in edges : /\ <<e[1], e[2]>> \notin {<<cur.file, n>> : n \in Defines[cur.text]}
                                 /\ <<e[4], Bare[e[3]]>> \notin {<<cur.file, n>> : n \in Defines[cur.text]}}
      /\ files' = files
      /\ nodes' = nodes \cup {<<cur.file, n>> : n \in Defines[cur.text]}
  BY DEF StoreNodes, InsertNodes
<1>3. \A r \in refs : r[1] # cur.file
  BY <1>1 DEF TablesInv, RefInv
<1>4. \A e \in edges : e[1] # cur.file /\ e[4] # cur.file
  BY <1>1 DEF TablesInv, EdgeInv
<1> QED BY <1>1, <1>2, <1>3, <1>4

\* A file is stored as a whole: its nodes, its references, its row.
LEMMA StoreTables ==
  ASSUME TypeInv, TablesInv, CalmInv, StoreNodes \/ StoreRefs \/ StoreFile
  PROVE  TablesInv'
<1>0. TypeOK /\ Tracked \subseteq File
  BY DEF TypeInv, Tracked
<1>1. CASE StoreNodes
  <2>1. /\ cur.file \in File /\ cur.text \in Text /\ cur.file \notin Tracked
        /\ refs' = refs /\ edges' = edges /\ files' = files
        /\ nodes' = nodes \cup {<<cur.file, n>> : n \in Defines[cur.text]}
        /\ pc \in {"persist", "nodes"} /\ pc' = "refs" /\ cur' = cur
    BY <1>1, FreshNodes DEF StoreNodes, Storing, Go
  <2>2. UNCHANGED Tracked
    BY <2>1 DEF Tracked
  <2>3. NodeInv'
    BY <2>1, <2>2 DEF TablesInv, NodeInv
  <2>4. RefInv' /\ EdgeInv' /\ SiteInv' /\ KeptInv'
    BY <2>1, <2>2 DEF TablesInv, RefInv, EdgeInv, Own, Site, SiteInv, KeptInv, RefsConserved, Resolved
  <2> QED BY <2>3, <2>4 DEF TablesInv
<1>2. CASE StoreRefs
  <2>1. /\ cur.file \in File /\ cur.text \in Text /\ cur.file \notin Tracked
        /\ refs' = refs \cup RefsIn(cur.file, cur.text) /\ UNCHANGED <<files, nodes, edges, cur>>
        /\ pc = "refs" /\ pc' = "file"
    BY <1>2 DEF StoreRefs, Storing, Go, InsertRefs, TypeInv, Shape, CalmInv
  <2>2. UNCHANGED Tracked
    BY <2>1 DEF Tracked
  <2>3. NodeInv' /\ EdgeInv'
    BY <2>1, <2>2 DEF TablesInv, NodeInv, EdgeInv, Own, Site
  <2>4. RefInv'
    BY <2>1, <2>2 DEF TablesInv, RefInv, Own
  <2>5. SiteInv'
    <3>1. \A e \in edges : Site(e) \notin RefsIn(cur.file, cur.text)
      BY <2>1, <1>0, SitesTyped, OwnTyped DEF TablesInv, EdgeInv
    <3> QED BY <2>1, <3>1 DEF TablesInv, SiteInv, Site
  <2>6. KeptInv'
    BY <2>1, <2>2 DEF TablesInv, KeptInv, RefsConserved, Resolved
  <2> QED BY <2>3, <2>4, <2>5, <2>6 DEF TablesInv
<1>3. CASE StoreFile
  <2> DEFINE f == cur.file
  <2>1. /\ f \in File /\ cur.text \in Text /\ f \notin Tracked /\ cur.text # Missing
        /\ UNCHANGED <<nodes, refs, edges>>
        /\ pc = "file" /\ pc' = "pick"
    BY <1>3, IndexAssumption DEF StoreFile, Go, UpsertFile, TypeInv, Shape, CalmInv
  <2>2. /\ files'[f].hash = cur.text
        /\ \A g \in File : g # f => files'[g] = files[g]
    BY <1>3, <2>1, <1>0 DEF StoreFile, UpsertFile, TypeOK, TablesOK
  <2>3. Tracked' = Tracked \cup {f}
    BY <2>1, <2>2 DEF Tracked
  <2> HIDE DEF f
  <2>4. NodeInv'
    BY <2>1, <2>2, <2>3, <1>0 DEF TablesInv, NodeInv, f
  <2>5. RefInv'
    <3>1. SUFFICES ASSUME NEW r \in refs
                   PROVE  r[1] \in Tracked' /\ r \in RefsIn(r[1], files'[r[1]].hash)
      BY <2>1 DEF RefInv, Own
    <3>2. CASE r \in RefsIn(f, cur.text)
      <4>1. r[1] = f
        BY <3>2, <2>1, OwnTyped
      <4> QED BY <4>1, <3>2, <2>2, <2>3
    <3>3. CASE r[1] \in Tracked /\ r \in Own(r[1])
      BY <3>3, <2>1, <2>2, <2>3, <1>0 DEF Own
    <3> QED BY <3>2, <3>3 DEF TablesInv, RefInv, f
  <2>6. EdgeInv'
    BY <2>1, <2>2, <2>3, <1>0 DEF TablesInv, EdgeInv, Own, Site
  <2>7. SiteInv'
    BY <2>1 DEF TablesInv, SiteInv, Site
  <2>8. KeptInv'
    <3>1. RefsConserved'
      BY <2>1, <2>2, <2>3, <1>0 DEF TablesInv, KeptInv, RefsConserved, Resolved, f
    <3> QED BY <2>1, <3>1 DEF KeptInv
  <2> QED BY <2>4, <2>5, <2>6, <2>7, <2>8 DEF TablesInv
<1> QED BY <1>1, <1>2, <1>3

\* Resolution gives a reference one edge.
LEMMA ResolveTables ==
  ASSUME TypeInv, TablesInv, Resolve
  PROVE  TablesInv'
<1> PICK found \in SUBSET refs :
      /\ \E pick \in [found -> File] :
           /\ \A r \in found : pick[r] \in Targets(r)
           /\ edges' = edges \cup {<<r[1], r[2], r[3], pick[r]>> : r \in found}
      /\ batch' = found
  <2>1. PICK rows \in SUBSET refs :
          \E found \in SUBSET {r \in rows : Targets(r) # {}} :
            /\ \E pick \in [found -> File] :
                 /\ \A r \in found : pick[r] \in Targets(r)
                 /\ edges' = edges \cup {<<r[1], r[2], r[3], pick[r]>> : r \in found}
            /\ batch' = found
    BY DEF Resolve
  <2> QED BY <2>1
<1>0. TypeOK /\ Tracked \subseteq File
  BY DEF TypeInv, Tracked
<1>1. PICK pick \in [found -> File] :
        /\ \A r \in found : pick[r] \in Targets(r)
        /\ edges' = edges \cup {<<r[1], r[2], r[3], pick[r]>> : r \in found}
  OBVIOUS
<1>2. UNCHANGED <<files, nodes, refs>> /\ batch' = found /\ pc = "resolve" /\ pc' = "forget"
  BY DEF Resolve, Go
<1>3. UNCHANGED Tracked
  BY <1>2 DEF Tracked
<1>4. ASSUME NEW e \in edges'
      PROVE  \/ e \in edges
             \/ /\ Site(e) \in found /\ e[4] = pick[Site(e)]
                /\ e = <<Site(e)[1], Site(e)[2], Site(e)[3], e[4]>>
                /\ e[1] = Site(e)[1] /\ e[3] = Site(e)[3]
  <2>1. CASE e \notin edges
    <3>1. PICK r \in found : e = <<r[1], r[2], r[3], pick[r]>>
      BY <1>1, <2>1
    <3>2. r = <<r[1], r[2], r[3]>>
      BY <1>0, <3>1, SitesTyped
    <3>3. Site(e) = r
      BY <3>1, <3>2 DEF Site
    <3> QED BY <3>1, <3>3
  <2> QED BY <2>1
<1>5. \A e \in edges : Site(e) \notin refs
  BY <1>2 DEF TablesInv, SiteInv
<1>6. NodeInv' /\ RefInv'
  BY <1>2, <1>3 DEF TablesInv, NodeInv, RefInv, Own
<1>7. EdgeInv'
  <2>1. SUFFICES ASSUME NEW e \in edges'
                 PROVE  /\ e[1] \in Tracked /\ Site(e) \in Own(e[1])
                        /\ e[4] \in Tracked /\ Bare[e[3]] \in Defines[files[e[4]].hash]
    BY <1>2, <1>3 DEF EdgeInv, Own, Site
  <2>2. CASE e \in edges
    BY <2>2 DEF TablesInv, EdgeInv
  <2>3. CASE e \notin edges
    <3>1. /\ Site(e) \in refs /\ e[4] \in Targets(Site(e)) /\ Site(e) \in found
          /\ e[1] = Site(e)[1] /\ e[3] = Site(e)[3]
      BY <1>0, <1>1, <1>4, <2>3
    <3>2. e[1] \in Tracked /\ Site(e) \in Own(e[1])
      BY <3>1, <1>2 DEF TablesInv, RefInv
    <3>3. e[4] \in File /\ <<e[4], Bare[e[3]]>> \in nodes /\ Bare[e[3]] \in Name
      BY <3>1, <1>0, SitesTyped DEF Targets
    <3>4. e[4] \in Tracked /\ Bare[e[3]] \in Defines[files[e[4]].hash]
      BY <3>3, <1>2 DEF TablesInv, NodeInv
    <3> QED BY <3>2, <3>4
  <2> QED BY <2>2, <2>3
<1>8. SiteInv'
  <2>1. ASSUME NEW d \in edges', NEW e \in edges', Site(d) = Site(e)
        PROVE  d = e
    <3>1. CASE d \in edges /\ e \in edges
      BY <2>1, <3>1 DEF TablesInv, SiteInv
    <3>2. CASE d \notin edges /\ e \notin edges
      BY <1>4, <2>1, <3>2
    <3>3. CASE (d \in edges) # (e \in edges)
      BY <1>0, <1>4, <1>5, <2>1, <3>3
    <3> QED BY <3>1, <3>2, <3>3
  <2>2. \A e \in edges' : Site(e) \in refs => Site(e) \in found
    BY <1>4, <1>5
  <2> QED BY <1>2, <2>1, <2>2 DEF SiteInv, Site
<1>9. KeptInv'
  <2>1. RefsConserved'
    BY <1>1, <1>2, <1>3 DEF TablesInv, KeptInv, RefsConserved, Resolved
  <2>2. \A r \in found : \E g \in File : <<r[1], r[2], r[3], g>> \in edges'
    BY <1>1
  <2> QED BY <1>2, <2>1, <2>2 DEF KeptInv, Resolved
<1> QED BY <1>6, <1>7, <1>8, <1>9 DEF TablesInv

\* And takes its row away.
LEMMA ForgetTables ==
  ASSUME TypeInv, TablesInv, ForgetResolved
  PROVE  TablesInv'
<1>1. /\ UNCHANGED <<files, nodes, edges>> /\ refs' = refs \ batch
      /\ pc = "forget" /\ pc' \in {"resolve", "finish"}
  BY DEF ForgetResolved, AfterBatch, Go
<1>2. UNCHANGED Tracked
  BY <1>1 DEF Tracked
<1>3. NodeInv' /\ RefInv' /\ EdgeInv'
  BY <1>1, <1>2 DEF TablesInv, NodeInv, RefInv, EdgeInv, Own, Site
<1>4. SiteInv'
  BY <1>1 DEF TablesInv, SiteInv, Site
<1>5. KeptInv'
  BY <1>1, <1>2 DEF TablesInv, KeptInv, RefsConserved, Resolved
<1> QED BY <1>3, <1>4, <1>5 DEF TablesInv

\* Together: rows and tracked texts agree.
LEMMA StableTables ==
  ASSUME TypeInv, TablesInv, CalmInv, [StableNext]_stableVars
  PROVE  TablesInv'
<1> DEFINE Apart == {"delete", "replace", "refs", "file", "forget"}
<1>1. ASSUME UNCHANGED tables, \/ pc \notin Apart /\ pc' \notin Apart
                               \/ UNCHANGED <<pc, cur, batch>>
      PROVE  TablesInv'
  BY <1>1 DEF tables, TablesInv, NodeInv, RefInv, EdgeInv, SiteInv, KeptInv, RefsConserved, Resolved,
              Own, Site, Tracked
<1>2. CASE CalmEdit \/ UNCHANGED stableVars
  BY <1>1, <1>2 DEF stableVars, vars, run, selection, pass, CalmEdit, EditStep, Edit
<1>3. CASE RunBoundary
  BY <1>1, <1>3 DEF RunBoundary, StartSync, StartFull, Abort, FullFailed, Finish, StartFiles, Begin,
       Over, tables
<1>4. CASE WriteStep
  <2>1. ASSUME NEW f \in File, RemoveRestore(f)
        PROVE  TablesInv'
    <3>1. cur'.file = f
      BY <2>1, HoldingTyped DEF RemoveRestore, Holding
    <3> QED BY <2>1, <3>1, RestoreTables DEF RemoveRestore, Go
  <2>2. CASE StoreRestore
    BY <2>2, RestoreTables DEF StoreRestore, Go, Storing, Tracked
  <2>3. CASE RemoveDelete \/ StoreDelete
    BY <2>3, DeleteTables DEF RemoveDelete, StoreDelete, Go, TypeInv, Shape
  <2> QED BY <1>4, <2>1, <2>2, <2>3, StoreTables, ResolveTables, ForgetTables DEF WriteStep
<1> QED BY <1>2, <1>3, <1>4, StableSteps, QuietTables

-----------------------------------------------------------------------------
(* What a run remembers of the tables it found *)

\* What the steps within a run leave alone.
LEMMA MiddleFrame ==
  ASSUME TypeInv, CalmInv, StableNext, QuietStep \/ WriteStep
  PROVE  /\ UNCHANGED <<disk, kind, start>>
         /\ names \subseteq names' /\ changed \subseteq changed'
         /\ pc \notin {"diff", "compare"} => changed' = changed
         /\ touched => touched'
<1> USE DEF Go, disks, tables, lists, selection, pass, outcome
<1>1. UNCHANGED <<disk, kind>> /\ pc # "idle" /\ pc' # "idle"
  BY QuietFrame DEF WriteStep, RemoveDelete, StoreRestore, StoreDelete, StoreNodes, StoreRefs, StoreFile,
     Resolve, ForgetResolved, AfterBatch, RemoveRestore, Storing, FileDone, disks
<1>2. start' = start
  BY <1>1 DEF StableNext
<1>3. names \subseteq names'
  BY QuietFrame DEF WriteStep, RemoveDelete, StoreRestore, StoreDelete, StoreNodes, StoreRefs, StoreFile,
     Resolve, ForgetResolved, AfterBatch, RemoveRestore, Storing, FileDone
<1>4. CASE WriteStep
  BY <1>1, <1>2, <1>3, <1>4
     DEF WriteStep, RemoveDelete, StoreRestore, StoreDelete, StoreNodes, StoreRefs, StoreFile,
         Resolve, ForgetResolved, AfterBatch, RemoveRestore, Storing, FileDone, TypeInv, TypeOK, RunOK
<1>5. CASE QuietStep
  BY <1>1, <1>2, <1>3, <1>5
     DEF QuietStep, Compare, DiffDone, MetaDone, CaptureNames, DiffSkip, DiffStat, UpsertMeta, ParseStep,
         ParseStat, ParseRead, SkipStore, FileDone, SyncParsed, FilesParsed, FullParsed, ReconcileDone,
         ResolveDone, ReconcileKeep,
         TypeInv, TypeOK, RunOK
<1> QED BY <1>4, <1>5

\* What a deletion does, for the file in hand.
LEMMA DeleteRows ==
  ASSUME TypeInv, RemoveDelete \/ StoreDelete
  PROVE  /\ cur.file \in File /\ files'[cur.file].hash = Missing
         /\ \A g \in File : g # cur.file => files'[g] = files[g]
         /\ Tracked' = Tracked \ {cur.file}
         /\ nodes' = {n \in nodes : n[1] # cur.file}
         /\ refs' = {r \in refs : r[1] # cur.file}
         /\ edges' = {e \in edges : e[1] # cur.file /\ e[4] # cur.file}
<1>1. cur.file \in File /\ DeleteFile(cur.file) /\ TypeOK
  BY DEF RemoveDelete, StoreDelete, Go, TypeInv, Shape
<1> QED BY <1>1 DEF DeleteFile, Untracked, Tracked, TypeOK, TablesOK

\* What storing its row does.
LEMMA StoredRow ==
  ASSUME TypeInv, CalmInv, StoreFile
  PROVE  /\ cur.file \in File /\ cur.text \in Text /\ cur.file \notin Tracked
         /\ cur.text = disk[cur.file].text
         /\ files'[cur.file].hash = cur.text
         /\ \A g \in File : g # cur.file => files'[g] = files[g]
         /\ UNCHANGED <<nodes, refs, edges>> /\ touched'
<1>1. cur.file \in File /\ cur.text \in Text /\ pc = "file" /\ TypeOK
  BY DEF StoreFile, Go, TypeInv, Shape
<1> QED BY <1>1 DEF StoreFile, UpsertFile, FileDone, Parsed, Readable, CalmInv, Parsing, TypeOK, TablesOK

\* Any other step keeps the rows of files and nodes, and drops no edge.
LEMMA OtherSteps ==
  ASSUME TypeInv, CalmInv, TablesInv, QuietStep \/ WriteStep, ~RemoveDelete, ~StoreDelete, ~StoreFile
  PROVE  /\ \A f \in File : files'[f].hash = files[f].hash
         /\ UNCHANGED Tracked /\ nodes \subseteq nodes' /\ edges \subseteq edges'
         /\ ~Resolve => edges' = edges
         /\ ~ForgetResolved => refs \subseteq refs'
<1>1. CASE QuietStep
  BY <1>1, QuietFrame
<1>2. CASE StoreNodes
  BY <1>2, FreshNodes DEF Tracked
<1>3. CASE StoreRestore \/ StoreRefs \/ Resolve \/ ForgetResolved \/ \E f \in File : RemoveRestore(f)
  BY <1>3 DEF StoreRestore, StoreRefs, Resolve, ForgetResolved, AfterBatch, RemoveRestore, RestoreRefs,
       InsertRefs, Tracked
<1> QED BY <1>1, <1>2, <1>3 DEF WriteStep

Middle == QuietStep \/ WriteStep

\* A text is replaced by what is on disk, or was on disk before.
LEMMA MiddleHash ==
  ASSUME TypeInv, CalmInv, TablesInv, HashInv, StableNext, Middle
  PROVE  HashInv'
<1>1. UNCHANGED <<disk, kind, start>>
  BY MiddleFrame DEF Middle
<1>2. CASE ~RemoveDelete /\ ~StoreDelete /\ ~StoreFile
  BY <1>1, <1>2, OtherSteps DEF HashInv, Update, Middle
<1>3. CASE RemoveDelete
  <2>1. cur.file \notin Listed
    BY <1>3 DEF RemoveDelete, Go, CalmInv
  <2> QED BY <1>1, <1>3, <2>1, DeleteRows DEF HashInv, Update, Listed
<1>4. CASE StoreDelete
  <2>1. files[cur.file].hash # disk[cur.file].text
    BY <1>4 DEF StoreDelete, Go, CalmInv, Parsing, TypeInv, Shape, Readable
  <2> QED BY <1>1, <1>4, <2>1, DeleteRows DEF HashInv, Update
<1>5. CASE StoreFile
  BY <1>1, <1>5, StoredRow DEF HashInv, Update
<1> QED BY <1>2, <1>3, <1>4, <1>5

\* The names of what is replaced or removed are noted before.
LEMMA MiddleCaptured ==
  ASSUME TypeInv, CalmInv, TablesInv, CapturedInv, StableNext, Middle
  PROVE  CapturedInv'
<1>0. TypeOK
  BY DEF TypeInv
<1>1. /\ UNCHANGED <<disk, kind, start>> /\ names \subseteq names'
      /\ pc \notin {"diff", "compare"} => changed' = changed
  BY MiddleFrame DEF Middle
<1>2. CASE CaptureNames
  <2>1. /\ pc = "remove" /\ pc' = "pick" /\ UNCHANGED <<edges, changed>> /\ todo = changed /\ changed \subseteq File
        /\ names' = names \cup UNION {IF kind = "files" THEN NodeNames(f) ELSE NamesOf(f) : f \in todo}
        /\ kind \in {"sync", "files"}
    BY <1>2 DEF CaptureNames, Go, tables, CalmInv, TypeInv, TypeOK, RunOK
  <2>2. ASSUME NEW e \in edges, Promised(e), e[4] \in changed, e[1] # e[4]
        PROVE  e[3] \in names'
    <3>1. CASE kind = "files"
      <4>1. e[3] \in Name /\ Bare[e[3]] = e[3]
        BY <2>2, <3>1, IndexAssumption DEF Promised
      <4>2. <<e[4], e[3]>> \in nodes
        BY <2>1, <2>2, <4>1, <1>0, SitesTyped DEF TablesInv, EdgeInv, NodeInv
      <4>3. e[3] \in NodeNames(e[4])
        BY <4>1, <4>2 DEF NodeNames
      <4> QED BY <2>1, <2>2, <3>1, <4>3
    <3>2. CASE kind = "sync"
      <4>1. Site(e) \in Restored(e[4]) /\ Site(e)[3] = e[3]
        BY <2>1, <2>2, <1>0, SitesTyped, RestoredSites
      <4>2. e[3] \in NamesOf(e[4])
        BY <4>1 DEF NamesOf
      <4> QED BY <2>1, <2>2, <3>2, <4>2
    <3> QED BY <2>1, <3>1, <3>2
  <2> QED BY <1>1, <2>1, <2>2 DEF CapturedInv, Promised, Parsing
<1>3. ASSUME NEW f \in File, RemoveRestore(f)
      PROVE  CapturedInv'
  <2>1. pc' = "delete" /\ UNCHANGED edges /\ names' = names \cup NamesOf(f) /\ cur'.file = f
    BY <1>3, HoldingTyped DEF RemoveRestore, Go, RestoreRefs, Holding
  <2>2. ASSUME NEW e \in edges, e[4] = f, e[1] # e[4]
        PROVE  e[3] \in names'
    <3>1. Site(e) \in Restored(e[4]) /\ Site(e)[3] = e[3]
      BY <2>2, <1>0, SitesTyped, RestoredSites
    <3> QED BY <2>1, <2>2, <3>1 DEF NamesOf
  <2> QED BY <2>1, <2>2 DEF CapturedInv, Parsing
<1>4. CASE /\ ~CaptureNames /\ \A f \in File : ~RemoveRestore(f)
           /\ pc' = "pick" \/ Parsing'
  <2>1. pc = "pick" \/ Parsing
    BY <1>4 DEF Middle, QuietStep, WriteStep, Parsing, Go, Compare, DiffDone, MetaDone, DiffSkip,
         DiffStat, UpsertMeta,
       ParseStep, ParseStat, ParseRead, SkipStore, SyncParsed, FilesParsed, FullParsed, ReconcileDone,
       ResolveDone,
       ReconcileKeep, RemoveDelete, StoreRestore, StoreDelete, StoreNodes, StoreRefs, StoreFile, Resolve,
       ForgetResolved, AfterBatch
  <2>2. edges' \subseteq edges
    <3>1. ~Resolve
      BY <2>1 DEF Resolve, Go, Parsing
    <3> QED BY <3>1, OtherSteps, DeleteRows, StoredRow DEF Middle
  <2>3. pc' # "delete" /\ pc \notin {"diff", "compare"}
    BY <1>4, <2>1 DEF Parsing
  <2> QED BY <1>1, <2>1, <2>2, <2>3 DEF CapturedInv, Promised, Update
<1>5. CASE /\ ~CaptureNames /\ \A f \in File : ~RemoveRestore(f)
           /\ ~(pc' = "pick" \/ Parsing')
  <2>1. pc' # "delete"
    BY <1>5, QuietFrame
       DEF Middle, WriteStep, Go, RemoveDelete, StoreRestore, StoreDelete, StoreNodes, StoreRefs,
            StoreFile, Resolve, ForgetResolved, AfterBatch
  <2> QED BY <1>5, <2>1 DEF CapturedInv
<1> QED BY <1>2, <1>3, <1>4, <1>5

\* A name that a changed file had is noted before its node goes.
LEMMA MiddleBefore ==
  ASSUME TypeInv, CalmInv, TablesInv, BeforeInv, StableNext, Middle
  PROVE  BeforeInv'
<1> DEFINE Early == {"diff", "compare", "meta", "remove", "delete"}
<1>1. /\ UNCHANGED <<disk, kind, start>> /\ names \subseteq names' /\ UNCHANGED Listed
      /\ pc \notin {"diff", "compare"} => changed' = changed
  BY MiddleFrame DEF Middle, Listed
<1>2. CASE CaptureNames
  <2>1. /\ pc = "remove" /\ pc' = "pick" /\ UNCHANGED changed /\ todo = changed /\ changed \subseteq File
        /\ names' = names \cup UNION {IF kind = "files" THEN NodeNames(f) ELSE NamesOf(f) : f \in todo}
        /\ kind \in {"sync", "files"}
    BY <1>2 DEF CaptureNames, Go, tables, CalmInv, TypeInv, TypeOK, RunOK
  <2>2. ASSUME NEW f \in changed, NEW n \in Name, <<f, n>> \in start.nodes
        PROVE  n \in names'
    <3>1. kind = "sync" => f \in Listed
      BY <2>1, <2>2, IndexAssumption DEF CalmInv, Readable, Listed
    <3>2. <<f, n>> \in nodes
      BY <2>1, <2>2, <3>1 DEF BeforeInv, Update
    <3>3. n \in NodeNames(f) /\ n \in NamesOf(f)
      BY <3>2 DEF NodeNames, NamesOf
    <3> QED BY <2>1, <3>3
  <2> QED BY <1>1, <2>1, <2>2 DEF BeforeInv
<1>3. CASE ~CaptureNames /\ pc' \in Early
  <2>1. pc \in Early \/ kind \notin {"sync", "files"}
    BY <1>3 DEF Middle, QuietStep, WriteStep, Parsing, Go, Compare, DiffDone, MetaDone, DiffSkip,
         DiffStat, UpsertMeta,
       ParseStep, ParseStat, ParseRead, SkipStore, SyncParsed, FilesParsed, FullParsed, ReconcileDone,
       ResolveDone,
       ReconcileKeep, RemoveRestore, RemoveDelete, StoreRestore, StoreDelete, StoreNodes, StoreRefs, StoreFile,
       Resolve, ForgetResolved, AfterBatch
  <2>2. CASE ~RemoveDelete
    <3>1. ~StoreDelete /\ (StoreFile => nodes' = nodes)
      BY <1>3, StoredRow DEF StoreDelete, Go
    <3>2. nodes \subseteq nodes'
      BY <2>2, <3>1, OtherSteps DEF Middle
    <3> QED BY <1>1, <1>3, <2>1, <3>2 DEF BeforeInv, Update
  <2>3. CASE RemoveDelete
    <3>1. cur.file \notin Listed /\ kind = "sync"
      BY <2>3 DEF RemoveDelete, Go, CalmInv
    <3> QED BY <1>1, <1>3, <2>1, <2>3, <3>1, DeleteRows DEF BeforeInv, Update
  <2> QED BY <2>2, <2>3
<1>4. CASE ~CaptureNames /\ pc' \notin Early
  <2>1. pc \notin Early \/ kind \notin {"sync", "files"}
    BY <1>4 DEF Middle, QuietStep, WriteStep, Parsing, Go, Compare, DiffDone, MetaDone, DiffSkip,
         DiffStat, UpsertMeta,
       ParseStep, ParseStat, ParseRead, SkipStore, SyncParsed, FilesParsed, FullParsed, ReconcileDone,
       ResolveDone,
       ReconcileKeep, RemoveRestore, RemoveDelete, StoreRestore, StoreDelete, StoreNodes, StoreRefs, StoreFile,
       Resolve, ForgetResolved, AfterBatch
  <2> QED BY <1>1, <1>4, <2>1 DEF BeforeInv, Update
<1> QED BY <1>2, <1>3, <1>4

\* What was selected is resolved or declined.
LEMMA MiddleSelected ==
  ASSUME TypeInv, CalmInv, TablesInv, SelectedInv, StableNext, Middle
  PROVE  SelectedInv'
<1> USE DEF Go, lists, selection, pass, outcome, disks, tables
<1>1. CASE Resolve
  <2>1. pc' = "forget" /\ UNCHANGED <<refs, nodes, changed, names, kind>>
    BY <1>1 DEF Resolve
  <2>2. kind \in {"sync", "files"} =>
          \A r \in Selected : r \in batch' \/ <<r, Targets(r)>> \in declined'
    BY <1>1 DEF Resolve, Builds
  <2> QED BY <2>1, <2>2 DEF SelectedInv, Selected, Targets, Declined, Update
<1>2. CASE ForgetResolved
  BY <1>2 DEF ForgetResolved, AfterBatch, SelectedInv, Selected, Targets, Declined, Update, Builds
<1>3. CASE ~Resolve /\ ~ForgetResolved /\ pc' # "finish"
  <2>1. pc' # "forget"
    BY <1>3, QuietFrame
       DEF Middle, WriteStep, RemoveDelete, StoreRestore, StoreDelete, StoreNodes, StoreRefs, StoreFile,
            RemoveRestore
  <2> QED BY <1>3, <2>1 DEF SelectedInv
<1>4. CASE ~Resolve /\ ~ForgetResolved /\ pc' = "finish"
  <2>1. CASE QuietStep
    BY <1>4, <2>1 DEF QuietStep, Compare, DiffDone, MetaDone, CaptureNames, DiffSkip, DiffStat,
         UpsertMeta, ParseStep,
       ParseStat, ParseRead, SkipStore, SyncParsed, FilesParsed, FullParsed, ReconcileDone, ResolveDone,
       ReconcileKeep,
       SelectedInv, Update, Builds
  <2>2. CASE WriteStep
    BY <1>4, <2>2
       DEF WriteStep, RemoveDelete, StoreRestore, StoreDelete, StoreNodes, StoreRefs, StoreFile, RemoveRestore
  <2> QED BY <2>1, <2>2 DEF Middle
<1> QED BY <1>1, <1>2, <1>3, <1>4

\* An edge that is deleted leaves a reference that this run resolves again.
LEMMA MiddleSurvive ==
  ASSUME TypeInv, CalmInv, TablesInv, HashInv, StartInv, SurviveInv, CapturedInv, StableNext, Middle
  PROVE  SurviveInv'
<1>0. TypeOK /\ Tracked \subseteq File
  BY DEF TypeInv, Tracked
<1>1. /\ UNCHANGED <<disk, kind, start>> /\ names \subseteq names' /\ changed \subseteq changed'
      /\ touched => touched'
  BY MiddleFrame DEF Middle
<1>2. SUFFICES ASSUME Update, NEW e \in start.edges, Promised(e), Untouched(e[1])'
               PROVE  IF pc' \in {"forget", "finish"}
                      THEN <<e[4], Bare[e[3]]>> \in nodes' =>
                             Resolved(Site(e))' \/ (Site(e) \in refs' /\ Declined(Site(e))')
                      ELSE \/ e \in edges'
                           \/ /\ Site(e) \in refs' /\ e[3] \in names'
                              /\ kind = "sync" => e[4] \in changed' \/ e[4] \notin Tracked'
                              /\ kind = "files" => touched' \/ pc' \in {"nodes", "refs", "file"}
  <2>1. Update' <=> Update
    BY <1>1 DEF Update
  <2>2. \A e : Promised(e)' <=> Promised(e)
    BY <1>1 DEF Promised
  <2> QED BY <1>1, <1>2, <2>1, <2>2 DEF SurviveInv, Site
<1>3. /\ e[1] \in File /\ e[4] \in File /\ Site(e) = <<e[1], e[2], e[3]>> /\ e = <<e[1], e[2], e[3], e[4]>>
      /\ Site(e)[1] = e[1] /\ Site(e)[2] = e[2] /\ Site(e)[3] = e[3]
      /\ Bare[e[3]] \in Name
      /\ start.files[e[1]].hash # Missing
  <2>1. e \in File \X Name \X Written \X File /\ start.files[e[1]].hash # Missing
    BY <1>2 DEF StartInv, Edge
  <2>2. e = <<e[1], e[2], e[3], e[4]>> /\ e[1] \in File /\ e[3] \in Written /\ e[4] \in File
    BY <2>1
  <2>3. Site(e) = <<e[1], e[2], e[3]>>
    BY DEF Site
  <2>4. Bare[e[3]] \in Name
    BY <2>2, IndexAssumption
  <2> QED BY <2>1, <2>2, <2>3, <2>4
<1>4. CASE ~RemoveDelete /\ ~StoreDelete /\ ~StoreFile
  <2>1. Untouched(e[1])
    BY <1>1, <1>2, <1>3, <1>4, OtherSteps DEF Untouched, Middle
  <2>2. CASE Resolve
    <3>1. /\ pc = "resolve" /\ pc' = "forget" /\ nodes' = nodes /\ edges \subseteq edges'
      BY <2>2 DEF Resolve, Go
    <3>2. CASE e \in edges
      BY <1>3, <3>1, <3>2 DEF Resolved
    <3>3. CASE e \notin edges
      <4>1. Site(e) \in refs /\ e[3] \in names
        BY <1>2, <2>1, <3>1, <3>3 DEF SurviveInv
      <4>2. SUFFICES ASSUME <<e[4], Bare[e[3]]>> \in nodes
                     PROVE  Resolved(Site(e))' \/ (Site(e) \in refs' /\ Declined(Site(e))')
        BY <3>1
      <4>3. Site(e) \in Selected
        BY <1>2, <1>3, <4>1 DEF Selected, Update, Builds
      <4>4. PICK found \in SUBSET refs :
              /\ \E pick \in [found -> File] :
                   edges' = edges \cup {<<r[1], r[2], r[3], pick[r]>> : r \in found}
              /\ declined' = declined \cup {<<r, Targets(r)>> : r \in Selected \ found}
        BY <1>2, <2>2 DEF Resolve, Update, Builds
      <4>5. CASE Site(e) \in found
        <5> PICK pick \in [found -> File] :
              edges' = edges \cup {<<r[1], r[2], r[3], pick[r]>> : r \in found}
          BY <4>4
        <5>1. /\ pick[Site(e)] \in File
              /\ <<Site(e)[1], Site(e)[2], Site(e)[3], pick[Site(e)]>> \in edges'
          BY <4>5
        <5> QED BY <5>1 DEF Resolved, Site
      <4>6. CASE Site(e) \notin found
        <5>1. <<Site(e), Targets(Site(e))>> \in declined'
          BY <4>3, <4>4, <4>6
        <5>2. Site(e) \in refs' /\ nodes' = nodes
          BY <2>2, <3>1, <4>1 DEF Resolve
        <5> QED BY <5>1, <5>2 DEF Declined, Targets, Site
      <4> QED BY <4>5, <4>6
    <3> QED BY <3>2, <3>3
  <2>3. CASE ForgetResolved
    <3>1. /\ pc = "forget" /\ pc' = "finish" /\ refs' = refs \ batch
          /\ UNCHANGED <<nodes, edges, declined>>
      BY <1>2, <2>3 DEF ForgetResolved, AfterBatch, Go, Update, Builds
    <3>2. <<e[4], Bare[e[3]]>> \in nodes =>
            Resolved(Site(e)) \/ (Site(e) \in refs /\ Declined(Site(e)))
      BY <1>2, <2>1, <3>1 DEF SurviveInv
    <3>3. Site(e) \in batch => Resolved(Site(e))
      BY <3>1 DEF TablesInv, KeptInv
    <3>4. /\ Resolved(Site(e))' <=> Resolved(Site(e))
          /\ Declined(Site(e))' <=> Declined(Site(e))
      BY <3>1 DEF Resolved, Declined, Targets, Site
    <3> QED BY <3>1, <3>2, <3>3, <3>4
  <2>4. CASE ~Resolve /\ ~ForgetResolved
    <3>1. /\ UNCHANGED Tracked /\ edges' = edges /\ refs \subseteq refs' /\ nodes \subseteq nodes'
      BY <1>4, <2>4, OtherSteps DEF Middle
    <3>2. CASE pc' \notin {"forget", "finish"}
      <4>1. pc \notin {"forget", "finish"}
        BY <2>4, <3>2 DEF Middle, QuietStep, WriteStep, Go, Compare, DiffDone, MetaDone, CaptureNames, DiffSkip,
           DiffStat, UpsertMeta, ParseStep, ParseStat, ParseRead, SkipStore, SyncParsed, FilesParsed,
           FullParsed, ReconcileDone, ResolveDone, ReconcileKeep, RemoveRestore, RemoveDelete,
           StoreRestore, StoreDelete,
           StoreNodes, StoreRefs, StoreFile
      <4>2. pc \in {"nodes", "refs", "file"} => pc' \in {"nodes", "refs", "file"}
        BY <1>4, <2>4, QuietFrame DEF Middle, WriteStep, Go, RemoveRestore, RemoveDelete, StoreRestore,
             StoreDelete,
           StoreNodes, StoreRefs, StoreFile
      <4>3. CASE e \in edges
        BY <3>1, <3>2, <4>3
      <4>4. CASE e \notin edges
        <5>1. /\ Site(e) \in refs /\ e[3] \in names
              /\ kind = "sync" => e[4] \in changed \/ e[4] \notin Tracked
              /\ kind = "files" => touched \/ pc \in {"nodes", "refs", "file"}
          BY <1>2, <2>1, <4>1, <4>4 DEF SurviveInv
        <5> QED BY <1>1, <3>1, <3>2, <4>2, <5>1
      <4> QED BY <4>3, <4>4
    <3>3. CASE pc' \in {"forget", "finish"}
      <4>1. /\ nodes' = nodes /\ pc = "pick"
            /\ IF kind = "sync" THEN changed = {} ELSE ~touched
        BY <1>2, <2>4, <3>3
           DEF Middle, QuietStep, WriteStep, Go, Update, Builds, Compare, DiffDone, MetaDone,
                CaptureNames, DiffSkip,
               DiffStat, UpsertMeta, ParseStep, ParseStat, ParseRead, SkipStore, SyncParsed, FilesParsed,
               FullParsed, ReconcileDone, ResolveDone, ReconcileKeep, RemoveRestore, RemoveDelete,
               StoreRestore, StoreDelete,
               StoreNodes, StoreRefs, StoreFile, tables
      <4>2. e \in edges \/ e[4] \notin Tracked
        BY <1>2, <2>1, <4>1 DEF SurviveInv, Update
      <4>3. CASE e \in edges
        BY <1>3, <3>1, <4>3 DEF Resolved
      <4>4. CASE e[4] \notin Tracked
        BY <1>3, <3>3, <4>1, <4>4 DEF TablesInv, NodeInv
      <4> QED BY <4>2, <4>3, <4>4
    <3> QED BY <3>2, <3>3
  <2> QED BY <2>2, <2>3, <2>4
<1>5. CASE RemoveDelete \/ StoreDelete
  <2>1. /\ cur.file \in File /\ files'[cur.file].hash = Missing
        /\ \A g \in File : g # cur.file => files'[g] = files[g]
        /\ Tracked' = Tracked \ {cur.file}
        /\ refs' = {r \in refs : r[1] # cur.file}
        /\ edges' = {d \in edges : d[1] # cur.file /\ d[4] # cur.file}
    BY <1>5, DeleteRows
  <2>2. e[1] # cur.file /\ Untouched(e[1])
    BY <1>1, <1>2, <1>3, <2>1 DEF Untouched
  <2>3. /\ \/ pc = "delete" /\ pc' = "remove" /\ kind = "sync"
           \/ pc = "replace" /\ pc' = "nodes" /\ cur.file \in changed
    BY <1>2, <1>5 DEF RemoveDelete, StoreDelete, Go, CalmInv, Parsing, Update
  <2>4. CASE e \in edges /\ e[4] # cur.file
    BY <2>1, <2>2, <2>3, <2>4
  <2>5. CASE e \in edges /\ e[4] = cur.file
    <3>1. Site(e) \in refs /\ Site(e) \in refs'
      BY <1>3, <2>1, <2>2, <2>3, <2>5 DEF TablesInv, KeptInv
    <3>2. e[3] \in names
      BY <1>2, <2>2, <2>3, <2>5 DEF CapturedInv, Parsing
    <3> QED BY <1>1, <2>1, <2>3, <2>5, <3>1, <3>2
  <2>6. CASE e \notin edges
    <3>1. /\ Site(e) \in refs /\ e[3] \in names
          /\ kind = "sync" => e[4] \in changed \/ e[4] \notin Tracked
          /\ kind = "files" => touched
      BY <1>2, <2>2, <2>3, <2>6 DEF SurviveInv
    <3>2. Site(e) \in refs'
      BY <1>3, <2>1, <2>2, <3>1
    <3> QED BY <1>1, <2>1, <2>3, <3>1, <3>2
  <2> QED BY <2>4, <2>5, <2>6
<1>6. CASE StoreFile
  <2>1. /\ cur.file \in File /\ cur.file \notin Tracked /\ cur.text = disk[cur.file].text
        /\ files'[cur.file].hash = cur.text
        /\ \A g \in File : g # cur.file => files'[g] = files[g]
        /\ UNCHANGED <<nodes, refs, edges>> /\ touched'
    BY <1>6, StoredRow
  <2>2. pc = "file" /\ pc' = "pick" /\ cur.file \in changed
    BY <1>2, <1>6 DEF StoreFile, Go, CalmInv, Parsing, Update
  <2>3. e[1] # cur.file
    <3>1. ASSUME e[1] = cur.file
          PROVE  FALSE
      <4>1. files[e[1]].hash = Missing
        BY <2>1, <3>1 DEF Tracked
      <4> QED BY <1>1, <1>2, <1>3, <2>1, <3>1, <4>1 DEF HashInv, Untouched
    <3> QED BY <3>1
  <2>4. Untouched(e[1])
    BY <1>1, <1>2, <1>3, <2>1, <2>3 DEF Untouched
  <2>5. e[4] \notin Tracked => e[4] \in changed' \/ e[4] \notin Tracked'
    BY <1>1, <1>3, <2>1, <2>2 DEF Tracked
  <2> QED BY <1>1, <1>2, <2>1, <2>2, <2>4, <2>5 DEF SurviveInv
<1> QED BY <1>4, <1>5, <1>6

MemoryInv == HashInv /\ StartInv /\ SurviveInv /\ CapturedInv /\ BeforeInv /\ SelectedInv

\* Together: what the run remembers, from its first step to its last.
LEMMA StableMemory ==
  ASSUME TypeInv, CalmInv, TablesInv, MemoryInv, [StableNext]_stableVars
  PROVE  MemoryInv'
<1> USE DEF MemoryInv
<1>1. CASE Middle
  <2>1. CASE StableNext
    <3>1. UNCHANGED <<kind, start>>
      BY <1>1, <2>1, MiddleFrame DEF Middle
    <3>2. StartInv'
      BY <3>1 DEF StartInv, Update, Site
    <3> QED BY <1>1, <2>1, <3>2, MiddleHash, MiddleSurvive, MiddleCaptured, MiddleBefore, MiddleSelected
  <2>2. CASE UNCHANGED stableVars
    BY <2>2 DEF stableVars, vars, disks, tables, run, lists, selection, pass, outcome, HashInv, StartInv,
         SurviveInv,
       CapturedInv, BeforeInv, SelectedInv, Update, Promised, Untouched, Resolved, Declined, Site,
       Selected, Targets,
       Tracked, Parsing, Listed
  <2> QED BY <2>1, <2>2
<1>2. CASE UNCHANGED stableVars
  BY <1>2 DEF stableVars, vars, disks, tables, run, lists, selection, pass, outcome, HashInv, StartInv,
       SurviveInv,
     CapturedInv, BeforeInv, SelectedInv, Update, Promised, Untouched, Resolved, Declined, Site,
     Selected, Targets,
     Tracked, Parsing, Listed
<1>3. ASSUME kind' \notin {"sync", "files"}
      PROVE  MemoryInv'
  BY <1>3 DEF HashInv, StartInv, SurviveInv, CapturedInv, BeforeInv, SelectedInv, Update
<1>4. CASE CalmEdit \/ StartFull \/ Abort \/ FullFailed \/ Finish
  BY <1>3, <1>4 DEF CalmEdit, EditStep, Edit, run, CalmInv, StartFull, Abort, FullFailed, Finish, Over, Begin
<1>5. CASE StableNext /\ (StartSync \/ \E S \in SUBSET File : StartFiles(S))
  <2>1. /\ pc = "idle" /\ UNCHANGED <<disk, files, nodes, refs, edges>>
        /\ pc' = IF kind' = "sync" THEN "diff" ELSE "remove"
        /\ kind' \in {"sync", "files"}
    BY <1>5 DEF StartSync, StartFiles, Begin, disks, tables
  <2>2. start' = Now
    BY <1>5, <2>1 DEF StableNext
  <2>3. start'.files = files /\ start'.edges = edges /\ start'.nodes = nodes
    BY <2>2 DEF Now
  <2>4. HashInv' /\ SurviveInv' /\ CapturedInv' /\ BeforeInv' /\ SelectedInv'
    BY <2>1, <2>3 DEF HashInv, SurviveInv, CapturedInv, BeforeInv, SelectedInv, Parsing
  <2>5. StartInv'
    <3>1. ASSUME NEW e \in edges
          PROVE  e \in Edge /\ files[e[1]].hash # Missing /\ Site(e) \in RefsIn(e[1], files[e[1]].hash)
      BY DEF TablesInv, EdgeInv, Own, Tracked, TypeInv, TypeOK, TablesOK
    <3> QED BY <2>3, <3>1 DEF StartInv, Site
  <2> QED BY <2>4, <2>5
<1> QED BY <1>1, <1>2, <1>4, <1>5, StableSteps DEF RunBoundary, Middle

-----------------------------------------------------------------------------
StableInv == TypeInv /\ CalmInv /\ TablesInv /\ MemoryInv

\* The invariant of StableSpec.
LEMMA StableHolds == StableSpec => []StableInv
<1>1. StableInit => StableInv
  <2> SUFFICES ASSUME StableInit
               PROVE  StableInv
    OBVIOUS
  <2>1. TypeInv
    BY InitTyped DEF StableInit
  <2>2. Tracked = {} /\ pc = "idle" /\ kind = "none" /\ nodes = {} /\ refs = {} /\ edges = {}
    BY DEF StableInit, Init, Tracked, Untracked
  <2>3. CalmInv
    BY <2>2 DEF CalmInv, Parsing
  <2>4. TablesInv
    BY <2>2 DEF TablesInv, NodeInv, RefInv, EdgeInv, SiteInv, KeptInv, RefsConserved
  <2>5. MemoryInv
    BY <2>2 DEF MemoryInv, HashInv, StartInv, SurviveInv, CapturedInv, BeforeInv, SelectedInv, Update
  <2> QED BY <2>1, <2>3, <2>4, <2>5 DEF StableInv
<1>2. StableInv /\ [StableNext]_stableVars => StableInv'
  BY StableIsNext, NextTyped, StableCalm, StableTables, StableMemory DEF StableInv
<1> QED BY <1>1, <1>2, PTL DEF StableSpec, stableVars

\* No reference of a tracked file is lost while nodes are deleted and files
\* replaced: it is a row or an edge (restore_unresolved_refs_for_removed_targets
\* runs before the cascade of delete_file).
THEOREM ReferencesAreConserved == StableSpec => []RefsConserved
<1>1. StableInv => RefsConserved
  BY DEF StableInv, TablesInv, KeptInv
<1> QED BY <1>1, StableHolds, PTL

\* Between runs the nodes are those of the tracked texts (store_extraction_result
\* deletes what a file had before it inserts what it has).
THEOREM NodesAreTracked == StableSpec => []NodesMatch
<1>1. StableInv => NodesMatch
  BY DEF StableInv, TablesInv, NodeInv, NodesMatch
<1> QED BY <1>1, StableHolds, PTL

\* Between runs no reference is both resolved and waiting, and none is resolved
\* twice (resolve_and_persist deletes what it resolved).
THEOREM SitesResolvedOnce == StableSpec => []SiteOnce
<1>1. StableInv => SiteOnce
  <2> SUFFICES ASSUME StableInv, pc = "idle", NEW e \in edges
               PROVE  /\ <<e[1], e[2], e[3]>> \notin refs
                      /\ \A g \in File : <<e[1], e[2], e[3], g>> \in edges => g = e[4]
    BY DEF SiteOnce
  <2>1. <<e[1], e[2], e[3]>> \notin refs
    BY DEF StableInv, TablesInv, SiteInv, Site
  <2>2. ASSUME NEW g \in File, <<e[1], e[2], e[3], g>> \in edges
        PROVE  g = e[4]
    <3> DEFINE d == <<e[1], e[2], e[3], g>>
    <3>1. Site(d) = Site(e) /\ d[4] = g
      BY DEF Site
    <3>2. d = e
      BY <2>2, <3>1 DEF StableInv, TablesInv, SiteInv
    <3> QED BY <3>1, <3>2
  <2> QED BY <2>1, <2>2
<1> QED BY <1>1, StableHolds, PTL

\* An update that replaces the target of an edge leaves the reference resolved, or
\* as a row that the resolver has declined anew, if the name is still defined there
\* and its own file did not change (sync_edge_stability_test.rs).
THEOREM EdgesAreStable == StableSpec => []EdgesSurvive
<1>1. StableInv => EdgesSurvive
  BY DEF StableInv, MemoryInv, SurviveInv, EdgesSurvive, Update, Promised, Untouched, Site
<1> QED BY <1>1, StableHolds, PTL

\* References to a name that a changed file no longer defines are put to the
\* resolver again (CodeGraph::index_files notes the names of both sides of a rename).
THEOREM RenamesAreRepaired == StableSpec => []RenamesRepaired
<1>1. StableInv => RenamesRepaired
  <2> SUFFICES ASSUME StableInv, pc = "finish", kind = "sync" \/ (kind = "files" /\ touched),
                      NEW r \in refs, NEW f \in changed, r[3] \in Name, <<f, r[3]>> \in start.nodes
               PROVE  Declined(r)
    BY DEF RenamesRepaired
  <2>1. r[3] \in names
    BY DEF StableInv, MemoryInv, BeforeInv, Update
  <2>2. r \in Selected
    BY <2>1 DEF Selected, Builds
  <2> QED BY <2>2 DEF StableInv, MemoryInv, SelectedInv, Update
<1> QED BY <1>1, StableHolds, PTL
=============================================================================
