-------------------------------- MODULE Index --------------------------------
(***************************************************************************)
(* The index of one project and the runs that write it: the full index     *)
(* (CodeGraph::index_all), the incremental sync (CodeGraph::sync) and the  *)
(* index of given files, as an update (index_files) or as a complete build *)
(* (index_file_list).                                                      *)
(* Every SQLite transaction of a run is a step, because a run can be       *)
(* killed between two of them and what was committed stays; every look at  *)
(* the file system is a step, because files change while a run is going.   *)
(*                                                                         *)
(* A node is a <<file, name>> pair, an unresolved reference the node it    *)
(* stands in and the name it is written as, an edge such a reference and   *)
(* the file of the node it was resolved to.                                *)
(***************************************************************************)
EXTENDS Naturals, FiniteSets

CONSTANTS File,      \* paths below the project root
          Name,      \* names of definitions
          Written,   \* names as references spell them: bare or qualified
          Bare,      \* the definition name that a written name ends in
          Text,      \* what a file can hold
          Defines,   \* the names a text defines
          Uses,      \* the references of a text: <<name it stands in, as written>>
          PageSize,  \* how many rows a build resolves at a time
          MaxStamp   \* how many edits and faults are explored

Missing == "missing"        \* no such file
Unreadable == "unreadable"  \* the file is listed but reading it fails

ASSUME IndexAssumption ==
  /\ Name \subseteq Written
  /\ Bare \in [Written -> Name]
  /\ \A w \in Name : Bare[w] = w
  /\ Defines \in [Text -> SUBSET Name]
  /\ Uses \in [Text -> SUBSET (Name \X Written)]
  /\ \A t \in Text : \A u \in Uses[t] : u[1] \in Defines[t]
  /\ {Missing, Unreadable} \cap Text = {}
  /\ Missing \notin File
  /\ PageSize \in Nat \ {0} /\ MaxStamp \in Nat

VARIABLES disk,    \* per path, its text and its (size, mtime) stamp
          clock,   \* the last stamp given out
          files,   \* table files: hash and stamp of the tracked paths
          nodes, refs, edges,  \* tables nodes, unresolved_refs, edges
          state,   \* project_metadata.index_state
          kind, pc,            \* which run holds the write lock, and its next step
          todo, gone,          \* files it has yet to look at, and to remove
          meta,                \* stamps it has yet to write down
          cur,                 \* the file in hand, its stat and what was read
          changed, names,      \* what selects the references to resolve again
          batch,               \* references resolved but not yet deleted
          seen,                \* rows up to the last id that was resolved or declined
          declined,            \* what the resolver left unresolved in this run, each
                               \* with the files that could have answered it
          touched, errored     \* files_indexed (or files_removed) > 0, files_errored > 0

disks == <<disk, clock>>
tables == <<files, nodes, refs, edges>>
lists == <<todo, gone, meta>>
pass == <<batch, seen, declined>>
selection == <<changed, names, pass>>
outcome == <<touched, errored>>
run == <<kind, pc, lists, cur, selection, outcome>>
vars == <<disks, tables, state, run>>

Untracked == [hash |-> Missing, stamp |-> 0]
Tracked == {f \in File : files[f].hash # Missing}
Listed == {f \in File : disk[f].text # Missing}
Readable(t) == t \in Text

Ref == File \X Name \X Written
Edge == File \X Name \X Written \X File

NoCur == [file |-> Missing, stamp |-> 0, text |-> Unreadable]
Holding(f, stamp, text) == [file |-> f, stamp |-> stamp, text |-> text]

Runs == {"sync", "full", "files", "list"}
Builds == {"full", "list"}   \* those that keep index_state
Kinds == Runs \cup {"none"}
Steps == {"idle", "diff", "compare", "meta", "remove", "delete", "pick", "read", "persist",
          "replace", "nodes", "refs", "file", "reconcile", "resolve", "forget", "finish"}

DiskOK ==
  /\ disk \in [File -> [text : Text \cup {Missing, Unreadable}, stamp : Nat]]
  /\ clock \in Nat
TablesOK ==
  /\ files \in [File -> [hash : Text \cup {Missing}, stamp : Nat]]
  /\ nodes \subseteq File \X Name /\ refs \subseteq Ref /\ edges \subseteq Edge
  /\ state \in {"none", "indexing", "complete", "partial", "failed"}
RunOK ==
  /\ kind \in Kinds /\ pc \in Steps
  /\ todo \subseteq File /\ gone \subseteq File /\ meta \subseteq File \X Nat
  /\ cur \in [file : File \cup {Missing}, stamp : Nat, text : Text \cup {Missing, Unreadable}]
  /\ changed \subseteq File /\ names \subseteq Written
  /\ batch \subseteq Ref /\ seen \subseteq Ref /\ declined \subseteq Ref \X SUBSET File
  /\ touched \in BOOLEAN /\ errored \in BOOLEAN
TypeOK == DiskOK /\ TablesOK /\ RunOK

Init ==
  /\ disk \in [File -> [text : Text \cup {Missing}, stamp : {0}]]
  /\ clock = 0
  /\ files = [f \in File |-> Untracked]
  /\ nodes = {} /\ refs = {} /\ edges = {}
  /\ state = "none" /\ kind = "none" /\ pc = "idle"
  /\ todo = {} /\ gone = {} /\ meta = {} /\ cur = NoCur
  /\ changed = {} /\ names = {} /\ batch = {} /\ seen = {} /\ declined = {}
  /\ touched = FALSE /\ errored = FALSE

\* One step of a run's control.
Go(kinds, from, to) == kind \in kinds /\ pc = from /\ pc' = to /\ UNCHANGED kind

\* A run begins, or is over: nothing is left of the one before.  The files that
\* a caller names count as changed, whatever is in them.
Begin(k, step, files_, removed) ==
  /\ kind' = k /\ pc' = step /\ todo' = files_ /\ gone' = removed /\ meta' = {} /\ cur' = NoCur
  /\ changed' = IF k \in {"files", "list"} THEN files_ ELSE {}
  /\ names' = {} /\ batch' = {} /\ seen' = {} /\ declined' = {}
  /\ touched' = FALSE /\ errored' = FALSE
Over == Begin("none", "idle", {}, {})

-----------------------------------------------------------------------------
(* What the transactions of a run do to the tables *)

\* Edges from other files into f, as the references they came from.
Restored(f) == {r \in Ref : r[1] # f /\ <<r[1], r[2], r[3], f>> \in edges}

\* Mutants: node ids instead of names; restored spellings forgotten.
BugNodeIds(f) == {n \in nodes : n[1] = f} \cup {r[3] : r \in Restored(f)}
BugNodeNamesOnly(f) == {n \in Name : <<f, n>> \in nodes}

NodeNames(f) == {n \in Name : <<f, n>> \in nodes}

\* Names that a change of f can affect: those of its nodes, and those its
\* incoming references are restored under.
NamesOf(f) == NodeNames(f) \cup {r[3] : r \in Restored(f)}

RestoreRefs(f) == refs' = refs \cup Restored(f) /\ UNCHANGED <<files, nodes, edges>>

\* Mutant: the files row outlives its nodes.
BugKeepRow(f) ==
  /\ nodes' = {n \in nodes : n[1] # f}
  /\ refs' = {r \in refs : r[1] # f}
  /\ edges' = {e \in edges : e[1] # f /\ e[4] # f}
  /\ UNCHANGED files

\* Rows of deleted nodes cascade away.
DeleteFile(f) ==
  /\ files' = [files EXCEPT ![f] = Untracked]
  /\ nodes' = {n \in nodes : n[1] # f}
  /\ refs' = {r \in refs : r[1] # f}
  /\ edges' = {e \in edges : e[1] # f /\ e[4] # f}

\* INSERT OR REPLACE: a node with the same id is deleted first, with its rows.
InsertNodes(f, text) ==
  LET new == {<<f, n>> : n \in Defines[text]}
  IN  /\ nodes' = nodes \cup new
      /\ refs' = {r \in refs : <<r[1], r[2]>> \notin new}
      /\ edges' = {e \in edges : <<e[1], e[2]>> \notin new /\ <<e[4], Bare[e[3]]>> \notin new}
      /\ UNCHANGED files

RefsIn(f, text) == {<<f, u[1], u[2]>> : u \in Uses[text]}

InsertRefs(f, text) == refs' = refs \cup RefsIn(f, text) /\ UNCHANGED <<files, nodes, edges>>

UpsertFile(f, text, stamp) ==
  /\ files' = [files EXCEPT ![f] = [hash |-> text, stamp |-> stamp]]
  /\ UNCHANGED <<nodes, refs, edges>>

\* The files a reference can resolve to.
Targets(r) == {g \in File : <<g, Bare[r[3]]>> \in nodes}

-----------------------------------------------------------------------------
(* sync: compare the disk with the files table, remove what is gone *)

StartSync ==
  /\ pc = "idle"
  /\ Begin("sync", "diff", Listed, Tracked \ Listed)
  /\ UNCHANGED <<disks, tables, state>>

\* A tracked file is stat'ed first, and skipped when size and mtime are the
\* stored ones or it has just disappeared; any other file is read.
Skipped(f) == f \in Tracked /\ (disk[f].stamp = files[f].stamp \/ disk[f].text = Missing)

DiffSkip(f) ==
  /\ Go({"sync"}, "diff", "diff") /\ f \in todo /\ Skipped(f)
  /\ todo' = todo \ {f}
  /\ UNCHANGED <<disks, tables, state, gone, meta, cur, selection, outcome>>

DiffStat(f) ==
  /\ Go({"sync"}, "diff", "compare") /\ f \in todo /\ ~Skipped(f)
  /\ todo' = todo \ {f}
  /\ cur' = Holding(f, disk[f].stamp, Unreadable)
  /\ UNCHANGED <<disks, tables, state, gone, meta, selection, outcome>>

\* Mutant: only files without a row count as changed.
BugAddedOnly(f, text) == files[f].hash = Missing

\* Content decides between added, modified and touched only.
IsChanged(f, text) == files[f].hash # text

Compare ==
  LET f == cur.file
      text == disk[f].text
  IN  /\ Go({"sync"}, "compare", "diff")
      /\ \/ ~Readable(text) /\ UNCHANGED <<changed, meta>>
         \/ Readable(text) /\ IsChanged(f, text) /\ changed' = changed \cup {f} /\ UNCHANGED meta
         \/ /\ Readable(text) /\ ~IsChanged(f, text)
            /\ meta' = meta \cup {<<f, cur.stamp>>} /\ UNCHANGED changed
      /\ cur' = NoCur
      /\ UNCHANGED <<disks, tables, state, todo, gone, names, pass, outcome>>

DiffDone ==
  /\ Go({"sync"}, "diff", "meta") /\ todo = {}
  /\ todo' = changed
  /\ UNCHANGED <<disks, tables, state, gone, meta, cur, selection, outcome>>

UpsertMeta(f, stamp) ==
  /\ Go({"sync"}, "meta", "meta") /\ <<f, stamp>> \in meta
  /\ files' = [files EXCEPT ![f] = [hash |-> files[f].hash, stamp |-> stamp]]
  /\ meta' = meta \ {<<f, stamp>>}
  /\ UNCHANGED <<disks, nodes, refs, edges, state, todo, gone, cur, selection, outcome>>

MetaDone ==
  /\ Go({"sync"}, "meta", "remove") /\ meta = {}
  /\ UNCHANGED <<disks, tables, state, lists, cur, selection, outcome>>

RemoveRestore(f) ==
  /\ Go({"sync"}, "remove", "delete") /\ f \in gone
  /\ RestoreRefs(f)
  /\ cur' = Holding(f, 0, Unreadable)
  /\ gone' = gone \ {f}
  /\ names' = names \cup NamesOf(f)
  /\ UNCHANGED <<disks, state, todo, meta, changed, pass, outcome>>

RemoveDelete ==
  /\ Go({"sync"}, "delete", "remove")
  /\ DeleteFile(cur.file)
  /\ cur' = NoCur
  /\ UNCHANGED <<disks, state, lists, selection, outcome>>

\* Mutant: the names are those found after the run.
BugNoCapture ==
  /\ Go({"sync", "files"}, "remove", "pick") /\ gone = {}
  /\ UNCHANGED <<disks, tables, state, lists, cur, selection, outcome>>

\* The names of the files about to be replaced are noted before any of them is;
\* index_files asks for their nodes only.
CaptureNames ==
  /\ Go({"sync", "files"}, "remove", "pick") /\ gone = {}
  /\ names' = names \cup UNION {IF kind = "files" THEN NodeNames(f) ELSE NamesOf(f) : f \in todo}
  /\ UNCHANGED <<disks, tables, state, lists, cur, changed, pass, outcome>>

-----------------------------------------------------------------------------
(* index_all: everything that is listed *)

StartFull ==
  /\ pc = "idle"
  /\ state' = "indexing"
  /\ Begin("full", "pick", Listed, {})
  /\ UNCHANGED <<disks, tables>>

\* The caller's signal is looked at before every item.
Abort ==
  /\ kind = "full" /\ pc = "pick"
  /\ state' = "failed"
  /\ Over
  /\ UNCHANGED <<disks, tables>>

-----------------------------------------------------------------------------
(* index_files and index_file_list: the files the caller names *)

StartFiles(S) ==
  /\ pc = "idle" /\ S # {}
  /\ Begin("files", "remove", S, {})
  /\ UNCHANGED <<disks, tables, state>>

\* The names are noted again: both sides of a rename.
FilesParsed ==
  /\ Go({"files"}, "pick", IF touched THEN "resolve" ELSE "finish") /\ todo = {}
  /\ names' = names \cup UNION {NodeNames(f) : f \in changed}
  /\ UNCHANGED <<disks, tables, state, lists, cur, changed, pass, outcome>>

StartList(S) ==
  /\ pc = "idle" /\ S # {}
  /\ state' = "indexing"
  /\ Begin("list", "pick", S, {})
  /\ UNCHANGED <<disks, tables>>

\* The caller's signal ends it between two batches; what was stored is resolved.
ListParsed ==
  /\ Go({"list"}, "pick", IF touched THEN "resolve" ELSE "finish")
  /\ UNCHANGED <<disks, tables, state, lists, cur, selection, outcome>>

-----------------------------------------------------------------------------
(* Every run: read, parse and store one file at a time *)

\* read_and_parse stats the file before it reads it.
ParseStat(f) ==
  /\ Go(Runs, "pick", IF disk[f].text = Missing THEN "persist" ELSE "read") /\ f \in todo
  /\ todo' = todo \ {f}
  /\ cur' = Holding(f, disk[f].stamp, Unreadable)
  /\ UNCHANGED <<disks, tables, state, gone, meta, selection, outcome>>

ParseRead ==
  /\ Go(Runs, "read", "persist")
  /\ cur' = Holding(cur.file, cur.stamp, disk[cur.file].text)
  /\ UNCHANGED <<disks, tables, state, lists, selection, outcome>>

Parsed == Readable(cur.text)
Unstored == ~Parsed \/ files[cur.file].hash = cur.text

\* The file in hand is done with, and counted; a sync notes its new names.
FileDone ==
  /\ names' = IF Parsed /\ kind = "sync" THEN names \cup Defines[cur.text] ELSE names
  /\ touched' = (touched \/ Parsed)
  /\ errored' = (errored \/ ~Parsed)
  /\ cur' = NoCur
  /\ UNCHANGED <<disks, state, lists, changed, pass>>

\* Nothing to store: the file could not be read, or its hash is the stored one.
SkipStore ==
  /\ Go(Runs, "persist", "pick") /\ Unstored
  /\ kind # "sync" \/ cur.file \notin Tracked
  /\ FileDone /\ UNCHANGED tables

\* A sync that could not replace a tracked file removes it: missing beats stale.
DropUnreplaced ==
  /\ Go({"sync"}, "persist", "pick") /\ Unstored /\ cur.file \in Tracked
  /\ DeleteFile(cur.file) /\ FileDone

Storing == UNCHANGED <<disks, state, lists, cur, selection, outcome>>

\* Mutant: inbound edges go without a trace.
BugNoRestore ==
  Go(Runs, "persist", "replace") /\ ~Unstored /\ cur.file \in Tracked /\ UNCHANGED tables /\ Storing

StoreRestore ==
  /\ Go(Runs, "persist", "replace") /\ ~Unstored /\ cur.file \in Tracked
  /\ RestoreRefs(cur.file) /\ Storing

\* Mutant: the old rows are left for INSERT OR REPLACE.
BugKeepNodes == Go(Runs, "replace", "nodes") /\ UNCHANGED tables /\ Storing

StoreDelete == Go(Runs, "replace", "nodes") /\ DeleteFile(cur.file) /\ Storing

StoreNodes ==
  /\ \/ Go(Runs, "nodes", "refs")
     \/ Go(Runs, "persist", "refs") /\ ~Unstored /\ cur.file \notin Tracked
  /\ InsertNodes(cur.file, cur.text) /\ Storing

StoreRefs == Go(Runs, "refs", "file") /\ InsertRefs(cur.file, cur.text) /\ Storing

\* Mutant: the file is stat'ed when its row is written.
BugFreshStat ==
  Go(Runs, "file", "pick") /\ UpsertFile(cur.file, cur.text, disk[cur.file].stamp) /\ FileDone

StoreFile == Go(Runs, "file", "pick") /\ UpsertFile(cur.file, cur.text, cur.stamp) /\ FileDone

\* A sync resolves references only if a file was added or modified.
SyncParsed ==
  /\ Go({"sync"}, "pick", IF changed # {} THEN "resolve" ELSE "finish") /\ todo = {}
  /\ UNCHANGED <<disks, tables, state, lists, cur, selection, outcome>>

\* A full index goes on to look for removed files, unless it only met errors.
FullParsed ==
  /\ Go({"full"}, "pick", "reconcile") /\ todo = {}
  /\ touched \/ ~errored
  /\ gone' = Tracked \ Listed /\ todo' = Tracked
  /\ UNCHANGED <<disks, tables, state, meta, cur, selection, outcome>>

FullFailed ==
  /\ kind = "full" /\ pc = "pick" /\ todo = {}
  /\ ~touched /\ errored
  /\ state' = "failed"
  /\ Over
  /\ UNCHANGED <<disks, tables>>

-----------------------------------------------------------------------------
(* The end of a full index removes the files that are no longer there *)

ReconcileKeep(f) ==
  /\ Go({"full"}, "reconcile", "reconcile") /\ f \in todo \ gone
  /\ disk[f].text # Missing
  /\ todo' = todo \ {f}
  /\ UNCHANGED <<disks, tables, state, gone, meta, cur, selection, outcome>>

ReconcileRemove(f) ==
  /\ Go({"full"}, "reconcile", "reconcile") /\ f \in todo
  /\ f \in gone \/ disk[f].text = Missing
  /\ DeleteFile(f)
  /\ todo' = todo \ {f} /\ touched' = TRUE
  /\ UNCHANGED <<disks, state, gone, meta, cur, selection, errored>>

ReconcileDone ==
  /\ Go({"full"}, "reconcile", IF touched THEN "resolve" ELSE "finish") /\ todo = {}
  /\ UNCHANGED <<disks, tables, state, lists, cur, selection, outcome>>

-----------------------------------------------------------------------------
(* Resolution: the edges are inserted, then their references deleted *)

\* Mutant: a sync looks at its own files only.
BugOwnFilesOnly == {r \in refs : r[1] \in changed}

\* An update resolves the references of the changed files and those spelled
\* exactly like a changed name.
Selected == {r \in refs : r[1] \in changed \/ r[3] \in names}

\* Mutant: pages are counted from the start of a table that shrinks.
BugOffset == IF Cardinality(seen) < Cardinality(refs) THEN refs \ seen ELSE {}

\* A build goes through the whole table, in the order of the row ids.
Unseen == refs \ seen

Page(rows) ==
  /\ rows \subseteq Unseen /\ rows # {}
  /\ rows = Unseen \/ Cardinality(rows) = PageSize
  /\ Cardinality(rows) <= PageSize

\* The resolver takes a node that the name fits, or none: every strategy may decline.
Resolve ==
  /\ Go(Runs, "resolve", "forget")
  /\ \E rows \in SUBSET refs :
       /\ IF kind \in Builds THEN Page(rows) ELSE rows = Selected
       /\ seen' = seen \cup rows
       /\ \E found \in SUBSET {r \in rows : Targets(r) # {}} :
            /\ \E pick \in [found -> File] :
                 /\ \A r \in found : pick[r] \in Targets(r)
                 /\ edges' = edges \cup {<<r[1], r[2], r[3], pick[r]>> : r \in found}
            /\ batch' = found
            /\ declined' = declined \cup {<<r, Targets(r)>> : r \in rows \ found}
  /\ UNCHANGED <<disks, files, nodes, refs, state, lists, cur, changed, names, outcome>>

AfterBatch == IF kind \in Builds THEN "resolve" ELSE "finish"

\* Mutant: resolved references keep their rows.
BugKeepResolved ==
  /\ Go(Runs, "forget", AfterBatch)
  /\ batch' = {}
  /\ UNCHANGED <<disks, tables, state, lists, cur, changed, names, seen, declined, outcome>>

ForgetResolved ==
  /\ Go(Runs, "forget", AfterBatch)
  /\ refs' = refs \ batch /\ batch' = {}
  /\ UNCHANGED <<disks, files, nodes, edges, state, lists, cur, changed, names, seen, declined, outcome>>

ResolveDone ==
  /\ Go(Builds, "resolve", "finish") /\ Unseen = {}
  /\ UNCHANGED <<disks, tables, state, lists, cur, selection, outcome>>

\* A list of which some were not come to is a partial index.
Result ==
  IF kind \notin Builds THEN state
  ELSE IF errored /\ ~touched THEN "failed"
  ELSE IF todo # {} THEN "partial" ELSE "complete"

Finish ==
  /\ pc = "finish"
  /\ state' = Result
  /\ Over
  /\ UNCHANGED <<disks, tables>>

-----------------------------------------------------------------------------
(* Faults and surroundings *)

Tick == clock < MaxStamp /\ clock' = clock + 1

\* A database error ends the run; only a build writes that down.
RunError ==
  /\ pc # "idle" /\ Tick
  /\ state' = IF kind \in Builds THEN "failed" ELSE state
  /\ Over
  /\ UNCHANGED <<disk, tables>>

\* A kill loses the run and keeps what it committed.
Kill ==
  /\ pc # "idle" /\ Tick
  /\ Over
  /\ UNCHANGED <<disk, tables, state>>

\* Every change of a file, a touch included, gives it a stamp of its own.
Edit(f, text) ==
  /\ Tick
  /\ disk' = [disk EXCEPT ![f] = [text |-> text, stamp |-> clock + 1]]
  /\ UNCHANGED <<tables, state, run>>

StoreStep == SkipStore \/ StoreRestore \/ StoreDelete \/ StoreNodes \/ StoreRefs \/ StoreFile
ParseStep == (\E f \in File : ParseStat(f)) \/ ParseRead
ResolveStep == Resolve \/ ForgetResolved \/ ResolveDone \/ Finish

SyncStep ==
  \/ StartSync \/ Compare \/ DiffDone \/ MetaDone \/ RemoveDelete \/ CaptureNames
  \/ DropUnreplaced \/ SyncParsed
  \/ \E f \in File : DiffSkip(f) \/ DiffStat(f) \/ RemoveRestore(f)
  \/ \E m \in meta : UpsertMeta(m[1], m[2])

FullStep ==
  \/ StartFull \/ Abort \/ FullParsed \/ FullFailed \/ ReconcileDone
  \/ \E f \in File : ReconcileKeep(f) \/ ReconcileRemove(f)

FilesStep == FilesParsed \/ \E S \in SUBSET File : StartFiles(S)
ListStep == ListParsed \/ \E S \in SUBSET File : StartList(S)

RunStep == SyncStep \/ FullStep \/ FilesStep \/ ListStep \/ ParseStep \/ StoreStep \/ ResolveStep
EditStep == \E f \in File, text \in Text \cup {Missing, Unreadable} : Edit(f, text)

Next == RunStep \/ RunError \/ Kill \/ EditStep

\* Files change and faults strike at any moment.
Spec == Init /\ [][Next]_vars

\* Whoever syncs keeps coming back (every change arms the watcher again), and a
\* run that is not killed goes on.
FairSpec == Spec /\ WF_vars(RunStep) /\ SF_vars(StartSync)

\* Files change between runs only.
CalmEdit == pc = "idle" /\ EditStep
CalmSpec == Init /\ [][RunStep \/ RunError \/ Kill \/ CalmEdit]_vars

\* The steps of a sync.
SyncRun == SyncStep \/ ParseStep \/ StoreStep \/ ResolveStep

-----------------------------------------------------------------------------
(* Properties *)

\* Size and mtime are stored with the text they were read with, so a change made
\* while a run reads the file is not skipped by the stat filter of every sync
\* after it (FileStats in read_and_parse and in the diff).
NoMaskedChange ==
  \A f \in Tracked : files[f].stamp = disk[f].stamp => files[f].hash = disk[f].text

\* A file is tracked only while all its nodes are in the table: a run that dies
\* half-way leaves the file untracked, for the next run to add again
\* (store_extraction_result writes the files row last).
TrackedIsStored == \A f \in Tracked : \A n \in Defines[files[f].hash] : <<f, n>> \in nodes

\* The index agrees with the disk.
UpToDate == \A f \in File :
  /\ Readable(disk[f].text) => files[f].hash = disk[f].text
  /\ disk[f].text = Missing => f \notin Tracked

\* In this run the resolver has declined r, with the nodes there are now.
Declined(r) == <<r, Targets(r)>> \in declined

\* A build leaves no row that it has not put to the resolver with all nodes in
\* place, rows that killed runs left and rows on later pages of the shrinking table
\* included, unless it stored and removed nothing
\* (get_unresolved_references_batch_after_id: "lets full-index resolution scan each
\* currently-unresolved row once").
FullTriesAll == pc = "finish" /\ kind \in Builds /\ touched => \A r \in refs : Declined(r)

\* An update repairs a reference from an unchanged file once a changed file
\* defines its name (doc of get_unresolved_references_by_names), if it is a bare
\* name ("index_files should resolve existing refs after a late target"), unless
\* the resolver declines it again.
SyncRepairs ==
  pc = "finish" /\ (kind = "sync" \/ (kind = "files" /\ touched)) =>
    \A r \in refs : r[3] \in Name /\ Targets(r) \cap changed # {} => Declined(r)

\* No reference of a tracked file gets lost: it is a row to resolve or an edge
\* (restore_unresolved_refs_for_removed_targets saves what a cascade deletes).
Resolved(r) == \E g \in File : <<r[1], r[2], r[3], g>> \in edges
RefsConserved == \A f \in Tracked : \A r \in RefsIn(f, files[f].hash) : r \in refs \/ Resolved(r)

\* Between runs that all ended well the nodes are those of the tracked texts:
\* none is left from a replaced text or a removed file.
NodesMatch ==
  pc = "idle" => \A f \in File, n \in Name :
    <<f, n>> \in nodes <=> f \in Tracked /\ n \in Defines[files[f].hash]

\* Between runs a reference is not both resolved and waiting, and is resolved to
\* one node only, however often files around it were replaced.
SiteOnce ==
  pc = "idle" => \A e \in edges :
    /\ <<e[1], e[2], e[3]>> \notin refs
    /\ \A g \in File : <<e[1], e[2], e[3], g>> \in edges => g = e[4]

\* Once files stop changing, repeated syncs bring the index up to date for good,
\* whatever was edited, removed or unreadable in the middle of earlier syncs.
SettlesUpToDate == <>[]UpToDate
=============================================================================
