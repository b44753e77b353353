--------------------------- MODULE IndexStability ---------------------------
(* What a whole sync does to the edges it found: Index with a memory of the *)
(* tables as they were when the run started.                                *)
EXTENDS Index

VARIABLE start   \* the edges, nodes and stored texts when the run started

Now == [edges |-> edges, files |-> files, nodes |-> nodes]

Nothing == [edges |-> {}, files |-> {}, nodes |-> {}]

StableInit == Init /\ start = Nothing

\* Files change between runs only, no run fails, and a full index is run while
\* every tracked file is still there.
StableNext ==
  /\ SyncRun \/ CalmEdit \/ FullStep \/ FilesStep
  /\ kind' = "full" => Tracked \subseteq Listed
  /\ start' = IF pc' = "idle" THEN Nothing ELSE IF pc = "idle" THEN Now ELSE start

StableSpec == StableInit /\ [][StableNext]_<<vars, start>>

\* A sync that replaces files drops no edge into them: a reference from a file
\* that did not change is resolved afterwards if its target is still defined
\* where it was, however the reference is written (sync_edge_stability_test.rs,
\* "A no-op edit to a file must not move or drop the edges that point INTO it").
\* index_files promises that for bare names: it does not note the spellings the
\* references into its files are restored under.  A resolver that declines such a
\* reference leaves it as a row.
EdgesSurvive ==
  kind \in {"sync", "files"} /\ pc = "finish" => \A e \in start.edges :
    /\ kind = "files" => e[3] \in Name
    /\ files[e[1]].hash = start.files[e[1]].hash
    /\ <<e[4], Bare[e[3]]>> \in nodes
    => LET r == <<e[1], e[2], e[3]>> IN Resolved(r) \/ (r \in refs /\ Declined(r))

\* When an update takes a name away from a file, the references by that name are
\* put to the resolver again, which may find who still defines it
\* (CodeGraph::index_files: "A symbol that the edit removed or renamed only exists
\* in this pre-state").
RenamesRepaired ==
  pc = "finish" /\ (kind = "sync" \/ (kind = "files" /\ touched)) =>
    \A r \in refs, f \in changed : r[3] \in Name /\ <<f, r[3]>> \in start.nodes => Declined(r)
=============================================================================
