---------------------------- MODULE ExploreLedger ----------------------------
(* The session ledger in full: which lines of which version of a file the    *)
(* calls of one connection have been sent, as far as the ledger remembers,   *)
(* while the files are edited.  ToolCalls has the queueing and cancelling of *)
(* the calls; here they only take turns on the engine thread.                *)
EXTENDS Integers, Sequences, FiniteSets

CONSTANTS
  Call, File,
  Content,       \* what a file can say: its fingerprint stands for it
  Gone,          \* the file cannot be read
  Asks,          \* the families of calls considered
  MaxCalls,      \* MAX_CALLS: calls with source the ledger remembers
  MaxViewCalls,  \* MAX_VIEW_CALLS: those a call is shown
  MinCovered,    \* MIN_COVERED_LINES: explore repeats a shorter chunk
  None

VARIABLES
  disk,       \* what each file says
  asks,       \* what each call asks
  call,       \* each call: its stage, its views, its reply
  context,    \* the call the engine thread runs
  calls,      \* the ledger of source, oldest first
  grep,       \* the ledger of grep hits, one entry for each file
  delivered   \* history: the lines the client has been sent

vars == <<disk, asks, call, context, calls, grep, delivered>>

Disk == Content \cup {Gone}
Span == [path : File, first : Nat, last : Nat]
Ask == [tool : {"explore", "file", "node", "variant", "grep"}, wants : Seq(Span)]
Lines(s) == s.first .. s.last
Emission == [path : File, content : Disk, lines : SUBSET Nat]

\* A line of one version of a file.
At(path, content, lines) == {<<path, content, l>> : l \in lines}

Is(c, stage) == call[c].stage = stage
IsExplore(c) == asks[c].tool = "explore"
Wants(c) == asks[c].wants
NextWant(c) == Wants(c)[call[c].next]

-----------------------------------------------------------------------------
(* What the ledger says                                                      *)

Entries(s) == UNION {s[k] : k \in DOMAIN s}

\* Without a fingerprint nothing was served.
Served(view, path, content) ==
  UNION {e.lines : e \in {e \in view : e.path = path /\ e.content = content /\ content # Gone}}

Hits(hits, path, content) == UNION {h.lines : h \in {h \in hits : h.path = path /\ h.content = content}}

LastOf(s, n) == SubSeq(s, IF Len(s) > n THEN Len(s) - n + 1 ELSE 1, Len(s))

-----------------------------------------------------------------------------
(* One call: the service shows it the ledger, the engine thread runs it, the *)
(* service records what its reply carries                                    *)

\* One explore of the connection at a time; the other tools run concurrently.
Submit(c) ==
  /\ Is(c, "new")
  /\ IsExplore(c) => \A d \in Call : IsExplore(d) => call[d].stage \in {"new", "recorded"}
  /\ call' = [call EXCEPT ![c].stage = "queued", ![c].view = Entries(LastOf(calls, MaxViewCalls)),
                          ![c].hits = IF asks[c].tool = "grep" THEN grep ELSE {}]
  /\ UNCHANGED <<disk, asks, context, calls, grep, delivered>>

Start(c) ==
  /\ Is(c, "queued") /\ context = None
  /\ context' = c
  /\ call' = [call EXCEPT ![c].stage = IF IsExplore(c) THEN "planning" ELSE "reading"]
  /\ UNCHANGED <<disk, asks, calls, grep, delivered>>

\* What the ledger says was served of a file as it is on disk now.
ServedNow(c, k) == Served(call[c].view, Wants(c)[k].path, disk[Wants(c)[k].path])

\* Explore leaves out a file of which anything at all was served, unless that
\* leaves none: then the first file is sent again.
Hold(c) ==
  /\ Is(c, "planning")
  /\ LET held == {k \in DOMAIN Wants(c) : ServedNow(c, k) # {}}
     IN call' = [call EXCEPT ![c].stage = "referring",
                             ![c].skip = IF held = DOMAIN Wants(c) THEN held \ {1} ELSE held]
  /\ UNCHANGED <<disk, asks, context, calls, grep, delivered>>

\* The references to the files left out name the ranges that were served of
\* each, looked up by a fingerprint taken anew; a file that has gone gets none.
Refer(c) ==
  /\ Is(c, "referring")
  /\ call' = [call EXCEPT ![c].stage = "reading",
       ![c].already = UNION {At(Wants(c)[k].path, disk[Wants(c)[k].path], ServedNow(c, k)) :
                               k \in {k \in call[c].skip : disk[Wants(c)[k].path] # Gone}}]
  /\ UNCHANGED <<disk, asks, context, calls, grep, delivered>>

Pass(r) == [r EXCEPT !.next = @ + 1, !.stage = "reading"]

\* A held file is passed over, and one that cannot be read.
Read(c) ==
  /\ Is(c, "reading") /\ call[c].next <= Len(Wants(c))
  /\ LET now == disk[NextWant(c).path]
     IN call' = [call EXCEPT ![c] =
          IF call[c].next \in @.skip \/ now = Gone THEN Pass(@)
          ELSE [@ EXCEPT !.stage = "deciding", !.seen = now]]
  /\ UNCHANGED <<disk, asks, context, calls, grep, delivered>>

\* The lines of the next file that the ledger says were sent.  The file is read
\* again for its fingerprint; grep takes the fingerprint of what it searched.
Known(c) ==
  LET path == NextWant(c).path
      now == IF asks[c].tool = "grep" THEN call[c].seen ELSE disk[path]
      served == Served(call[c].view, path, now)
      lines == Lines(NextWant(c))
      whole == lines \subseteq served /\ (IsExplore(c) => Cardinality(lines) >= MinCovered)
  IN At(path, now, IF asks[c].tool = "grep" THEN lines \cap (served \cup Hits(call[c].hits, path, now))
                   ELSE IF whole THEN lines ELSE {})

Decide(c) ==
  /\ Is(c, "deciding")
  /\ LET want == NextWant(c)
         known == Known(c)
         sent == {l \in Lines(want) : \A k \in known : k[3] # l}
         emission == [path |-> want.path, content |-> call[c].seen, lines |-> sent]
         passed == [Pass(call[c]) EXCEPT !.already = call[c].already \cup known]
     IN call' = [call EXCEPT ![c] =
          IF sent # {} THEN [passed EXCEPT !.source = call[c].source \cup {emission}]
          ELSE IF IsExplore(c) /\ call[c].spare = {}
            THEN [passed EXCEPT !.spare = {[emission EXCEPT !.lines = Lines(want)]}]
          ELSE passed]
  /\ UNCHANGED <<disk, asks, context, calls, grep, delivered>>

\* An explore that would send nothing sends the first file it passed over so.
Finish(c) ==
  /\ Is(c, "reading") /\ call[c].next > Len(Wants(c))
  /\ context' = None
  /\ call' = [call EXCEPT ![c] =
       IF IsExplore(c) /\ call[c].source = {} /\ call[c].spare # {}
         THEN [call[c] EXCEPT !.stage = "replied", !.source = call[c].spare,
                 !.already = {k \in call[c].already : \A e \in call[c].spare : k[1] # e.path}]
         ELSE [call[c] EXCEPT !.stage = "replied"]]
  /\ UNCHANGED <<disk, asks, calls, grep, delivered>>

\* The emission of a file is filed under the fingerprint it has now.
Filed(emissions) == {[e EXCEPT !.content = disk[e.path]] : e \in emissions}

\* A grep entry holds the lines of one version of a file.
Merged(old, filed) ==
  LET found == {e \in filed : e.content # Gone}
  IN {h \in old : \A e \in found : e.path # h.path}
     \cup {[e EXCEPT !.lines = @ \cup Hits(old, e.path, e.content)] : e \in found}

\* What is left of the source when the projection has made the reply fit is
\* recorded; a reply without source is only recorded for explore.
Record(c) ==
  /\ Is(c, "replied")
  /\ \E kept \in SUBSET call[c].source :
       /\ IF asks[c].tool = "grep"
            THEN grep' = Merged(grep, Filed(kept)) /\ UNCHANGED calls
            ELSE /\ calls' = IF kept = {} /\ ~IsExplore(c) THEN calls
                             ELSE LastOf(Append(calls, Filed(kept)), MaxCalls)
                 /\ UNCHANGED grep
       /\ delivered' = delivered \cup UNION {At(e.path, e.content, e.lines) : e \in kept}
  /\ call' = [call EXCEPT ![c].stage = "recorded"]
  /\ UNCHANGED <<disk, asks, context>>

Edit(f) ==
  /\ \E now \in Disk \ {disk[f]} : disk' = [disk EXCEPT ![f] = now]
  /\ UNCHANGED <<asks, call, context, calls, grep, delivered>>

-----------------------------------------------------------------------------

Fresh == [stage |-> "new", view |-> {}, hits |-> {}, skip |-> {}, next |-> 1, seen |-> Gone,
          source |-> {}, spare |-> {}, already |-> {}]

Init ==
  /\ disk \in [File -> Content] /\ asks \in Asks
  /\ call = [c \in Call |-> Fresh]
  /\ context = None /\ calls = <<>> /\ grep = {} /\ delivered = {}

Step(c) ==
  \/ Submit(c) \/ Start(c) \/ Hold(c) \/ Refer(c)
  \/ Read(c) \/ Decide(c) \/ Finish(c) \/ Record(c)

Next == (\E c \in Call : Step(c)) \/ (\E f \in File : Edit(f))

Spec == Init /\ [][Next]_vars

\* A file is in use from when a call has read it until it has recorded it.
Open(f) ==
  \E c \in Call :
    \/ Is(c, "deciding") /\ NextWant(c).path = f
    \/ ~Is(c, "recorded") /\ \E e \in call[c].source \cup call[c].spare : e.path = f

CalmNext == (\E c \in Call : Step(c)) \/ (\E f \in File : ~Open(f) /\ Edit(f))

\* The calls when no file is edited while one is at work on it.
CalmSpec == Init /\ [][CalmNext]_vars

-----------------------------------------------------------------------------
(* Property                                                                  *)

\* execution.rs: "can only cost a duplicate, never a false alreadySent".  The
\* lines a reply leaves out as already sent were sent to this client, and say
\* what the reply takes the file to say.
NeverFalse == \A c \in Call : call[c].already \subseteq delivered
=============================================================================
