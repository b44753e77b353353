------------------------- MODULE ExploreLedgerProofs -------------------------
(* Nothing is falsely left out while no file is edited under a call.         *)
EXTENDS ExploreLedger, TLAPS

\* What the constants are.
Bounds ==
  /\ Asks \subseteq [Call -> Ask]
  /\ MaxCalls \in Nat /\ MaxViewCalls \in Nat
  /\ None \notin Call

CallRecord ==
  [stage : {"new", "queued", "planning", "referring", "reading", "deciding", "replied", "recorded"},
   view : SUBSET Emission, hits : SUBSET Emission, skip : SUBSET Nat, next : Nat \ {0}, seen : Disk,
   source : SUBSET Emission, spare : SUBSET Emission, already : SUBSET (File \X Disk \X Nat)]

Typed ==
  /\ disk \in [File -> Disk] /\ asks \in [Call -> Ask]
  /\ call \in [Call -> CallRecord]
  /\ calls \in Seq(SUBSET Emission) /\ grep \in SUBSET Emission

\* What the ledger holds under a fingerprint was sent.
Honest(entries, sent) ==
  \A e \in entries : e.content # Gone => At(e.path, e.content, e.lines) \subseteq sent

\* What a call has read and not recorded is still what the file says.
Current(c) ==
  /\ Is(c, "deciding") => /\ call[c].next \in DOMAIN Wants(c)
                         /\ call[c].seen = disk[NextWant(c).path] /\ call[c].seen # Gone
  /\ Is(c, "referring") => call[c].skip \subseteq DOMAIN Wants(c)
  /\ ~Is(c, "recorded") => \A e \in call[c].source \cup call[c].spare : e.content = disk[e.path]

LedgerInv ==
  /\ Typed
  /\ Honest(Entries(calls), delivered) /\ Honest(grep, delivered)
  /\ \A c \in Call : /\ Honest(call[c].view, delivered) /\ Honest(call[c].hits, delivered)
                     /\ Current(c)
  /\ NeverFalse

-----------------------------------------------------------------------------
(* The helpers                                                               *)

\* The last entries of a sequence are entries of it.
LEMMA LastOfPart ==
  ASSUME NEW S, NEW s \in Seq(SUBSET S), NEW n \in Nat
  PROVE  LastOf(s, n) \in Seq(SUBSET S) /\ Entries(LastOf(s, n)) \subseteq Entries(s)
<1> DEFINE m == IF Len(s) > n THEN Len(s) - n + 1 ELSE 1
<1>1. m \in 1 .. Len(s) + 1 /\ Len(s) \in Nat
  OBVIOUS
<1>2. LastOf(s, n) = SubSeq(s, m, Len(s))
  BY DEF LastOf
<1> HIDE DEF m
<1>3. /\ SubSeq(s, m, Len(s)) \in Seq(SUBSET S)
      /\ Len(SubSeq(s, m, Len(s))) = Len(s) - m + 1
      /\ \A k \in 1 .. Len(s) - m + 1 : SubSeq(s, m, Len(s))[k] = s[m + k - 1]
  BY <1>1
<1>4. ASSUME NEW k \in DOMAIN SubSeq(s, m, Len(s))
      PROVE  \E j \in DOMAIN s : SubSeq(s, m, Len(s))[k] = s[j]
  <2>1. k \in 1 .. Len(s) - m + 1
    BY <1>1, <1>3
  <2>2. m + k - 1 \in DOMAIN s
    BY <1>1, <2>1
  <2> QED BY <1>3, <2>1, <2>2
<1> QED
  BY <1>2, <1>3, <1>4 DEF Entries

\* A call's record adds its emissions to the ledger and no others.
LEMMA AppendEntries ==
  ASSUME NEW S, NEW s \in Seq(SUBSET S), NEW x \in SUBSET S
  PROVE  Append(s, x) \in Seq(SUBSET S) /\ Entries(Append(s, x)) \subseteq Entries(s) \cup x
BY DEF Entries

\* What an honest ledger says was served was sent.
LEMMA ServedWasSent ==
  ASSUME NEW view \in SUBSET Emission, NEW sent, Honest(view, sent), NEW path, NEW content
  PROVE  /\ At(path, content, Served(view, path, content)) \subseteq sent
         /\ Served(view, path, content) \subseteq Nat
<1>1. ASSUME NEW l \in Served(view, path, content)
      PROVE  <<path, content, l>> \in sent /\ l \in Nat
  <2>1. PICK e \in view : e.path = path /\ e.content = content /\ content # Gone /\ l \in e.lines
    BY DEF Served
  <2>2. <<path, content, l>> \in At(e.path, e.content, e.lines)
    BY <2>1 DEF At
  <2> QED BY <2>1, <2>2 DEF Honest, Emission
<1> QED BY <1>1 DEF At

\* The same of the grep ledger, for a file that was read.
LEMMA HitsWereSent ==
  ASSUME NEW hits \in SUBSET Emission, NEW sent, Honest(hits, sent), NEW path, NEW content, content # Gone
  PROVE  /\ At(path, content, Hits(hits, path, content)) \subseteq sent
         /\ Hits(hits, path, content) \subseteq Nat
<1>1. ASSUME NEW l \in Hits(hits, path, content)
      PROVE  <<path, content, l>> \in sent /\ l \in Nat
  <2>1. PICK h \in hits : h.path = path /\ h.content = content /\ l \in h.lines
    BY DEF Hits
  <2>2. <<path, content, l>> \in At(h.path, h.content, h.lines)
    BY <2>1 DEF At
  <2> QED BY <2>1, <2>2 DEF Honest, Emission
<1> QED BY <1>1 DEF At

\* Sending more keeps an honest ledger honest, and so does forgetting.
LEMMA HonestGrows ==
  ASSUME NEW entries, NEW sent, Honest(entries, sent), NEW part \in SUBSET entries,
         NEW more, sent \subseteq more
  PROVE  Honest(part, more)
BY DEF Honest

-----------------------------------------------------------------------------
(* The steps                                                                 *)

\* A step of one call leaves the others, the files and what they were sent alone.
LEMMA OneCall ==
  ASSUME LedgerInv, NEW c \in Call, NEW r \in CallRecord, call' = [call EXCEPT ![c] = r],
         UNCHANGED <<disk, asks>>, delivered \subseteq delivered',
         calls' \in Seq(SUBSET Emission), grep' \in SUBSET Emission,
         Honest(Entries(calls'), delivered'), Honest(grep', delivered'),
         Honest(r.view, delivered'), Honest(r.hits, delivered'), r.already \subseteq delivered',
         r.stage = "deciding" => /\ r.next \in DOMAIN Wants(c)
                                 /\ r.seen = disk[Wants(c)[r.next].path] /\ r.seen # Gone,
         r.stage = "referring" => r.skip \subseteq DOMAIN Wants(c),
         r.stage # "recorded" => \A e \in r.source \cup r.spare : e.content = disk[e.path]
  PROVE  LedgerInv'
<1>1. Typed'
  BY DEF LedgerInv, Typed
<1>2. ASSUME NEW d \in Call
      PROVE  call'[d] = IF d = c THEN r ELSE call[d]
  BY DEF LedgerInv, Typed
<1>3. ASSUME NEW d \in Call
      PROVE  /\ Honest(call'[d].view, delivered') /\ Honest(call'[d].hits, delivered')
             /\ call'[d].already \subseteq delivered'
  <2>1. CASE d = c
    BY <1>2, <2>1
  <2>2. CASE d # c
    <3>1. /\ Honest(call[d].view, delivered) /\ Honest(call[d].hits, delivered)
          /\ call[d].already \subseteq delivered
      BY DEF LedgerInv, NeverFalse
    <3> QED BY <1>2, <2>2, <3>1, HonestGrows
  <2> QED BY <2>1, <2>2
<1>4. ASSUME NEW d \in Call
      PROVE  Current(d)'
  <2>1. Current(d)
    BY DEF LedgerInv
  <2> QED BY <1>2, <2>1 DEF Current, Is, NextWant, Wants
<1> QED BY <1>1, <1>3, <1>4 DEF LedgerInv, NeverFalse

\* The parts of the invariant for the call a step is of.
LEMMA OfCall ==
  ASSUME LedgerInv, NEW c \in Call
  PROVE  /\ call[c] \in CallRecord /\ asks[c] \in Ask
         /\ Honest(call[c].view, delivered) /\ Honest(call[c].hits, delivered)
         /\ call[c].already \subseteq delivered
         /\ Current(c)
         /\ calls \in Seq(SUBSET Emission) /\ grep \in SUBSET Emission /\ disk \in [File -> Disk]
         /\ Honest(Entries(calls), delivered) /\ Honest(grep, delivered)
         /\ call \in [Call -> CallRecord]
BY DEF LedgerInv, Typed, NeverFalse

\* A view that is taken of an honest ledger is honest.
LEMMA SubmitKeeps ==
  ASSUME Bounds, LedgerInv, NEW c \in Call, Submit(c)
  PROVE  LedgerInv'
<1> DEFINE r == [call[c] EXCEPT !.stage = "queued", !.view = Entries(LastOf(calls, MaxViewCalls)),
                                !.hits = IF asks[c].tool = "grep" THEN grep ELSE {}]
<1>1. call' = [call EXCEPT ![c] = r] /\ UNCHANGED <<disk, asks, calls, grep, delivered>>
  BY OfCall DEF Submit, CallRecord
<1>2. Entries(LastOf(calls, MaxViewCalls)) \in SUBSET Emission
  <2>1. LastOf(calls, MaxViewCalls) \in Seq(SUBSET Emission)
    BY OfCall, LastOfPart DEF Bounds
  <2> QED BY <2>1 DEF Entries
<1>3. Honest(Entries(LastOf(calls, MaxViewCalls)), delivered)
  BY OfCall, LastOfPart, HonestGrows DEF Bounds
<1>4. r \in CallRecord
  BY <1>2, OfCall DEF CallRecord
<1>5. /\ r.stage = "queued" /\ r.source = call[c].source /\ r.spare = call[c].spare
      /\ r.already = call[c].already /\ r.view = Entries(LastOf(calls, MaxViewCalls))
      /\ r.hits = IF asks[c].tool = "grep" THEN grep ELSE {}
  BY OfCall DEF CallRecord
<1>6. Honest(r.hits, delivered)
  BY <1>5, OfCall DEF Honest
<1>7. \A e \in r.source \cup r.spare : e.content = disk[e.path]
  BY <1>5, OfCall DEF Current, Is, Submit
<1> HIDE DEF r
<1> QED BY <1>1, <1>3, <1>4, <1>5, <1>6, <1>7, OfCall, OneCall

\* A call that starts has read nothing yet.
LEMMA StartKeeps ==
  ASSUME LedgerInv, NEW c \in Call, Start(c)
  PROVE  LedgerInv'
<1> DEFINE r == [call[c] EXCEPT !.stage = IF IsExplore(c) THEN "planning" ELSE "reading"]
<1>1. call' = [call EXCEPT ![c] = r] /\ UNCHANGED <<disk, asks, calls, grep, delivered>>
  BY OfCall DEF Start, CallRecord
<1>2. /\ r \in CallRecord /\ r.stage \in {"planning", "reading"}
      /\ r.view = call[c].view /\ r.hits = call[c].hits /\ r.already = call[c].already
      /\ r.source = call[c].source /\ r.spare = call[c].spare
  BY OfCall DEF CallRecord
<1>3. \A e \in r.source \cup r.spare : e.content = disk[e.path]
  BY <1>2, OfCall DEF Current, Is, Start
<1> HIDE DEF r
<1> QED BY <1>1, <1>2, <1>3, OfCall, OneCall

\* A plan is of the files a call wants.
LEMMA HoldKeeps ==
  ASSUME LedgerInv, NEW c \in Call, Hold(c)
  PROVE  LedgerInv'
<1> DEFINE held == {k \in DOMAIN Wants(c) : ServedNow(c, k) # {}}
           skip == IF held = DOMAIN Wants(c) THEN held \ {1} ELSE held
           r == [call[c] EXCEPT !.stage = "referring", !.skip = skip]
<1>1. call' = [call EXCEPT ![c] = r] /\ UNCHANGED <<disk, asks, calls, grep, delivered>>
  BY OfCall DEF Hold, CallRecord
<1>2. skip \in SUBSET Nat /\ skip \subseteq DOMAIN Wants(c)
  <2>1. Wants(c) \in Seq(Span)
    BY OfCall DEF Wants, Ask
  <2> QED BY <2>1
<1> HIDE DEF skip
<1>3. /\ r \in CallRecord /\ r.stage = "referring" /\ r.skip = skip
      /\ r.view = call[c].view /\ r.hits = call[c].hits /\ r.already = call[c].already
      /\ r.source = call[c].source /\ r.spare = call[c].spare
  BY <1>2, OfCall DEF CallRecord
<1>4. \A e \in r.source \cup r.spare : e.content = disk[e.path]
  BY <1>3, OfCall DEF Current, Is, Hold
<1> HIDE DEF r
<1> QED BY <1>1, <1>2, <1>3, <1>4, OfCall, OneCall

\* The lines that the references to the files left out name were served.
LEMMA ReferKeeps ==
  ASSUME LedgerInv, NEW c \in Call, Refer(c)
  PROVE  LedgerInv'
<1> DEFINE has(k) == At(Wants(c)[k].path, disk[Wants(c)[k].path], ServedNow(c, k))
           kept == {k \in call[c].skip : disk[Wants(c)[k].path] # Gone}
           had == UNION {has(k) : k \in kept}
           r == [call[c] EXCEPT !.stage = "reading", !.already = had]
<1>1. call' = [call EXCEPT ![c] = r] /\ UNCHANGED <<disk, asks, calls, grep, delivered>>
  BY OfCall DEF Refer, CallRecord
<1>2. Wants(c) \in Seq(Span) /\ kept \subseteq DOMAIN Wants(c)
  BY OfCall DEF Wants, Ask, Current, Refer, Is
<1>3. ASSUME NEW k \in kept
      PROVE  has(k) \subseteq delivered /\ has(k) \subseteq File \X Disk \X Nat
  <2>1. Wants(c)[k] \in Span
    BY <1>2
  <2>2. Wants(c)[k].path \in File /\ disk[Wants(c)[k].path] \in Disk
    BY <2>1, OfCall DEF Span
  <2>3. call[c].view \in SUBSET Emission
    BY OfCall DEF CallRecord
  <2>4. has(k) \subseteq delivered /\ ServedNow(c, k) \subseteq Nat
    BY <2>3, OfCall, ServedWasSent DEF ServedNow
  <2> QED BY <2>2, <2>4 DEF At
<1>4. had \in SUBSET (File \X Disk \X Nat) /\ had \subseteq delivered
  BY <1>3
<1> HIDE DEF has, had, kept
<1>5. /\ r \in CallRecord /\ r.stage = "reading"
      /\ r.view = call[c].view /\ r.hits = call[c].hits /\ r.already = had
      /\ r.source = call[c].source /\ r.spare = call[c].spare
  BY <1>4, OfCall DEF CallRecord
<1>6. \A e \in r.source \cup r.spare : e.content = disk[e.path]
  BY <1>5, OfCall DEF Current, Is, Refer
<1>7. r.already \subseteq delivered
  BY <1>4, <1>5
<1> HIDE DEF r
<1> QED BY <1>1, <1>5, <1>6, <1>7, OfCall, OneCall

\* Going on to the next file keeps what the call has.
LEMMA PassKeeps ==
  ASSUME NEW r \in CallRecord
  PROVE  /\ Pass(r) \in CallRecord /\ Pass(r).stage = "reading"
         /\ Pass(r).view = r.view /\ Pass(r).hits = r.hits /\ Pass(r).already = r.already
         /\ Pass(r).source = r.source /\ Pass(r).spare = r.spare
<1>1. r.next + 1 \in Nat \ {0}
  BY DEF CallRecord
<1> DEFINE n == r.next + 1
<1>2. Pass(r) = [r EXCEPT !.next = n, !.stage = "reading"]
  BY DEF Pass
<1> HIDE DEF n
<1> QED BY <1>1, <1>2 DEF CallRecord, n

\* What a call reads is what is on disk.
LEMMA ReadKeeps ==
  ASSUME LedgerInv, NEW c \in Call, Read(c)
  PROVE  LedgerInv'
<1> DEFINE now == disk[NextWant(c).path]
           r == IF call[c].next \in call[c].skip \/ now = Gone THEN Pass(call[c])
                ELSE [call[c] EXCEPT !.stage = "deciding", !.seen = now]
<1>1. call' = [call EXCEPT ![c] = r] /\ UNCHANGED <<disk, asks, calls, grep, delivered>>
  BY OfCall DEF Read, CallRecord
<1>2. /\ call[c].next \in DOMAIN Wants(c) /\ Is(c, "reading")
      /\ NextWant(c) \in Span /\ now \in Disk
  <2>1. Wants(c) \in Seq(Span) /\ call[c].next \in Nat \ {0}
    BY OfCall DEF Wants, Ask, CallRecord
  <2>2. call[c].next \in DOMAIN Wants(c) /\ Is(c, "reading") /\ NextWant(c) \in Span
    BY <2>1 DEF Read, NextWant
  <2> QED BY <2>2, OfCall DEF Span
<1> HIDE DEF now
<1>3. /\ r \in CallRecord /\ r.stage \in {"reading", "deciding"}
      /\ r.view = call[c].view /\ r.hits = call[c].hits /\ r.already = call[c].already
      /\ r.source = call[c].source /\ r.spare = call[c].spare
      /\ r.stage = "deciding" => r.next = call[c].next /\ r.seen = now /\ now # Gone
  <2>1. CASE r = Pass(call[c])
    BY <2>1, OfCall, PassKeeps
  <2>2. CASE r = [call[c] EXCEPT !.stage = "deciding", !.seen = now] /\ now # Gone
    BY <2>2, <1>2, OfCall DEF CallRecord
  <2> QED BY <2>1, <2>2
<1>4. r.stage = "deciding" => /\ r.next \in DOMAIN Wants(c)
                              /\ r.seen = disk[Wants(c)[r.next].path] /\ r.seen # Gone
  BY <1>2, <1>3 DEF now, NextWant
<1>5. \A e \in r.source \cup r.spare : e.content = disk[e.path]
  BY <1>2, <1>3, OfCall DEF Current, Is
<1> HIDE DEF r
<1> QED BY <1>1, <1>3, <1>4, <1>5, OfCall, OneCall

\* What a call finds to be known was sent.
LEMMA KnownWasSent ==
  ASSUME LedgerInv, NEW c \in Call, Is(c, "deciding")
  PROVE  Known(c) \in SUBSET (File \X Disk \X Nat) /\ Known(c) \subseteq delivered
<1> DEFINE path == NextWant(c).path
           now == IF asks[c].tool = "grep" THEN call[c].seen ELSE disk[path]
           served == Served(call[c].view, path, now)
           hits == Hits(call[c].hits, path, now)
<1>1. /\ call[c].view \in SUBSET Emission /\ call[c].hits \in SUBSET Emission /\ call[c].seen \in Disk
      /\ NextWant(c) \in Span
  <2>1. Wants(c) \in Seq(Span) /\ call[c].next \in DOMAIN Wants(c)
    BY OfCall DEF Wants, Ask, Current
  <2>2. NextWant(c) \in Span
    BY <2>1 DEF NextWant
  <2> QED BY <2>2, OfCall DEF CallRecord
<1>2. path \in File /\ now \in Disk /\ Lines(NextWant(c)) \subseteq Nat
  BY <1>1, OfCall DEF Span, Lines
<1>3. At(path, now, served) \subseteq delivered /\ served \subseteq Nat
  BY <1>1, OfCall, ServedWasSent
<1>4. asks[c].tool = "grep" /\ now # Gone => At(path, now, hits) \subseteq delivered
  BY <1>1, OfCall, HitsWereSent
<1>5. now # Gone \/ asks[c].tool # "grep"
  BY OfCall DEF Current
<1> QED
  BY <1>2, <1>3, <1>4, <1>5 DEF Known, At

\* A call leaves out only lines that its view names.
LEMMA DecideKeeps ==
  ASSUME LedgerInv, NEW c \in Call, Decide(c)
  PROVE  LedgerInv'
<1> DEFINE want == NextWant(c)
           known == Known(c)
           sent == {l \in Lines(want) : \A k \in known : k[3] # l}
           part == [path |-> want.path, content |-> call[c].seen, lines |-> sent]
           whole == [part EXCEPT !.lines = Lines(want)]
           passed == [Pass(call[c]) EXCEPT !.already = call[c].already \cup known]
           r == IF sent # {} THEN [passed EXCEPT !.source = call[c].source \cup {part}]
                ELSE IF IsExplore(c) /\ call[c].spare = {} THEN [passed EXCEPT !.spare = {whole}]
                ELSE passed
<1>1. Is(c, "deciding")
  BY DEF Decide
<1>2. /\ want \in Span /\ call[c].seen = disk[want.path]
      /\ call[c].seen \in Disk
  <2>1. Wants(c) \in Seq(Span) /\ call[c].next \in DOMAIN Wants(c)
    BY <1>1, OfCall DEF Wants, Ask, Current
  <2>2. NextWant(c) \in Span
    BY <2>1 DEF NextWant
  <2> QED BY <1>1, <2>2, OfCall DEF CallRecord, Current
<1>3. Lines(want) \in SUBSET Nat /\ sent \in SUBSET Nat
  BY <1>2 DEF Span, Lines
<1>4. /\ part \in Emission /\ part.content = disk[part.path]
      /\ whole \in Emission /\ whole.content = disk[whole.path]
  BY <1>2, <1>3 DEF Span, Emission
<1>5. known \in SUBSET (File \X Disk \X Nat) /\ known \subseteq delivered
  BY <1>1, KnownWasSent
<1>6. call' = [call EXCEPT ![c] = r] /\ UNCHANGED <<disk, asks, calls, grep, delivered>>
  BY DEF Decide
<1> HIDE DEF want, known, sent, part, whole
<1>7. /\ passed \in CallRecord /\ passed.stage = "reading"
      /\ passed.view = call[c].view /\ passed.hits = call[c].hits
      /\ passed.already = call[c].already \cup known
      /\ passed.source = call[c].source /\ passed.spare = call[c].spare
  <2>1. Pass(call[c]) \in CallRecord /\ Pass(call[c]).stage = "reading"
        /\ Pass(call[c]).view = call[c].view /\ Pass(call[c]).hits = call[c].hits
        /\ Pass(call[c]).source = call[c].source /\ Pass(call[c]).spare = call[c].spare
    BY OfCall, PassKeeps
  <2>2. call[c].already \cup known \in SUBSET (File \X Disk \X Nat)
    BY <1>5, OfCall DEF CallRecord
  <2> QED BY <2>1, <2>2 DEF CallRecord
<1> HIDE DEF passed
<1>8. /\ r \in CallRecord /\ r.stage = "reading"
      /\ r.view = call[c].view /\ r.hits = call[c].hits
      /\ r.already = call[c].already \cup known
      /\ r.source \cup r.spare \subseteq call[c].source \cup call[c].spare \cup {part, whole}
  <2>1. CASE r = [passed EXCEPT !.source = call[c].source \cup {part}]
    <3>1. call[c].source \cup {part} \in SUBSET Emission
      BY <1>4, OfCall DEF CallRecord
    <3> QED BY <1>7, <2>1, <3>1 DEF CallRecord
  <2>2. CASE r = [passed EXCEPT !.spare = {whole}]
    <3>1. {whole} \in SUBSET Emission
      BY <1>4
    <3> QED BY <1>7, <2>2, <3>1 DEF CallRecord
  <2>3. CASE r = passed
    BY <1>7, <2>3
  <2> QED BY <2>1, <2>2, <2>3
<1>9. \A e \in r.source \cup r.spare : e.content = disk[e.path]
  BY <1>1, <1>4, <1>8, OfCall DEF Current, Is
<1>10. r.already \subseteq delivered
  BY <1>5, <1>8, OfCall
<1> HIDE DEF r
<1> QED BY <1>6, <1>8, <1>9, <1>10, OfCall, OneCall

\* An explore left without source sends its spare source instead.
LEMMA FinishKeeps ==
  ASSUME LedgerInv, NEW c \in Call, Finish(c)
  PROVE  LedgerInv'
<1> DEFINE rest == {k \in call[c].already : \A e \in call[c].spare : k[1] # e.path}
           back == [call[c] EXCEPT !.stage = "replied", !.source = call[c].spare, !.already = rest]
           plain == [call[c] EXCEPT !.stage = "replied"]
           r == IF IsExplore(c) /\ call[c].source = {} /\ call[c].spare # {} THEN back ELSE plain
<1>1. call' = [call EXCEPT ![c] = r] /\ UNCHANGED <<disk, asks, calls, grep, delivered>>
  BY OfCall DEF Finish, CallRecord
<1>2. rest \in SUBSET (File \X Disk \X Nat) /\ rest \subseteq call[c].already
  BY OfCall DEF CallRecord
<1> HIDE DEF rest
<1>3. /\ r \in CallRecord /\ r.stage = "replied"
      /\ r.view = call[c].view /\ r.hits = call[c].hits /\ r.already \subseteq call[c].already
      /\ r.source \cup r.spare \subseteq call[c].source \cup call[c].spare
  <2>1. CASE r = back
    BY <1>2, <2>1, OfCall DEF CallRecord
  <2>2. CASE r = plain
    BY <2>2, OfCall DEF CallRecord
  <2> QED BY <2>1, <2>2
<1>4. \A e \in r.source \cup r.spare : e.content = disk[e.path]
  BY <1>3, OfCall DEF Current, Is, Finish
<1>5. r.already \subseteq delivered
  BY <1>3, OfCall
<1> HIDE DEF r
<1> QED BY <1>1, <1>3, <1>4, <1>5, OfCall, OneCall

\* What a record files under the fingerprint of now is what the call read.
LEMMA RecordKeeps ==
  ASSUME Bounds, LedgerInv, NEW c \in Call, Record(c)
  PROVE  LedgerInv'
<1>1. PICK kept \in SUBSET call[c].source :
        /\ IF asks[c].tool = "grep"
             THEN grep' = Merged(grep, Filed(kept)) /\ UNCHANGED calls
             ELSE /\ calls' = IF kept = {} /\ ~IsExplore(c) THEN calls
                              ELSE LastOf(Append(calls, Filed(kept)), MaxCalls)
                  /\ UNCHANGED grep
        /\ delivered' = delivered \cup UNION {At(e.path, e.content, e.lines) : e \in kept}
  BY DEF Record
<1> DEFINE r == [call[c] EXCEPT !.stage = "recorded"]
<1>2. call' = [call EXCEPT ![c] = r] /\ UNCHANGED <<disk, asks>>
  BY OfCall DEF Record, CallRecord
<1>3. /\ r \in CallRecord /\ r.stage = "recorded"
      /\ r.view = call[c].view /\ r.hits = call[c].hits /\ r.already = call[c].already
  BY OfCall DEF CallRecord
<1> HIDE DEF r
<1>4. Filed(kept) = kept /\ kept \in SUBSET Emission
  <2>1. call[c].source \in SUBSET Emission
    BY OfCall DEF CallRecord
  <2>2. ASSUME NEW e \in kept
        PROVE  [e EXCEPT !.content = disk[e.path]] = e
    <3>1. e \in Emission /\ e.content = disk[e.path]
      BY <2>1, OfCall DEF Current, Is, Record
    <3> QED BY <3>1 DEF Emission
  <2> QED BY <2>1, <2>2 DEF Filed
<1>5. Honest(kept, delivered') /\ delivered \subseteq delivered'
  BY <1>1 DEF Honest
<1>6. /\ Honest(Entries(calls), delivered') /\ Honest(grep, delivered')
      /\ Honest(r.view, delivered') /\ Honest(r.hits, delivered') /\ r.already \subseteq delivered'
  <2>1. r.already \subseteq delivered'
    BY <1>3, <1>5, OfCall
  <2> QED BY <1>3, <1>5, <2>1, OfCall, HonestGrows
<1>7. calls' \in Seq(SUBSET Emission) /\ Honest(Entries(calls'), delivered')
  <2>1. CASE calls' = calls
    BY <1>6, <2>1, OfCall
  <2>2. CASE calls' = LastOf(Append(calls, kept), MaxCalls)
    <3>1. Append(calls, kept) \in Seq(SUBSET Emission)
          /\ Entries(Append(calls, kept)) \subseteq Entries(calls) \cup kept
      BY <1>4, OfCall, AppendEntries
    <3>2. calls' \in Seq(SUBSET Emission) /\ Entries(calls') \subseteq Entries(calls) \cup kept
      BY <2>2, <3>1, LastOfPart DEF Bounds
    <3> QED BY <1>5, <1>6, <3>2 DEF Honest
  <2> QED BY <1>1, <1>4, <2>1, <2>2
<1>8. grep' \in SUBSET Emission /\ Honest(grep', delivered')
  <2>1. CASE grep' = grep
    BY <1>6, <2>1, OfCall
  <2>2. CASE grep' = Merged(grep, kept)
    <3>1. ASSUME NEW e \in kept, e.content # Gone
          PROVE  LET g == [e EXCEPT !.lines = e.lines \cup Hits(grep, e.path, e.content)]
                 IN g \in Emission /\ At(g.path, g.content, g.lines) \subseteq delivered'
      <4> DEFINE more == Hits(grep, e.path, e.content)
                 g == [e EXCEPT !.lines = e.lines \cup more]
      <4>1. more \subseteq Nat /\ At(e.path, e.content, more) \subseteq delivered'
        BY <1>6, <3>1, OfCall, HitsWereSent
      <4>2. At(e.path, e.content, e.lines) \subseteq delivered' /\ e \in Emission
        BY <1>4, <1>5, <3>1 DEF Honest
      <4> HIDE DEF more
      <4>3. /\ g \in Emission /\ g.path = e.path /\ g.content = e.content
            /\ g.lines = e.lines \cup more
        BY <4>1, <4>2 DEF Emission
      <4>4. At(g.path, g.content, g.lines) \subseteq delivered'
        BY <4>1, <4>2, <4>3 DEF At
      <4> QED BY <4>3, <4>4 DEF more
    <3>2. ASSUME NEW h \in grep'
          PROVE  h \in Emission /\ (h.content # Gone => At(h.path, h.content, h.lines) \subseteq delivered')
      <4>1. CASE h \in grep
        BY <1>6, <4>1, OfCall DEF Honest
      <4>2. CASE \E e \in kept : e.content # Gone
                   /\ h = [e EXCEPT !.lines = e.lines \cup Hits(grep, e.path, e.content)]
        BY <3>1, <4>2
      <4> QED BY <2>2, <4>1, <4>2 DEF Merged
    <3> QED BY <3>2 DEF Honest
  <2> QED BY <1>1, <1>4, <2>1, <2>2
<1> QED BY <1>2, <1>3, <1>5, <1>6, <1>7, <1>8, OneCall

\* A file that no call is at work on may change.
LEMMA EditKeeps ==
  ASSUME LedgerInv, NEW f \in File, ~Open(f), Edit(f)
  PROVE  LedgerInv'
<1>1. PICK now \in Disk : disk' = [disk EXCEPT ![f] = now]
  BY DEF Edit
<1>2. UNCHANGED <<asks, call, calls, grep, delivered>>
  BY DEF Edit
<1>3. Typed'
  BY <1>1, <1>2 DEF LedgerInv, Typed
<1>4. ASSUME NEW c \in Call
      PROVE  Current(c)'
  <2>1. Is(c, "deciding") => disk'[NextWant(c).path] = disk[NextWant(c).path]
    BY <1>1, OfCall DEF Open
  <2>2. ~Is(c, "recorded") => \A e \in call[c].source \cup call[c].spare : disk'[e.path] = disk[e.path]
    BY <1>1, OfCall DEF Open
  <2> QED BY <1>2, <2>1, <2>2, OfCall DEF Current, Is, NextWant, Wants
<1> QED BY <1>2, <1>3, <1>4 DEF LedgerInv, NeverFalse

-----------------------------------------------------------------------------
(* The theorem                                                               *)

\* The ledgers are honest when they are empty.
LEMMA StartsHonest ==
  ASSUME Bounds, Init
  PROVE  LedgerInv
<1>1. Fresh \in CallRecord
  BY DEF Fresh, CallRecord, Disk
<1>2. Typed
  BY <1>1 DEF Init, Typed, Bounds, Disk
<1>3. Entries(calls) = {}
  BY DEF Init, Entries
<1>4. \A c \in Call : /\ Honest(call[c].view, delivered) /\ Honest(call[c].hits, delivered)
                      /\ call[c].already \subseteq delivered /\ Current(c)
  BY DEF Init, Fresh, Honest, Current, Is
<1> QED BY <1>2, <1>3, <1>4 DEF LedgerInv, NeverFalse, Honest, Init

\* And every step keeps it so.
LEMMA StaysHonest ==
  ASSUME Bounds, LedgerInv, [CalmNext]_vars
  PROVE  LedgerInv'
<1>1. ASSUME NEW c \in Call, Step(c)
      PROVE  LedgerInv'
  BY <1>1, SubmitKeeps, StartKeeps, HoldKeeps, ReferKeeps, ReadKeeps, DecideKeeps, FinishKeeps, RecordKeeps DEF Step
<1>2. ASSUME NEW f \in File, ~Open(f), Edit(f)
      PROVE  LedgerInv'
  BY <1>2, EditKeeps
<1>3. CASE UNCHANGED vars
  BY <1>3 DEF vars, LedgerInv, Typed, Honest, Entries, Current, Is, NextWant, Wants, NeverFalse
<1> QED BY <1>1, <1>2, <1>3 DEF CalmNext

\* execution.rs: "never a false alreadySent".  As long as no file is edited
\* between a call's read of it and its record, what a reply leaves out as already
\* sent was sent, however many calls run, are remembered and are shown.
THEOREM CalmNeverFalse ==
  ASSUME Bounds
  PROVE  CalmSpec => []NeverFalse
<1>1. Init => LedgerInv
  BY StartsHonest
<1>2. LedgerInv /\ [CalmNext]_vars => LedgerInv'
  BY StaysHonest
<1>3. LedgerInv => NeverFalse
  BY DEF LedgerInv
<1> QED BY <1>1, <1>2, <1>3, PTL DEF CalmSpec
=============================================================================
