----------------------------- MODULE JudgeWalk -----------------------------
(***************************************************************************)
(* JudgeNavigator.Navigate and JudgeWalkStrategy: a Judge scores the leaves *)
(* of a document's contents, then the pages of the best leaves, and the     *)
(* pages that score high are the evidence; one more hop reads the leaves    *)
(* the evidence refers to.  Every pass asks its batches concurrently, and   *)
(* the first batch to fail fails the pass.  Navigation runs on the          *)
(* persisted pages when the document has them, and on the bodies of the     *)
(* parser's sections otherwise or when that fails.                          *)
(*                                                                          *)
(* A document is [toc, pages, secs, ordinal, refs]: page ranges of the      *)
(* contents' leaves, the pages stored, the sections with their page range   *)
(* and the chunks their body makes, whether the sections are numbered by    *)
(* position for want of pages, and the leaves each leaf's text mentions.    *)
(***************************************************************************)
EXTENDS Integers, FiniteSets, Sequences, SequencesExt, Ordering

CONSTANTS
  JWDocs,         \* documents a query may be about
  JWScores,       \* probabilities the Judge may give
  JWThreshold,    \* defaultNavThreshold
  JWMaxPages,     \* pages read in full
  JWCoarsePages,  \* pages gathered before the coarse pass
  JWMaxLeaves,    \* leaves read
  JWRunnerUps,    \* maxRunnerUps, what is reported beside the evidence
  JWSkimMax,      \* pages a document may have for every head to be skimmed
  JWLeafBatch,    \* leaves in one request
  JWRequest,      \* tokens of text in one request
  JWFaults        \* requests and reads that may fail (bounds the faults)

navMinEvidencePages == 2
HeadTokens == 1          \* of a page's head and of a whole page, scaled down
PageTokens == 2

ASSUME JudgeWalkAssumption ==
  /\ JWScores \subseteq Nat /\ 0 \in JWScores /\ JWThreshold \in Nat \ {0}
  /\ {JWMaxPages, JWCoarsePages, JWMaxLeaves, JWLeafBatch, JWRequest} \subseteq Nat \ {0}
  /\ {JWRunnerUps, JWSkimMax, JWFaults} \subseteq Nat

VARIABLES
  jwDoc,     \* the document
  jwPath,    \* pages, tree, or none yet
  jwPhase,   \* rank, coarse, read, follow, done, error
  jwWork,    \* batches a pass still waits for: [pass, items]
  jwErr,     \* a batch of the pass has failed
  jwFaults,  \* failures so far
  leafP,     \* score of each leaf
  headP,     \* score of each page head
  pageP,     \* score of each unit judged in full
  gathered,  \* [leaves, units] taken in rank order
  followed,  \* leaves read because the evidence names them
  evidence   \* units of the evidence, best first

jwPassVars == <<jwWork, jwErr>>
jwScoreVars == <<leafP, headP, pageP>>
jwVars == <<jwDoc, jwPath, jwPhase, jwWork, jwErr, jwFaults, leafP, headP, pageP,
            gathered, followed, evidence>>

NothingGathered == [leaves |-> <<>>, units |-> <<>>, seen |-> {}]

JWBlank ==
  /\ jwPath = "none" /\ jwPhase = "start" /\ jwWork = {} /\ jwErr = FALSE /\ jwFaults = 0
  /\ leafP = <<>> /\ headP = <<>> /\ pageP = <<>>
  /\ gathered = NothingGathered /\ followed = <<>> /\ evidence = <<>>
JWIdle == jwDoc = <<>> /\ JWBlank
JWInit == jwDoc \in JWDocs /\ JWBlank

-----------------------------------------------------------------------------
(***************************************************************************)
(* What navigation runs over.  A unit is [num, leaf, part]: the number it  *)
(* is cited by, its leaf and its place in the leaf's text.                 *)
(***************************************************************************)
Unit(num, leaf, part) == [num |-> num, leaf |-> leaf, part |-> part]

\* Leaves of the contents with a usable range; a parent stands for its children.
PersistedLeaves(d) == {i \in DOMAIN d.toc : d.toc[i].start > 0 /\ d.toc[i].end >= d.toc[i].start}
HasPersisted(d) == PersistedLeaves(d) # {} /\ d.pages # {}

JWLeaves(d, path) == IF path = "pages" THEN PersistedLeaves(d) ELSE DOMAIN d.secs

pagesInRange(d, i) ==
  LET nums == InOrder(d.pages \cap (d.toc[i].start .. d.toc[i].end), <)
  IN  [k \in DOMAIN nums |-> Unit(nums[k], i, 1)]

\* The chunks of a body are numbered through the section's page range.
chunkBody(d, i) ==
  LET sec == d.secs[i]
      span == IF sec.end - sec.start + 1 < 1 THEN 1 ELSE sec.end - sec.start + 1
      page(k) == sec.start + ((k - 1) * span) \div sec.chunks
  IN  [k \in 1..sec.chunks |-> Unit(IF page(k) > sec.end THEN sec.end ELSE page(k), i, k)]

loadPages(d, path, i) == IF path = "pages" THEN pagesInRange(d, i) ELSE chunkBody(d, i)

Taken(acc, u) ==
  IF u.num \in acc.seen \/ Len(acc.units) >= JWCoarsePages THEN acc
  ELSE [acc EXCEPT !.units = Append(@, u), !.seen = @ \cup {u.num}]

\* The units of the leaves in the order given, up to the coarse budget.
GatherLeaves(d, path, ranked) ==
  LET add(acc, i) ==
        IF Len(acc.leaves) >= JWMaxLeaves \/ Len(acc.units) >= JWCoarsePages THEN acc
        ELSE LET more == FoldLeft(Taken, acc, loadPages(d, path, i))
             IN  IF more.units = acc.units THEN acc ELSE [more EXCEPT !.leaves = Append(@, i)]
  IN  FoldLeft(add, NothingGathered, ranked)

allLeafPages(d) ==
  InOrder(UNION {ToSet(pagesInRange(d, i)) : i \in PersistedLeaves(d)},
          LAMBDA a, b : a.num < b.num \/ (a.num = b.num /\ a.leaf < b.leaf))

DistinctPages(units) ==
  SelectSeq(units, LAMBDA u : \A k \in DOMAIN units : units[k].num = u.num => units[k].leaf >= u.leaf)

-----------------------------------------------------------------------------
(***************************************************************************)
(* Batches, and ranking by score.                                          *)
(***************************************************************************)
LeafBatches(leaves) ==
  LET order == InOrder(leaves, <)
  IN  {[pass |-> "leaf", items |-> {order[k] : k \in {j \in DOMAIN order : (j - 1) \div JWLeafBatch = b}}] :
         b \in 0..((Len(order) - 1) \div JWLeafBatch)}

\* As many pages as the request takes, and at least one.
PageBatches(pass, units) ==
  LET cost == IF pass = "head" THEN HeadTokens ELSE PageTokens
      pack(acc, u) ==
        IF acc.items # {} /\ acc.used + cost > JWRequest
        THEN [out |-> acc.out \cup {[pass |-> pass, items |-> acc.items]}, items |-> {u}, used |-> cost]
        ELSE [acc EXCEPT !.items = @ \cup {u}, !.used = @ + cost]
      end == FoldLeft(pack, [out |-> {}, items |-> {}, used |-> 0], units)
  IN  IF end.items = {} THEN end.out ELSE end.out \cup {[pass |-> pass, items |-> end.items]}

\* sort.SliceStable by score, best first.
Ranked(items, score) ==
  LET order == InOrder(DOMAIN items, LAMBDA i, j :
                 score[items[i]] > score[items[j]] \/ (score[items[i]] = score[items[j]] /\ i < j))
  IN  [k \in DOMAIN order |-> items[order[k]]]

ByNumber(units) == SortSeq(units, LAMBDA a, b : a.num < b.num)

CoarseCut(units, score) == ByNumber(SubSeq(Ranked(units, score), 1, JWMaxPages))

\* Mutant: fewer than two pages are enough.
AboveOnly(scored, score) == SelectSeq(scored, LAMBDA u : score[u] >= JWThreshold)

\* Every page over the threshold, and the best ones when fewer than two are.
EvidenceOf(scored, score) ==
  LET above == SelectSeq(scored, LAMBDA u : score[u] >= JWThreshold)
      best == SubSeq(scored, 1, IF Len(scored) < navMinEvidencePages THEN Len(scored) ELSE navMinEvidencePages)
  IN  IF Len(above) < navMinEvidencePages THEN best ELSE above

\* The leaves the evidence names that were not read, in order, each once.
referencedLeaves(d, path, ev, read) ==
  LET named == FlattenSeq([k \in DOMAIN ev |-> IF ev[k].leaf \in DOMAIN d.refs THEN d.refs[ev[k].leaf] ELSE <<>>])
      add(acc, i) == IF i \in read \cup ToSet(acc) \/ i \notin JWLeaves(d, path) THEN acc ELSE Append(acc, i)
  IN  FoldLeft(add, <<>>, named)

ReferencedUnits(d, path, targets, seen) ==
  LET take(acc, u) ==
        IF u.num \in acc.seen \/ Len(acc.units) >= JWMaxPages THEN acc
        ELSE [units |-> Append(acc.units, u), seen |-> acc.seen \cup {u.num}]
  IN  FoldLeft(take, [units |-> <<>>, seen |-> seen],
               FlattenSeq([k \in DOMAIN targets |-> loadPages(d, path, targets[k])])).units

-----------------------------------------------------------------------------
Ask(phase, batches) == jwPhase' = phase /\ jwWork' = batches /\ jwErr' = FALSE

\* SkimAll, on persisted pages: the heads of a document neither small enough
\* to read whole nor too large to skim are scored beside the leaves.
Skims(d, path) ==
  /\ path = "pages"
  /\ Len(DistinctPages(allLeafPages(d))) > JWMaxPages
  /\ Len(DistinctPages(allLeafPages(d))) <= JWSkimMax

Begin(path) ==
  /\ jwPath' = path
  /\ leafP' = [i \in JWLeaves(jwDoc, path) |-> 0] /\ headP' = <<>> /\ pageP' = <<>>
  /\ gathered' = NothingGathered /\ followed' = <<>> /\ evidence' = <<>>
  /\ IF JWLeaves(jwDoc, path) = {} THEN Ask("done", {})
     ELSE Ask("rank", LeafBatches(JWLeaves(jwDoc, path))
            \cup IF Skims(jwDoc, path) THEN PageBatches("head", DistinctPages(allLeafPages(jwDoc))) ELSE {})

StartWalk ==
  /\ jwPhase = "start"
  /\ \/ HasPersisted(jwDoc) /\ Begin("pages") /\ UNCHANGED jwFaults
     \/ ~HasPersisted(jwDoc) /\ Begin("tree") /\ UNCHANGED jwFaults
     \/ /\ HasPersisted(jwDoc) /\ jwFaults < JWFaults   \* the contents or the pages cannot be read
        /\ jwFaults' = jwFaults + 1 /\ Begin("tree")
  /\ UNCHANGED jwDoc

\* A question the Judge leaves unanswered scores 0.
BatchScored == \E b \in jwWork : \E p \in [b.items -> JWScores] :
  /\ jwWork' = jwWork \ {b}
  /\ leafP' = IF b.pass = "leaf" THEN p @@ leafP ELSE leafP
  /\ headP' = IF b.pass = "head" THEN p @@ headP ELSE headP
  /\ pageP' = IF b.pass = "page" THEN p @@ pageP ELSE pageP
  /\ UNCHANGED <<jwDoc, jwPath, jwPhase, jwErr, jwFaults, gathered, followed, evidence>>

BatchFailed == \E b \in jwWork :
  /\ jwErr \/ jwFaults < JWFaults     \* the others are cancelled with the first
  /\ jwFaults' = IF jwErr THEN jwFaults ELSE jwFaults + 1
  /\ jwWork' = jwWork \ {b} /\ jwErr' = TRUE
  /\ UNCHANGED <<jwDoc, jwPath, jwPhase, leafP, headP, pageP, gathered, followed, evidence>>

PassOver(phase) == jwPhase = phase /\ jwWork = {} /\ ~jwErr

\* The pages path gives way to the section tree; there the error is returned.
WalkFails ==
  /\ jwPhase \in {"rank", "coarse", "read", "follow"} /\ jwWork = {} /\ jwErr
  /\ IF jwPath = "pages" THEN Begin("tree")
     ELSE jwPhase' = "error" /\ UNCHANGED <<jwPath, jwPassVars, jwScoreVars, gathered, followed, evidence>>
  /\ UNCHANGED <<jwDoc, jwFaults>>

ReadInFull(units) == Ask("read", PageBatches("page", units))

ChooseLeaves ==
  /\ PassOver("rank")
  /\ LET g == GatherLeaves(jwDoc, jwPath, Ranked(InOrder(JWLeaves(jwDoc, jwPath), <), leafP))
         headNum == [u \in ToSet(g.units) |-> headP[CHOOSE h \in DOMAIN headP : h.num = u.num]]
     IN  IF g.units = <<>> THEN Ask("done", {}) /\ gathered' = g
         ELSE IF Len(g.units) <= JWMaxPages THEN ReadInFull(g.units) /\ gathered' = g
         ELSE IF headP # <<>>
         THEN LET cut == CoarseCut(g.units, headNum)
              IN  ReadInFull(cut) /\ gathered' = [g EXCEPT !.units = cut]
         ELSE Ask("coarse", PageBatches("head", g.units)) /\ gathered' = g
  /\ UNCHANGED <<jwDoc, jwPath, jwFaults, jwScoreVars, followed, evidence>>

\* The body of a section is read from storage when its leaf is chosen or followed.
LoadFails ==
  /\ jwPath = "tree" /\ jwFaults < JWFaults
  /\ \/ PassOver("rank")
     \/ /\ PassOver("read")
        /\ referencedLeaves(jwDoc, jwPath, EvidenceOf(Ranked(gathered.units, pageP), pageP),
                            ToSet(gathered.leaves)) # <<>>
  /\ jwFaults' = jwFaults + 1 /\ jwPhase' = "error"
  /\ UNCHANGED <<jwDoc, jwPath, jwPassVars, jwScoreVars, gathered, followed, evidence>>

CoarsePassed ==
  /\ PassOver("coarse")
  /\ LET cut == CoarseCut(gathered.units, headP)
     IN  ReadInFull(cut) /\ gathered' = [gathered EXCEPT !.units = cut]
  /\ UNCHANGED <<jwDoc, jwPath, jwFaults, jwScoreVars, followed, evidence>>

PagesRead ==
  /\ PassOver("read")
  /\ LET ev == EvidenceOf(Ranked(gathered.units, pageP), pageP)
         targets == referencedLeaves(jwDoc, jwPath, ev, ToSet(gathered.leaves))
         more == ReferencedUnits(jwDoc, jwPath, targets, gathered.seen)
     IN  /\ evidence' = ev /\ followed' = targets
         /\ gathered' = [gathered EXCEPT !.units = Ranked(@, pageP) \o more]
         /\ IF more = <<>> THEN Ask("done", {}) ELSE Ask("follow", PageBatches("page", more))
  /\ UNCHANGED <<jwDoc, jwPath, jwFaults, jwScoreVars>>

ReferencesRead ==
  /\ PassOver("follow")
  /\ evidence' = EvidenceOf(Ranked(gathered.units, pageP), pageP)
  /\ Ask("done", {})
  /\ UNCHANGED <<jwDoc, jwPath, jwFaults, jwScoreVars, gathered, followed>>

JWNext ==
  \/ StartWalk \/ BatchScored \/ BatchFailed \/ WalkFails
  \/ ChooseLeaves \/ LoadFails \/ CoarsePassed \/ PagesRead \/ ReferencesRead

JWEnded == jwPhase \in {"done", "error"}

\* SelectedIDs: the sections the evidence lies in; CitedPages: its pages.
SelectedIDs ==
  IF jwPath = "pages"
  THEN {i \in DOMAIN jwDoc.secs : \E u \in ToSet(evidence) :
          jwDoc.secs[i].start <= u.num /\ u.num <= jwDoc.secs[i].end}
  ELSE {u.leaf : u \in ToSet(evidence)}

CitedPages ==
  IF jwPath = "pages" THEN {u.num : u \in ToSet(evidence)}
  ELSE IF jwDoc.ordinal THEN {}
  ELSE UNION {jwDoc.secs[i].start .. jwDoc.secs[i].end : i \in SelectedIDs}

\* Judged pages that missed the evidence, best first and only so many, for a
\* caller who asks for more.
runnerUps ==
  LET missed == SelectSeq(Ranked(gathered.units, pageP), LAMBDA u : u \notin ToSet(evidence))
  IN  SubSeq(missed, 1, Smaller(Len(missed), JWRunnerUps))

-----------------------------------------------------------------------------
\* When navigation is over the evidence holds the best of what was judged: a
\* page left out scores below the threshold and below every page kept, at
\* least two pages are kept when two were read, and the runner-ups are the
\* best of the rest, as many as may be reported.
EvidenceIsBest ==
  jwPhase = "done" /\ gathered.units # <<>> =>
    LET ev == ToSet(evidence)
        judged == DOMAIN pageP
    IN  /\ ev \subseteq judged /\ judged = ToSet(gathered.units)
        /\ \A u \in judged \ ev : pageP[u] < JWThreshold /\ \A e \in ev : pageP[u] <= pageP[e]
        /\ Cardinality(ev) >= IF Cardinality(judged) < 2 THEN Cardinality(judged) ELSE 2
        /\ ToSet(runnerUps) \subseteq judged \ ev
        /\ Cardinality(ToSet(runnerUps)) = Smaller(JWRunnerUps, Cardinality(judged \ ev))
        /\ \A u \in (judged \ ev) \ ToSet(runnerUps), r \in ToSet(runnerUps) : pageP[u] <= pageP[r]

\* What navigation cites is in the document and was read within its budgets:
\* no page number is judged twice, the first read and the referenced pages
\* stay within MaxPages each, every page belongs to a leaf that was chosen or
\* followed, and a document numbered by position cites no pages.
CitationsWereRead ==
  jwPhase = "done" /\ jwPath # "none" =>
    /\ \A u, v \in DOMAIN pageP : u.num = v.num => u = v
    /\ Len(gathered.units) <= 2 * JWMaxPages
    /\ \A u \in DOMAIN pageP : u.leaf \in ToSet(gathered.leaves) \cup ToSet(followed)
    /\ jwPath = "pages" => CitedPages \subseteq jwDoc.pages
    /\ jwPath = "tree" /\ jwDoc.ordinal => CitedPages = {}
    /\ jwPath = "tree" /\ ~jwDoc.ordinal => \A u \in ToSet(evidence) : u.num \in CitedPages

\* The judge walk keeps the best of what it judged and cites only what it
\* read (JudgeNavigator.Navigate).
JudgeWalkSound == EvidenceIsBest /\ CitationsWereRead
=============================================================================
