------------------------------ MODULE TocBuild ------------------------------
(***************************************************************************)
(* TOCBuilder.Build: find the contents pages of a document, take its       *)
(* entries, place each entry on the page its section starts on, repair     *)
(* what is impossible, derive page ranges, and split leaves that are too   *)
(* large.  A Judge (when there is one) answers every question; each step   *)
(* has its own way out when the Judge fails.                               *)
(*                                                                         *)
(* A contents tree is a sequence of nodes in preorder, [title, struct,     *)
(* depth, start, end, gen]: depth 1 is a root, a node's parent is the last *)
(* earlier node one level up, page 0 is unknown, gen counts the splits     *)
(* above the node.  A document is [last, blank, judge, minimal, listed,    *)
(* entries, prefixes, hits, heads, over]: its pages, which are blank, how it *)
(* is built, the pages that look like contents, the entries each page      *)
(* parses to, the pages each title is found on, a contents page inside the *)
(* document, the lines that look like headings, and the size of a leaf     *)
(* that is split.  What a model or the Judge replies is arbitrary.         *)
(***************************************************************************)
EXTENDS Ordering, SequencesExt

CONSTANTS
  TocDocs,         \* documents to build
  TocReplies,      \* entries the generative extractor may return: [struct, title, start]
  TocCheckPages,   \* pages searched for a contents page
  TocFirstPass,    \* pages of the first pass with a minimal context
  TocScores,       \* scores of a heading; those over TocThreshold are accepted
  TocThreshold,
  TocMaxPerLeaf,   \* maxCandidatesPerLeaf
  TocGenerations,  \* splitGenerations
  TocMaxDepth,     \* splitMaxDepth
  TocFaults        \* Judge requests that may fail (bounds the faults)

resolverAttempts == 2
minContentsEntries == 3
splitMinEntries == 2
splitRunningHeaderRepeats == 3

ASSUME TocAssumption ==
  /\ {TocCheckPages, TocFirstPass, TocMaxPerLeaf, TocGenerations, TocMaxDepth} \subseteq Nat \ {0}
  /\ TocScores \subseteq Nat /\ TocThreshold \in Nat /\ TocFaults \in Nat

VARIABLES
  tocDoc,       \* the document
  tocPhase,     \* detect, detect2, detectGen, extract, extractGen, resolve, repair, split, done, none, error
  tocPages,     \* contents pages found
  tocNodes,     \* the tree
  tocPrinted,   \* pages printed in the contents, by leaf key
  tocTries,     \* attempts to place the leaves
  tocAt,        \* next node of the splitter's walk
  tocDegraded,  \* Usage.Degraded: steps recorded as having fallen back
  tocFell,      \* steps whose Judge request failed
  tocByJudge,   \* the entries were taken by the Judge
  tocOrig       \* the tree before leaves were split

tocVars == <<tocDoc, tocPhase, tocPages, tocNodes, tocPrinted, tocTries, tocAt,
             tocDegraded, tocFell, tocByJudge, tocOrig>>

TocBlank ==
  /\ tocPhase = "detect" /\ tocPages = {} /\ tocNodes = <<>> /\ tocPrinted = <<>>
  /\ tocTries = 0 /\ tocAt = 1 /\ tocDegraded = {} /\ tocFell = {}
  /\ tocByJudge = FALSE /\ tocOrig = <<>>
TocIdle == tocDoc = <<>> /\ TocBlank
TocInit == tocDoc \in TocDocs /\ TocBlank

-----------------------------------------------------------------------------
(***************************************************************************)
(* The tree.                                                               *)
(***************************************************************************)
Largest(S) == CHOOSE x \in S : \A y \in S : y <= x
Least(S) == CHOOSE x \in S : \A y \in S : x <= y

TocNode(title, struct, depth, start, gen) ==
  [title |-> title, struct |-> struct, depth |-> depth, start |-> start, end |-> 0, gen |-> gen]

ParentOf(ns, i) ==
  IF ns[i].depth = 1 THEN 0 ELSE Largest({j \in 1..(i - 1) : ns[j].depth = ns[i].depth - 1})
KidsOf(ns, p) ==
  {i \in DOMAIN ns : i > p /\ ns[i].depth = (IF p = 0 THEN 1 ELSE ns[p].depth + 1) /\ ParentOf(ns, i) = p}
IsTocLeaf(ns, i) == \A k \in {i + 1} \cap DOMAIN ns : ns[k].depth <= ns[i].depth
TocLeaves(ns) == {i \in DOMAIN ns : IsTocLeaf(ns, i)}

\* An entry goes under the last one its depth allows; an entry without a
\* title is dropped.
assembleHierarchy(flat) ==
  LET titled == SelectSeq(flat, LAMBDA e : e.title # "")
      depthOf(e) == IF e.struct = <<>> THEN 1 ELSE Len(e.struct)
      add(ns, e) == Append(ns, TocNode(e.title, e.struct,
                      Smaller(depthOf(e), IF ns = <<>> THEN 1 ELSE Last(ns).depth + 1), e.start, 0))
  IN  FoldLeft(add, <<>>, titled)

\* Questions and printed pages are matched to leaves by title; repeats of a
\* title share one further key.
TitleKeys(titles) ==
  [k \in DOMAIN titles |-> <<titles[k], \E j \in 1..(k - 1) : titles[j] = titles[k]>>]
LeafKeys(ns) ==
  LET order == Ascending(TocLeaves(ns))
      keys == TitleKeys([k \in DOMAIN order |-> ns[order[k]].title])
  IN  [i \in TocLeaves(ns) |-> keys[CHOOSE k \in DOMAIN order : order[k] = i]]

-----------------------------------------------------------------------------
(***************************************************************************)
(* Entries of a contents page.                                             *)
(***************************************************************************)
Real(es) == SelectSeq(es, LAMBDA e : ~e.container)

\* A repeated entry is dropped, and one without a page that starts another's title.
dedupEntries(es) ==
  LET first == SelectSeq([k \in DOMAIN es |-> [e |-> es[k], at |-> k]],
                 LAMBDA x : x.e.container \/ \A j \in 1..(x.at - 1) :
                   es[j].container \/ <<es[j].title, es[j].printed>> # <<x.e.title, x.e.printed>>)
      kept == SelectSeq(first, LAMBDA x : x.e.container \/ x.e.printed # 0
                \/ \A y \in ToSet(first) : y.e.container \/ <<x.e.title, y.e.title>> \notin tocDoc.prefixes)
  IN  [k \in DOMAIN kept |-> kept[k].e]

parseContentsEntries(pages) ==
  dedupEntries(FlattenSeq([k \in DOMAIN pages |-> tocDoc.entries[pages[k]]]))

dropEmptyContainers(es) ==
  LET kept == SelectSeq([k \in DOMAIN es |-> [e |-> es[k], at |-> k]],
                LAMBDA x : x.e.container => x.at < Len(es) /\ ~es[x.at + 1].container)
  IN  [k \in DOMAIN kept |-> kept[k].e]

\* The dotted number of each entry, counted level by level.
Numbered(es) ==
  LET count(acc, e) ==
        LET c == [i \in 1..e.depth |->
                    IF i = e.depth THEN (IF i <= Len(acc.c) THEN acc.c[i] ELSE 0) + 1
                    ELSE IF i <= Len(acc.c) THEN acc.c[i] ELSE 1]
        IN  [c |-> c, out |-> Append(acc.out, [struct |-> c, title |-> e.title, start |-> 0])]
  IN  FoldLeft(count, [c |-> <<>>, out |-> <<>>], es).out

PrintedPages(es) ==
  LET paged == SelectSeq(es, LAMBDA e : ~e.container /\ e.printed > 0)
      keys == TitleKeys([k \in DOMAIN paged |-> paged[k].title])
  IN  [key \in ToSet(keys) |-> paged[Largest({k \in DOMAIN keys : keys[k] = key})].printed]

-----------------------------------------------------------------------------
(***************************************************************************)
(* Placing the leaves.                                                     *)
(***************************************************************************)
findCandidatePages(title) == IF title \in DOMAIN tocDoc.hits THEN tocDoc.hits[title] ELSE {}

\* The pages asked about for one leaf, among "within".
LeafCandidates(n, within, exclude) ==
  LET hits == findCandidatePages(n.title) \cap within
      clear == hits \ exclude
      found == IF clear = {} /\ n.start = 0 THEN hits ELSE clear
      asked == IF n.start > 0 /\ n.start \notin exclude THEN found \cup {n.start} ELSE found
  IN  IF Cardinality(asked) <= TocMaxPerLeaf THEN asked
      ELSE IF n.start > 0 THEN {n.start} ELSE {}

collectResolveClaims(ns, within, exclude) ==
  LET keys == LeafKeys(ns)
      cands(key) == UNION {LeafCandidates(ns[i], within, exclude) : i \in {j \in DOMAIN keys : keys[j] = key}}
  IN  [key \in {k \in ToSet(keys) : cands(k) # {}} |-> cands(key)]

Unanswered == -1
\* For each key the page that scored best, 0 when none passes, or no answer.
resolvePagesJudge(claims) ==
  {r \in [DOMAIN claims -> UNION {claims[k] : k \in DOMAIN claims} \cup {0, Unanswered}] :
     \A k \in DOMAIN claims : r[k] \in claims[k] \cup {0, Unanswered}}

applyResolvedPages(ns, resolved) ==
  LET keys == LeafKeys(ns)
      moved(i) == i \in DOMAIN keys /\ keys[i] \in DOMAIN resolved /\ resolved[keys[i]] # Unanswered
  IN  [i \in DOMAIN ns |-> IF moved(i) THEN [ns[i] EXCEPT !.start = resolved[keys[i]]] ELSE ns[i]]

-----------------------------------------------------------------------------
(***************************************************************************)
(* Repair and page ranges.                                                 *)
(***************************************************************************)

\* Positions to clear so that the rest, a longest run found left to right,
\* never goes back a page.
outOfOrder(starts) ==
  LET longest[a \in DOMAIN starts] ==
        LET before == {b \in 1..(a - 1) : starts[b] <= starts[a]}
        IN  1 + IF before = {} THEN 0 ELSE Largest({longest[b] : b \in before})
      chain[a \in DOMAIN starts] ==
        LET before == {b \in 1..(a - 1) : starts[b] <= starts[a] /\ longest[b] = longest[a] - 1}
        IN  {a} \cup IF before = {} THEN {} ELSE chain[Least(before)]
      best == Least({a \in DOMAIN starts : \A b \in DOMAIN starts : longest[b] <= longest[a]})
  IN  IF starts = <<>> THEN {} ELSE DOMAIN starts \ chain[best]

ClearStarts(ns, cleared) == [i \in DOMAIN ns |-> IF i \in cleared THEN [ns[i] EXCEPT !.start = 0] ELSE ns[i]]

PlacedIn(ns, group) == {i \in group : ns[i].start > 0}
OutOfOrderIn(ns, group) ==
  LET placed == Ascending(PlacedIn(ns, group))
  IN  {placed[k] : k \in outOfOrder([k \in DOMAIN placed |-> ns[placed[k]].start])}

\* The page of the nearest placed node above.
FloorOf(ns) ==
  LET floor[i \in 0..Len(ns)] ==
        IF i = 0 THEN 0
        ELSE IF ns[i].start > 0 THEN ns[i].start ELSE floor[ParentOf(ns, i)]
  IN  floor

\* Level by level: clear what starts on a contents page or before its
\* parent, then what is out of order among its siblings.
repairStarts(ns) ==
  LET level(t, depth) ==
        LET here == {i \in DOMAIN t : t[i].depth = depth /\ t[i].start > 0}
            early == {i \in here : t[i].start \in tocPages \/ t[i].start < FloorOf(t)[ParentOf(t, i)]}
            kept == ClearStarts(t, early)
        IN  ClearStarts(kept, UNION {OutOfOrderIn(kept, KidsOf(kept, ParentOf(kept, i))) : i \in here})
  IN  FoldLeft(level, ns, [d \in 1..Largest({ns[i].depth : i \in DOMAIN ns}) |-> d])

\* Leaves still unplaced take the page printed for them, shifted by the
\* median difference between printed and found pages.
calibrateFromPrinted(ns) ==
  LET keys == LeafKeys(ns)
      listed == {i \in DOMAIN keys : keys[i] \in DOMAIN tocPrinted}
      known == Ascending(PlacedIn(ns, listed))
      shift(i) == ns[i].start - tocPrinted[keys[i]]
      offsets == SortSeq([k \in DOMAIN known |-> shift(known[k])], <)
      median == offsets[(Len(offsets) \div 2) + 1]
      page(i) == tocPrinted[keys[i]] + median
      placeable(i) == i \in listed /\ ns[i].start = 0 /\ page(i) \in 1..tocDoc.last
  IN  IF Len(known) < 2 THEN ns
      ELSE [i \in DOMAIN ns |-> IF placeable(i) THEN [ns[i] EXCEPT !.start = page(i)] ELSE ns[i]]

\* An unplaced parent starts where its first placed child does.
inheritParentStarts(ns) ==
  LET start[i \in DOMAIN ns] ==
        LET below == {start[k] : k \in KidsOf(ns, i)} \ {0}
        IN  IF ns[i].start > 0 \/ below = {} THEN ns[i].start ELSE Least(below)
  IN  [i \in DOMAIN ns |-> [ns[i] EXCEPT !.start = start[i]]]

\* A node ends before the next sibling that starts later, or where its
\* parent ends, and never before its own children do.
deriveEndPagesIn(ns, ceiling) ==
  LET next(i) == {j \in KidsOf(ns, ParentOf(ns, i)) : j > i /\ ns[j].start >= ns[i].start}
      own[i \in 0..Len(ns)] ==
        IF i = 0 THEN ceiling
        ELSE LET bound == IF next(i) = {} THEN own[ParentOf(ns, i)]
                          ELSE IF ns[Least(next(i))].start = ns[i].start THEN ns[i].start
                          ELSE ns[Least(next(i))].start - 1
             IN  IF ns[i].start = 0 THEN own[ParentOf(ns, i)]
                 ELSE IF bound < ns[i].start THEN ns[i].start ELSE bound
      end[i \in DOMAIN ns] ==
        Largest({IF ns[i].start > 0 THEN own[i] ELSE 0} \cup {end[k] : k \in KidsOf(ns, i)})
  IN  [i \in DOMAIN ns |-> [ns[i] EXCEPT !.end = end[i]]]

deriveEndPages(ns) == deriveEndPagesIn(inheritParentStarts(ns), tocDoc.last)

-----------------------------------------------------------------------------
(***************************************************************************)
(* Splitting a leaf.                                                       *)
(***************************************************************************)
SplitMax(leaf) ==
  LET half == (leaf.end - leaf.start + 1) \div 2 IN IF half < splitMinEntries THEN splitMinEntries ELSE half

sortByStart(subs) == SortSeq(subs, LAMBDA a, b : a.start < b.start)

capSubLeaves(subs, leaf) ==
  IF Len(subs) <= SplitMax(leaf) THEN subs
  ELSE FirstN(Distinct(subs, LAMBDA s : s.start), SplitMax(leaf))

LeafPages(leaf) == {p \in 1..tocDoc.last : leaf.start <= p /\ p <= leaf.end}

\* Pages with the shape of a contents page.
prefilterTOC(pages) == pages \cap tocDoc.listed

\* A page inside the leaf with a contents of its own.
nestedContents(leaf) ==
  LET with == {p \in prefilterTOC(LeafPages(leaf)) : Len(Real(dedupEntries(tocDoc.entries[p]))) >= 3}
  IN  IF with = {} THEN 0 ELSE Least(with)

Sub(title, start) == [title |-> title, start |-> start]

\* The entries kept (the leaf's own title is none of them), where they are
\* placed, within the leaf.
subLeavesFromContents(leaf, keep, resolved) ==
  LET titles == SelectSeq(keep, LAMBDA e : ~e.container /\ e.title # leaf.title)
      keys == TitleKeys([k \in DOMAIN titles |-> titles[k].title])
      at(k) == IF keys[k] \in DOMAIN resolved THEN resolved[keys[k]] ELSE 0
      subs == [k \in DOMAIN titles |-> Sub(titles[k].title, at(k))]
      placed == SelectSeq(subs, LAMBDA s : leaf.start <= s.start /\ s.start <= leaf.end)
  IN  IF Len(titles) < splitMinEntries THEN <<>> ELSE capSubLeaves(sortByStart(placed), leaf)

\* A line repeated on three pages of the leaf is a running header.
headingCandidates(leaf) ==
  LET inside == SelectSeq(tocDoc.heads, LAMBDA h : h.start \in LeafPages(leaf))
      pagesOf(t) == {h.start : h \in {x \in ToSet(inside) : x.title = t}}
  IN  SelectSeq(inside, LAMBDA h : Cardinality(pagesOf(h.title)) < splitRunningHeaderRepeats)

\* The headings the Judge accepts, best first, one per page and per title.
subLeavesFromHeadings(leaf, cands, score) ==
  LET order == StableByScore([k \in DOMAIN cands |-> k], LAMBDA k : score[k])
      accepted == SelectSeq(order, LAMBDA k : score[k] > TocThreshold /\ cands[k].title # leaf.title)
      add(acc, k) ==
        IF Len(acc) >= SplitMax(leaf)
           \/ \E s \in ToSet(acc) : s.start = cands[k].start \/ s.title = cands[k].title
        THEN acc ELSE Append(acc, cands[k])
  IN  sortByStart(FoldLeft(add, <<>>, accepted))

\* Mutant: what precedes the first sub-leaf is left out.
SplitWithoutLead(leaf, found) ==
  deriveEndPagesIn([j \in DOMAIN found |->
    TocNode(found[j].title, Append(leaf.struct, j), 1, found[j].start, leaf.gen + 1)], leaf.end)

\* What precedes the first sub-leaf keeps the leaf's title.
SplitLeaf(leaf, found) ==
  LET subs == IF found[1].start > leaf.start THEN <<Sub(leaf.title, leaf.start)>> \o found ELSE found
  IN  deriveEndPagesIn([j \in DOMAIN subs |->
        TocNode(subs[j].title, Append(leaf.struct, j), 1, subs[j].start, leaf.gen + 1)], leaf.end)

Under(leaf, subs) == [j \in DOMAIN subs |-> [subs[j] EXCEPT !.depth = leaf.depth + 1]]

\* NodeID: the numbers on the way down, a position where one is missing.
stampNodeIDs(ns) ==
  LET place(i) == Cardinality({j \in KidsOf(ns, ParentOf(ns, i)) : j <= i})
      base(i) == IF ns[i].struct = <<>> THEN <<-place(i)>> ELSE ns[i].struct
      id[i \in 0..Len(ns)] == IF i = 0 THEN <<>> ELSE Append(id[ParentOf(ns, i)], base(i))
  IN  [i \in DOMAIN ns |-> id[i]]

-----------------------------------------------------------------------------
JudgeFault(step) == Cardinality(tocFell) < TocFaults /\ tocFell' = tocFell \cup {step}
NoFault == UNCHANGED tocFell
tocRest == <<tocDoc, tocPrinted, tocTries, tocAt, tocByJudge, tocOrig>>

TextPages == {p \in 1..Smaller(TocCheckPages, tocDoc.last) : p \notin tocDoc.blank}
FirstPages == {p \in TextPages : Cardinality({q \in TextPages : q <= p}) <= TocFirstPass}

\* The pages of one pass: with a minimal context only those that look like
\* a contents page, the first few before the rest.
DetectPass ==
  IF ~tocDoc.minimal THEN TextPages
  ELSE prefilterTOC(IF tocPhase = "detect" THEN FirstPages ELSE TextPages \ FirstPages)

detectTOCPagesJudge ==
  /\ tocPhase \in {"detect", "detect2"} /\ tocDoc.judge
  /\ \E found \in SUBSET DetectPass :
       /\ tocPages' = found
       /\ tocPhase' = IF tocPhase = "detect" /\ tocDoc.minimal /\ found = {} THEN "detect2" ELSE "extract"
  /\ NoFault /\ UNCHANGED <<tocRest, tocNodes, tocDegraded>>

\* The failure is logged, not recorded; the generative detector takes over.
DetectFails ==
  /\ tocPhase \in {"detect", "detect2"} /\ tocDoc.judge /\ DetectPass # {}
  /\ JudgeFault("detect") /\ tocPhase' = "detectGen"
  /\ UNCHANGED <<tocRest, tocPages, tocNodes, tocDegraded>>

\* Page by page until a call fails: any of the pages may be found.
detectTOCPages ==
  /\ tocPhase = "detectGen" \/ (tocPhase = "detect" /\ ~tocDoc.judge)
  /\ tocPages' \in SUBSET TextPages /\ tocPhase' = "extract"
  /\ NoFault /\ UNCHANGED <<tocRest, tocNodes, tocDegraded>>

ByJudge == tocDoc.judge /\ tocPages # {}
Entries == parseContentsEntries(Ascending(tocPages))

extractFromTOCPagesJudge ==
  /\ tocPhase = "extract" /\ ByJudge /\ Len(Real(Entries)) >= minContentsEntries
  /\ \E no \in SUBSET {k \in DOMAIN Entries : ~Entries[k].container} :
       LET idx == SelectSeq([k \in DOMAIN Entries |-> k], LAMBDA k : k \notin no)
           confirmed == [k \in DOMAIN idx |-> Entries[idx[k]]]
           kept == dropEmptyContainers(confirmed)
       IN  IF Len(Real(confirmed)) < minContentsEntries
           THEN tocPhase' = "extractGen" /\ UNCHANGED <<tocNodes, tocPrinted, tocByJudge>>
           ELSE /\ tocNodes' = assembleHierarchy(Numbered(kept))
                /\ tocPrinted' = PrintedPages(kept)
                /\ tocByJudge' = TRUE /\ tocPhase' = "resolve"
  /\ NoFault /\ UNCHANGED <<tocDoc, tocPages, tocTries, tocAt, tocDegraded, tocOrig>>

ExtractFails ==
  /\ tocPhase = "extract" /\ ByJudge /\ Len(Real(Entries)) >= minContentsEntries
  /\ JudgeFault("extract") /\ tocDegraded' = tocDegraded \cup {"extract"}
  /\ tocPhase' = "extractGen"
  /\ UNCHANGED <<tocRest, tocPages, tocNodes>>

Generative == tocPhase = "extractGen"
  \/ (tocPhase = "extract" /\ ~(ByJudge /\ Len(Real(Entries)) >= minContentsEntries))

\* extractFromTOCPages and generateNoTOC ask different prompts for the same
\* list; a reply that does not parse is an empty list.
extractGenerative == \E flat \in TocReplies :
  /\ Generative
  /\ tocNodes' = assembleHierarchy(flat)
  /\ tocPhase' = IF tocNodes' = <<>> THEN "none" ELSE "resolve"
  /\ NoFault /\ UNCHANGED <<tocRest, tocPages, tocDegraded>>

GenerationFails ==
  /\ Generative /\ tocPhase' = "error"
  /\ UNCHANGED <<tocRest, tocPages, tocNodes, tocDegraded, tocFell>>

resolvePages ==
  /\ tocPhase = "resolve" /\ tocDoc.judge
  /\ \E resolved \in resolvePagesJudge(collectResolveClaims(tocNodes, 1..tocDoc.last, tocPages)) :
       tocNodes' = applyResolvedPages(tocNodes, resolved)
  /\ tocPhase' = "repair"
  /\ NoFault /\ UNCHANGED <<tocRest, tocPages, tocDegraded>>

\* Tried again, unless the context has ended; then the pages extraction
\* gave are kept, and that is recorded.
ResolveFails ==
  /\ tocPhase = "resolve" /\ tocDoc.judge
  /\ collectResolveClaims(tocNodes, 1..tocDoc.last, tocPages) # <<>>
  /\ tocTries > 0 \/ Cardinality(tocFell) < TocFaults
  /\ tocFell' = tocFell \cup {"resolve"}
  /\ tocTries' = tocTries + 1
  /\ \/ tocTries' < resolverAttempts /\ UNCHANGED <<tocPhase, tocDegraded>>
     \/ tocPhase' = "repair" /\ tocDegraded' = tocDegraded \cup {"resolve"}
  /\ UNCHANGED <<tocDoc, tocPages, tocNodes, tocPrinted, tocAt, tocByJudge, tocOrig>>

\* Without a Judge a model is asked, concurrently, whether each title opens
\* its page: a "no" clears the page, a failed call keeps it, a page the
\* document does not have is cleared unasked.
verifyTitlesConcurrent ==
  /\ tocPhase = "resolve" /\ ~tocDoc.judge
  /\ LET placed == PlacedIn(tocNodes, DOMAIN tocNodes)
         outside == {i \in placed : tocNodes[i].start > tocDoc.last}
     IN  \E no \in SUBSET placed : tocNodes' = ClearStarts(tocNodes, no \cup outside)
  /\ tocPhase' = "repair"
  /\ NoFault /\ UNCHANGED <<tocRest, tocPages, tocDegraded>>

repairAndDerive ==
  /\ tocPhase = "repair"
  /\ tocNodes' = deriveEndPages(repairStarts(calibrateFromPrinted(repairStarts(tocNodes))))
  /\ tocOrig' = tocNodes'
  /\ tocPhase' = IF tocDoc.judge /\ tocDoc.over > 0 THEN "split" ELSE "done"
  /\ UNCHANGED <<tocDoc, tocPages, tocPrinted, tocTries, tocAt, tocByJudge, tocDegraded, tocFell>>

\* The leaf the splitter's walk has come to is one it splits.
Splittable(n) ==
  /\ IsTocLeaf(tocNodes, tocAt) /\ n.depth < TocMaxDepth /\ n.gen < TocGenerations
  /\ n.start > 0 /\ n.end >= n.start /\ n.end - n.start + 1 > tocDoc.over

Passed == tocNodes' = tocNodes /\ tocAt' = tocAt + 1
Inserted(leaf, found) ==
  /\ tocNodes' = SubSeq(tocNodes, 1, tocAt) \o Under(leaf, SplitLeaf(leaf, found))
                 \o SubSeq(tocNodes, tocAt + 1, Len(tocNodes))
  /\ tocAt' = tocAt + 1

\* The contents inside the leaf when they place two entries or more, and
\* the headings of its pages otherwise.
splitLargeLeaves ==
  /\ tocPhase = "split" /\ tocAt <= Len(tocNodes)
  /\ LET leaf == tocNodes[tocAt]
         heads == headingCandidates(leaf)
         fromHeads == {subLeavesFromHeadings(leaf, heads, s) : s \in [DOMAIN heads -> TocScores]}
         index == nestedContents(leaf)
         es == IF index = 0 THEN <<>> ELSE dedupEntries(tocDoc.entries[index])
         ns == [k \in DOMAIN es |-> TocNode(es[k].title, <<>>, 1, 0, 0)]
         claims == collectResolveClaims(ns, LeafPages(leaf), {index})
         fromContents == {subLeavesFromContents(leaf, es, r) : r \in resolvePagesJudge(claims)}
     IN  IF ~Splittable(leaf) \/ Cardinality(LeafPages(leaf)) < 2 THEN Passed
         ELSE \/ \E found \in fromContents : Len(found) >= splitMinEntries /\ Inserted(leaf, found)
              \/ /\ index = 0 \/ \E found \in fromContents : Len(found) < splitMinEntries
                 /\ IF Len(heads) < splitMinEntries THEN Passed
                    ELSE \E found \in fromHeads :
                           IF Len(found) < splitMinEntries THEN Passed ELSE Inserted(leaf, found)
  /\ NoFault
  /\ UNCHANGED <<tocDoc, tocPhase, tocPages, tocPrinted, tocTries, tocByJudge, tocDegraded, tocOrig>>

SplitLeafFails ==
  /\ tocPhase = "split" /\ tocAt <= Len(tocNodes)
  /\ Splittable(tocNodes[tocAt]) /\ Cardinality(LeafPages(tocNodes[tocAt])) >= 2
  /\ nestedContents(tocNodes[tocAt]) # 0 \/ Len(headingCandidates(tocNodes[tocAt])) >= splitMinEntries
  /\ JudgeFault("split") /\ tocDegraded' = tocDegraded \cup {"split"} /\ Passed
  /\ UNCHANGED <<tocDoc, tocPhase, tocPages, tocPrinted, tocTries, tocByJudge, tocOrig>>

BuildDone ==
  /\ tocPhase = "split" /\ tocAt > Len(tocNodes) /\ tocPhase' = "done"
  /\ UNCHANGED <<tocRest, tocPages, tocNodes, tocDegraded, tocFell>>

TocNext ==
  \/ detectTOCPagesJudge \/ DetectFails \/ detectTOCPages
  \/ extractFromTOCPagesJudge \/ ExtractFails \/ extractGenerative \/ GenerationFails
  \/ resolvePages \/ ResolveFails \/ verifyTitlesConcurrent \/ repairAndDerive
  \/ splitLargeLeaves \/ SplitLeafFails \/ BuildDone

TocEnded == tocPhase \in {"done", "none", "error"}

-----------------------------------------------------------------------------
\* Repair leaves a tree a reader can follow: no section starts on a contents
\* page, a section's pages run forward and inside its parent's, placed
\* leaves of one parent ascend, and no page from the first section on is in
\* no top-level section.
RangesAreSound ==
  tocOrig # <<>> =>
    LET ns == tocOrig
        placed == PlacedIn(ns, DOMAIN ns)
        roots == PlacedIn(ns, KidsOf(ns, 0))
    IN  /\ \A i \in placed : ns[i].start \notin tocPages /\ ns[i].start <= ns[i].end
        /\ \A i \in placed : ns[i].depth > 1 =>
             LET p == ns[ParentOf(ns, i)] IN p.start > 0 /\ p.start <= ns[i].start /\ ns[i].end <= p.end
        /\ \A i, j \in placed \cap TocLeaves(ns) :
             i < j /\ ParentOf(ns, i) = ParentOf(ns, j) => ns[i].start <= ns[j].start
        /\ \A p \in 1..tocDoc.last : \A r \in roots : ns[r].start <= p =>
             \E s \in roots : ns[s].start <= p /\ p <= ns[s].end

\* Repair clears no more than it must: the starts it keeps among siblings are
\* as many as any set of them in page order (outOfOrder against the
\* definition of a longest non-decreasing subsequence).
RepairClearsFewest ==
  tocPhase = "repair" =>
    \A p \in 0..Len(tocNodes) :
      LET group == PlacedIn(tocNodes, KidsOf(tocNodes, p))
          kept == group \ OutOfOrderIn(tocNodes, group)
          ordered(S) == \A i, j \in S : i < j => tocNodes[i].start <= tocNodes[j].start
      IN  ordered(kept) /\ \A S \in SUBSET group : ordered(S) => Cardinality(S) <= Cardinality(kept)

\* Splitting loses nothing: the original tree is still there, and the
\* sub-leaves of a leaf that was split cover its pages exactly, in order.
SplitKeepsPages ==
  tocPhase \in {"split", "done"} =>
    /\ SelectSeq(tocNodes, LAMBDA n : n.gen = 0) = tocOrig
    /\ \A i \in DOMAIN tocNodes :
         LET subs == {k \in KidsOf(tocNodes, i) : tocNodes[k].gen > tocNodes[i].gen}
         IN  subs # {} =>
               /\ UNION {tocNodes[k].start .. tocNodes[k].end : k \in subs} = tocNodes[i].start .. tocNodes[i].end
               /\ \A j, k \in subs : j < k => tocNodes[j].start <= tocNodes[k].start

\* Sections whose entries the Judge took have distinct node ids, whatever
\* entries it dropped and however leaves were split.
NodeIDsDistinct ==
  tocPhase = "done" /\ tocByJudge => IsInjective(stampNodeIDs(tocNodes))

\* Usage.Degraded: a build that records nothing had no step whose Judge
\* request failed for good, detection excepted, whose failure only the log
\* tells.
DegradedTells == TocEnded /\ tocPhase # "error" /\ tocDegraded = {} => tocFell \subseteq {"detect", "resolve"}

\* The contents a build leaves are sound: page ranges nest and run forward
\* and cover the document, repair clears as little as it can, splitting
\* keeps every page, node ids are distinct, and fallbacks are told.
ContentsSound == RangesAreSound /\ RepairClearsFewest /\ SplitKeepsPages /\ NodeIDsDistinct /\ DegradedTells
=============================================================================
