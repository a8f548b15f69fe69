------------------------------ MODULE TreeWalk ------------------------------
(***************************************************************************)
(* TreeWalkStrategy.SelectWithCost: a model that navigates one document by *)
(* tool calls, one per hop, until it emits done, and once more under duress *)
(* when its hops are used up.  What the model replies is arbitrary: any    *)
(* page numbers, any citations, garbage, an unknown tool, no answer.       *)
(*                                                                         *)
(* A document is the sequence of its sections in walk order, each with its *)
(* pages (0 when it has none) and the lengths of the header line and of    *)
(* the body get_pages renders for it; no sections means no tree.           *)
(***************************************************************************)
EXTENDS Ordering

CONSTANTS
  Documents,         \* the trees a query may be about
  MaxHops,           \* LLM turns before the forced one
  PageContentLimit,  \* characters of one get_pages observation
  MaxCitations,      \* page ranges a done action may keep
  PageArgs,          \* page numbers the model may name
  CitationLists,     \* cited_pages the model may emit: [start, end, conf]
  Confidences,       \* overall confidences the model may emit
  NaN                \* the float "NaN" parses to

One == 10            \* confidences are in tenths

SectionType == [id: Nat, start: Nat, end: Nat, header: Nat \ {0}, body: Nat]
CitationType == [start: Int, end: Int, conf: Int]

ASSUME TreeWalkAssumption ==
  /\ \A d \in Documents :
       /\ d \in Seq(SectionType)
       /\ \A i \in DOMAIN d : d[i].start > 0 /\ d[i].end > 0 => d[i].start <= d[i].end
  /\ MaxHops \in Nat \ {0}
  /\ PageContentLimit \in Nat \ {0}
  /\ MaxCitations \in Nat \ {0}
  /\ PageArgs \subseteq Int
  /\ \A raw \in CitationLists : raw \in Seq(CitationType)
  /\ NaN \notin Int
  /\ Confidences \subseteq Int \cup {NaN}

\* Waiting for the model and having its reply, in the loop and when forced.
Phase == {"start", "ask", "reply", "force", "forced", "done", "error"}

VARIABLES
  doc,         \* the document walked
  phase,       \* where the loop is: see Phase
  hop,         \* turns of the loop used up
  hopsTaken,   \* LLM calls that came back
  pagesRead,   \* a PageReadEntry per get_pages call
  raw,         \* cited_pages of the done action, as the model sent them
  cited,       \* the ranges kept, in page order, as a set
  selected,    \* section ids of the result
  confidence   \* overall confidence of the result

vars == <<doc, phase, hop, hopsTaken, pagesRead, raw, cited, selected, confidence>>
result == <<raw, cited, selected, confidence>>

PageRange(start, end) == [start |-> start, end |-> end]
RangeType == [start: Int, end: Int]
ReadType == [range: RangeType, ids: Seq(Nat), chars: Nat, textless: SUBSET Nat]

TypeOK ==
  /\ doc \in Documents
  /\ phase \in Phase
  /\ hop \in 0..MaxHops
  /\ hopsTaken \in 0..(MaxHops + 1)
  /\ pagesRead \in Seq(ReadType)
  /\ raw \in CitationLists \cup {<<>>}
  /\ cited \subseteq RangeType
  /\ selected \subseteq Nat
  /\ confidence \in Int \cup {NaN}

Init ==
  /\ doc \in Documents
  /\ phase = "start"
  /\ hop = 0 /\ hopsTaken = 0
  /\ pagesRead = <<>>
  /\ raw = <<>> /\ cited = {} /\ selected = {} /\ confidence = 0

-----------------------------------------------------------------------------
(***************************************************************************)
(* Page range maths.                                                       *)
(***************************************************************************)
\* The positions of the sections that carry pages.
Paged(d) == {i \in DOMAIN d : d[i].start > 0 /\ d[i].end > 0}

\* flattenSectionsByPage: stable, by start page and then end page.
flattenSectionsByPage(d) ==
  LET precedes(i, j) ==
        \/ d[i].start < d[j].start
        \/ d[i].start = d[j].start /\ d[i].end < d[j].end
        \/ d[i].start = d[j].start /\ d[i].end = d[j].end /\ i < j
      order == InOrder(Paged(d), precedes)
  IN  [k \in DOMAIN order |-> d[order[k]]]

\* maxKnownPage: 0 when no section carries pages.
maxKnownPage(d) ==
  CHOOSE m \in {0} \cup {d[i].end : i \in Paged(d)} : \A i \in Paged(d) : d[i].end <= m

overlaps(a, b) ==
  /\ a.start > 0 /\ a.end > 0 /\ b.start > 0 /\ b.end > 0
  /\ a.start <= b.end /\ b.start <= a.end

\* Mutant: a range that runs past the document is not cut off.
clampRangeUncut(start, end, maxPage) ==
  LET s == IF start <= 0 THEN 1 ELSE start
      e == IF end <= 0 THEN s ELSE end
      lo == IF s > e THEN e ELSE s
      hi == IF s > e THEN s ELSE e
  IN  [ok |-> (start > 0 \/ end > 0) /\ (maxPage > 0 => lo <= maxPage),
       range |-> PageRange(lo, hi)]

\* clampRange: a missing end is filled in, inverted ends are swapped, and the
\* range is cut off at the last page; ok is FALSE when nothing is left.
clampRange(start, end, maxPage) ==
  LET s == IF start <= 0 THEN 1 ELSE start
      e == IF end <= 0 THEN s ELSE end
      lo == IF s > e THEN e ELSE s
      hi == IF s > e THEN s ELSE e
  IN  [ok |-> (start > 0 \/ end > 0) /\ (maxPage > 0 => lo <= maxPage),
       range |-> PageRange(lo, IF maxPage > 0 /\ hi > maxPage THEN maxPage ELSE hi)]

\* clampConfidence: both comparisons are false of a NaN, which passes through.
clampConfidence(c) ==
  IF c = NaN THEN NaN ELSE IF c < 0 THEN 0 ELSE IF c > One THEN One ELSE c

-----------------------------------------------------------------------------
(***************************************************************************)
(* selectCitedRanges: clamp, drop what is unusable, merge duplicates under *)
(* their highest confidence, and keep the first MaxCitations by confidence *)
(* and then by the order in which the model named them.                    *)
(***************************************************************************)
Clamped(citations, i, maxPage) ==
  clampRange(citations[i].start, citations[i].end, maxPage)
Usable(citations, maxPage) ==
  {i \in DOMAIN citations : Clamped(citations, i, maxPage).ok}
SameRange(citations, i, maxPage) ==
  {j \in Usable(citations, maxPage) :
     Clamped(citations, j, maxPage).range = Clamped(citations, i, maxPage).range}

\* First mentions, by position.
Kept(citations, maxPage) ==
  {i \in Usable(citations, maxPage) :
     \A j \in SameRange(citations, i, maxPage) : i <= j}

Conf(citations, i, maxPage) ==
  CHOOSE c \in {clampConfidence(citations[j].conf) : j \in SameRange(citations, i, maxPage)} :
    \A j \in SameRange(citations, i, maxPage) : clampConfidence(citations[j].conf) <= c

\* Mutant: sorts in ascending order of confidence.
RanksBelow(citations, i, j, maxPage) ==
  LET ci == Conf(citations, i, maxPage)
      cj == Conf(citations, j, maxPage)
  IN  ci < cj \/ (ci = cj /\ i < j)

RanksAbove(citations, i, j, maxPage) ==
  LET ci == Conf(citations, i, maxPage)
      cj == Conf(citations, j, maxPage)
  IN  ci > cj \/ (ci = cj /\ i < j)

selectCitedRanges(citations, maxPage) ==
  LET kept == Kept(citations, maxPage)
      top == {i \in kept :
                Cardinality({j \in kept : RanksAbove(citations, j, i, maxPage)}) < MaxCitations}
  IN  {Clamped(citations, i, maxPage).range : i \in top}

sectionsOverlapping(d, ranges) ==
  {d[i].id : i \in {k \in Paged(d) : \E r \in ranges : overlaps(d[k], r)}}

-----------------------------------------------------------------------------
(***************************************************************************)
(* renderPages: the sections that overlap the range, in page order, until  *)
(* the limit is reached.  A section is listed before there is known to be  *)
(* room for any of it; textless holds the places of those that got none.   *)
(***************************************************************************)
NothingRendered == [ids |-> <<>>, chars |-> 0, textless |-> {}, full |-> FALSE]

\* Mutant: the body is written whole, however little room the header left.
RenderUnclipped(acc, sec) ==
  LET room == PageContentLimit - acc.chars IN
    IF acc.full THEN acc
    ELSE [ids |-> Append(acc.ids, sec.id),
          chars |-> acc.chars + (IF room <= 0 THEN 0 ELSE sec.header + sec.body),
          textless |-> IF room <= 0 THEN acc.textless \cup {Len(acc.ids) + 1} ELSE acc.textless,
          full |-> room <= 0]

RenderSection(acc, sec) ==
  LET room == PageContentLimit - acc.chars
      text == IF sec.header + sec.body > room THEN room ELSE sec.header + sec.body
  IN  IF acc.full THEN acc
      ELSE [ids |-> Append(acc.ids, sec.id),
            chars |-> acc.chars + text,
            textless |-> IF text = 0 THEN acc.textless \cup {Len(acc.ids) + 1} ELSE acc.textless,
            full |-> \/ sec.header >= room
                     \/ sec.header + sec.body > room]

renderPages(d, range) ==
  LET sections == flattenSectionsByPage(d)
      after[k \in 0..Len(sections)] ==
        IF k = 0 THEN NothingRendered
        ELSE IF overlaps(sections[k], range) THEN RenderSection(after[k - 1], sections[k]) ELSE after[k - 1]
  IN  after[Len(sections)]

PageReadEntry(d, range) ==
  LET page == renderPages(d, range) IN
    [range |-> range, ids |-> page.ids, chars |-> page.chars, textless |-> page.textless]

-----------------------------------------------------------------------------
(***************************************************************************)
(* The navigation loop.                                                    *)
(***************************************************************************)
Begin ==
  /\ phase = "start"
  /\ phase' = IF doc = <<>> THEN "done" ELSE "ask"
  /\ UNCHANGED <<doc, hop, hopsTaken, pagesRead, result>>

\* One LLM call; if it fails, the whole query does.
Complete ==
  /\ phase = "ask"
  /\ \/ phase' = "reply" /\ hopsTaken' = hopsTaken + 1
     \/ phase' = "error" /\ UNCHANGED hopsTaken
  /\ UNCHANGED <<doc, hop, pagesRead, result>>

\* A turn of the loop is over without a done action.
NextHop ==
  /\ hop' = hop + 1
  /\ phase' = IF hop + 1 < MaxHops THEN "ask" ELSE "force"
  /\ UNCHANGED <<doc, hopsTaken, result>>

\* Mutant: an unparseable reply gives its turn back.
RetryForFree ==
  /\ phase = "reply"
  /\ phase' = "ask" /\ hopsTaken' = hopsTaken - 1
  /\ UNCHANGED <<doc, hop, pagesRead, result>>

\* An unparseable reply, an unknown tool, or get_document_structure: the
\* model gets an observation and the hop is spent.
Observe ==
  /\ phase = "reply"
  /\ NextHop
  /\ UNCHANGED pagesRead

GetPages(start, end) ==
  /\ phase = "reply"
  /\ LET got == clampRange(start, end, maxKnownPage(doc)) IN
       pagesRead' = IF got.ok THEN Append(pagesRead, PageReadEntry(doc, got.range))
                    ELSE pagesRead
  /\ NextHop

\* The done action, forced or not: citations are gated, then mapped to
\* sections.
Done(citations, conf) ==
  /\ phase \in {"reply", "forced"}
  /\ phase' = "done"
  /\ raw' = citations
  /\ cited' = selectCitedRanges(citations, maxKnownPage(doc))
  /\ selected' = sectionsOverlapping(doc, cited')
  /\ confidence' = clampConfidence(conf)
  /\ UNCHANGED <<doc, hop, hopsTaken, pagesRead>>

\* forceDone: one more call; if it fails the answer is empty.
ForceComplete ==
  /\ phase = "force"
  /\ \/ phase' = "forced" /\ hopsTaken' = hopsTaken + 1
     \/ phase' = "done" /\ UNCHANGED hopsTaken
  /\ UNCHANGED <<doc, hop, pagesRead, result>>

\* Mutant: a model that refuses to stop is asked again.
ForceAgain ==
  /\ phase = "forced"
  /\ phase' = "force"
  /\ UNCHANGED <<doc, hop, hopsTaken, pagesRead, result>>

\* ... and so it is when the reply is anything but done.
ForcedEmpty ==
  /\ phase = "forced"
  /\ phase' = "done"
  /\ UNCHANGED <<doc, hop, hopsTaken, pagesRead, result>>

Next ==
  \/ Begin \/ Complete \/ Observe \/ ForceComplete \/ ForcedEmpty
  \/ \E start, end \in PageArgs : GetPages(start, end)
  \/ \E citations \in CitationLists, conf \in Confidences : Done(citations, conf)

\* Every LLM call returns, with an answer or an error, and the loop goes on.
Spec == Init /\ [][Next]_vars
FairSpec == Spec /\ WF_vars(Next)

-----------------------------------------------------------------------------
\* CitationSources: the cited ranges, or what was read when none was cited.
CitationSources ==
  IF cited # {} THEN cited ELSE {pagesRead[i].range : i \in DOMAIN pagesRead}

\* Whatever page numbers the model names, what the API renders as citations
\* is a range of pages that the document has.
ShownInDocument ==
  \A r \in CitationSources :
    /\ 1 <= r.start /\ r.start <= r.end
    /\ maxKnownPage(doc) > 0 => r.end <= maxKnownPage(doc)

\* The citation cap drops only ranges that the model trusted no more than
\* every range it keeps, and drops nothing below the cap; a section is in the
\* result exactly when one of its pages is in a range that was kept.
BestCitationsKept ==
  LET max == maxKnownPage(doc)
      named == {i \in DOMAIN raw : clampRange(raw[i].start, raw[i].end, max).ok}
      keeps(i) == clampRange(raw[i].start, raw[i].end, max).range \in cited
  IN  /\ Cardinality(cited) <= MaxCitations
      /\ \A i \in named :
           ~keeps(i) =>
             /\ Cardinality(cited) = MaxCitations
             /\ \A r \in cited : \E j \in named :
                  /\ clampRange(raw[j].start, raw[j].end, max).range = r
                  /\ clampConfidence(raw[j].conf) >= clampConfidence(raw[i].conf)
      /\ selected = {doc[i].id : i \in {k \in Paged(doc) :
           \E r \in cited : (doc[k].start .. doc[k].end) \cap (r.start .. r.end) # {}}}

\* An observation never exceeds the limit, and of the sections reported as
\* read only the last can have contributed no text at all.
ReadIsRendered ==
  \A i \in DOMAIN pagesRead :
    LET entry == pagesRead[i] IN
      /\ entry.chars <= PageContentLimit
      /\ \A k \in DOMAIN entry.ids : k \in entry.textless => k = Len(entry.ids)

\* MaxHops bounds the turns the model chooses, the forced one comes on top,
\* and a run that was cut short had used all of them.
HopBudget ==
  /\ hopsTaken <= MaxHops + 1
  /\ hopsTaken > MaxHops => hop = MaxHops
  /\ Len(pagesRead) <= hop

\* However stubborn the model, a query ends.
WalkEnds == <>(phase \in {"done", "error"})
====
