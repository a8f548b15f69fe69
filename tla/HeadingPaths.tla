---------------------------- MODULE HeadingPaths ----------------------------
(***************************************************************************)
(* The heading path of a section of the document: the titles down to the   *)
(* contents node that fits the section's pages best.  Retrieval shows it   *)
(* with every section.  The contents are the tree TocBuild leaves.         *)
(***************************************************************************)
EXTENDS TocBuild

\* The last page of a node, and the bound its children inherit; node 0 is
\* the document.
resolveEndPage(ns, maxPage) ==
  LET later(i) == {j \in KidsOf(ns, ParentOf(ns, i)) : j > i /\ ns[j].start > 0}
      at[i \in 0..Len(ns)] ==
        IF i = 0 THEN [end |-> maxPage, bound |-> maxPage]
        ELSE LET above == at[ParentOf(ns, i)].bound
                 end == IF ns[i].end > 0 THEN ns[i].end
                        ELSE IF later(i) # {} THEN Larger(ns[Least(later(i))].start - 1, ns[i].start)
                        ELSE IF above > 0 THEN above ELSE ns[i].start
             IN  [end |-> end, bound |-> IF end > 0 THEN end ELSE above]
  IN  [i \in DOMAIN ns |-> at[i].end]

\* The nodes that can head a section, in preorder, with their pages.
flattenTOC(ns, maxPage) ==
  LET end == resolveEndPage(ns, maxPage)
      spans == [i \in DOMAIN ns |-> [node |-> i, start |-> ns[i].start, end |-> end[i], depth |-> ns[i].depth]]
  IN  SelectSeq(spans, LAMBDA e : e.start > 0 /\ e.end >= e.start)

OverlapPages(e, s) == Larger(0, Smaller(e.end, s.end) - Larger(e.start, s.start) + 1)
ContainsPages(e, s) == e.start <= s.start /\ s.end <= e.end
Span(e) == e.end - e.start + 1

\* Mutant: depth alone decides.
deeperOnly(a, b, s) == b.depth > a.depth

\* Containing the section comes first, then depth, pages shared, tightness
\* and the earlier start.
lessSpecific(a, b, s) ==
  IF ContainsPages(a, s) # ContainsPages(b, s) THEN ContainsPages(b, s)
  ELSE IF a.depth # b.depth THEN b.depth > a.depth
  ELSE IF OverlapPages(a, s) # OverlapPages(b, s) THEN OverlapPages(b, s) > OverlapPages(a, s)
  ELSE IF Span(a) # Span(b) THEN Span(b) < Span(a)
  ELSE b.start < a.start

NoHeading == [node |-> 0, start |-> 0, end |-> 0, depth |-> 0]
bestHeadingPath(es, s) ==
  LET better(best, e) ==
        IF OverlapPages(e, s) > 0 /\ (IF best = NoHeading THEN TRUE ELSE lessSpecific(best, e, s)) THEN e ELSE best
  IN  FoldLeft(better, NoHeading, es)

documentMaxPage(ns, secs) == Largest({s.end : s \in secs} \cup UNION {{n.start, n.end} : n \in ToSet(ns)})

BuildHeadingPaths(ns, secs) ==
  [s \in secs |-> bestHeadingPath(flattenTOC(ns, documentMaxPage(ns, secs)), s)]

-----------------------------------------------------------------------------
AllSections == {s \in [start : 1..tocDoc.last, end : 1..tocDoc.last] : s.start <= s.end}

\* Whatever sections a parser cut, the heading of each is a contents node on
\* its pages; it is a deepest one of those that hold all of them, and of the
\* deepest that only share some it shares most; and only pages before the
\* first placed chapter are without a heading.
HeadingPathsFit ==
  tocPhase = "done" =>
    LET ns == tocNodes
        placed == PlacedIn(ns, DOMAIN ns)
        heading == BuildHeadingPaths(ns, AllSections)
        shared(i, s) == (ns[i].start .. ns[i].end) \cap (s.start .. s.end)
        whole(s) == {i \in placed : shared(i, s) = s.start .. s.end}
    IN  \A s \in AllSections :
          LET i == heading[s].node
              rivals == IF whole(s) # {} THEN whole(s) ELSE {j \in placed : shared(j, s) # {}}
          IN  IF i = 0 THEN rivals = {} /\ \A j \in placed : s.end < ns[j].start
              ELSE /\ i \in rivals /\ \A j \in rivals : ns[j].depth <= ns[i].depth
                   /\ \A j \in rivals : ns[j].depth = ns[i].depth =>
                        Cardinality(shared(j, s)) <= Cardinality(shared(i, s))
=============================================================================
