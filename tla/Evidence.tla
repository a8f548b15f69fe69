------------------------------ MODULE Evidence ------------------------------
(***************************************************************************)
(* What a selection becomes before it is shown: the units of text          *)
(* (AssembleUnits), their order by a second model (ReRanker), the union of *)
(* sub-questions (Decomposer), and which of them an answer cites.          *)
(*                                                                         *)
(* A document is [kids, text, start, end]: children, the shingles of each  *)
(* section's own text, and its pages.  Section 1 is the root.              *)
(***************************************************************************)
EXTENDS Ordering, SequencesExt

\* 150 and 6000 characters, counted here in shingles of text.
MinUnitChars == 1
unitExpandChars == 4
unitExpandPages == 2

Page(n, text, p) == [page |-> n, text |-> text, p |-> p]

\* The sections beneath one, in walk order.
Beneath(doc) ==
  LET under[n \in DOMAIN doc.kids] ==
        FlattenSeq([k \in DOMAIN doc.kids[n] |-> <<doc.kids[n][k]>> \o under[doc.kids[n][k]]])
  IN  under

\* At least four fifths of its shingles were shown before.
repeats(seen, text) ==
  /\ text # {} /\ seen # {}
  /\ 5 * Cardinality(text \cap seen) >= 4 * Cardinality(text)

\* A section whose text cannot be read has none.
loadContent(doc, lost, s) == IF s \in lost THEN {} ELSE doc.text[s]

\* The text beneath a heading, unless it spans too many pages or is too long.
gatherBeneath(doc, lost, s) ==
  LET subs == Beneath(doc)[s]
      size == SumOver(ToSet(subs), LAMBDA x : Cardinality(doc.text[x]))
  IN  IF subs = <<>> \/ size > unitExpandChars
         \/ (doc.end[s] > 0 /\ doc.end[s] - doc.start[s] + 1 > unitExpandPages)
      THEN {} ELSE UNION {loadContent(doc, lost, x) : x \in ToSet(subs)}

NewUnitAssembler == [units |-> <<>>, seen |-> {}, pages |-> {}, ids |-> {}, dropped |-> {}]

Full(a, k) == k > 0 /\ Len(a.units) >= k

LOCAL Added(a, u) ==
  [a EXCEPT !.units = Append(@, u), !.seen = @ \cup u.text]

AddPage(a, ep, runnerUp, k) ==
  IF Full(a, k) \/ ep.page \in a.pages \/ ep.text = {} THEN a
  ELSE [Added(a, [kind |-> "page", ref |-> ep.page, text |-> ep.text, runnerUp |-> runnerUp])
          EXCEPT !.pages = @ \cup {ep.page}]

AddSection(a, doc, lost, s, runnerUp, k) ==
  LET own == loadContent(doc, lost, s)
      text == IF Cardinality(own) < MinUnitChars THEN gatherBeneath(doc, lost, s) ELSE own
      known == [a EXCEPT !.ids = @ \cup {s}]
  IN  IF Full(a, k) \/ s \in a.ids \/ s \notin DOMAIN doc.kids THEN a
      ELSE IF Cardinality(text) < MinUnitChars \/ repeats(a.seen, text)
      THEN [known EXCEPT !.dropped = @ \cup {s}]
      ELSE Added(known, [kind |-> "section", ref |-> s, text |-> text, runnerUp |-> runnerUp])

\* Evidence pages, then sections; what scored below them fills the slots
\* left when the caller asked for a number.
AssembleUnits(doc, lost, res, k) ==
  LET first == FoldLeft(LAMBDA a, s : AddSection(a, doc, lost, s, FALSE, k),
                        FoldLeft(LAMBDA a, ep : AddPage(a, ep, FALSE, k), NewUnitAssembler, res.pages), res.ids)
  IN  IF k = 0 THEN first
      ELSE FoldLeft(LAMBDA a, s : AddSection(a, doc, lost, s, TRUE, k),
                    FoldLeft(LAMBDA a, ep : AddPage(a, ep, TRUE, k), first, res.morePages), res.moreIds)

SectionUnits(units) == SelectSeq(units, LAMBDA u : u.kind = "section")
Refs(units) == [i \in DOMAIN units |-> units[i].ref]

-----------------------------------------------------------------------------
\* The scores of a reply, a sequence of [id, score]: the first for an id
\* counts, unknown ids do not, and nothing scores below 0.
ParseReRank(reply) == [i \in DOMAIN reply |-> [reply[i] EXCEPT !.score = IF @ < 0 THEN 0 ELSE @]]

mergeScored(candidates, scored) ==
  LET of(id) == {i \in DOMAIN scored : scored[i].id = id}
      first(id) == scored[CHOOSE i \in of(id) : \A j \in of(id) : i <= j].score
      rated == SelectSeq(candidates, LAMBDA id : of(id) # {})
  IN  StableByScore(rated, first) \o SelectSeq(candidates, LAMBDA id : of(id) = {})

\* Sections in the order of their scores; any the order misses follow.
reorderByScore(units, order) ==
  LET at(id) == CHOOSE i \in DOMAIN units : units[i].ref = id
      known == SelectSeq(order, LAMBDA id : \E i \in DOMAIN units : units[i].ref = id)
  IN  [i \in DOMAIN known |-> units[at(known[i])]]
      \o SelectSeq(units, LAMBDA u : u.ref \notin ToSet(order))

-----------------------------------------------------------------------------
\* Sub-questions in order: ids where they are met first, and the highest
\* confidence a section was given.
Union(all) ==
  LET given(id) == {all[i].conf[id] : i \in {j \in DOMAIN all : id \in DOMAIN all[j].conf}}
      ids == UNION {DOMAIN all[i].conf : i \in DOMAIN all}
  IN  [ids |-> Distinct(FlattenSeq([i \in DOMAIN all |-> all[i].ids]), LAMBDA id : id),
       conf |-> [id \in ids |-> CHOOSE c \in given(id) : \A d \in given(id) : d <= c]]

shouldAbstain(conf, threshold) == DOMAIN conf # {} /\ \A id \in DOMAIN conf : conf[id] < threshold

-----------------------------------------------------------------------------
flattenByPage(doc) ==
  SelectSeq(<<1>> \o Beneath(doc)[1], LAMBDA s : doc.start[s] > 0)

\* The sections on a page, the deepest of a walk last met first.
sectionsOnPage(doc, page) ==
  Reverse(SelectSeq(flattenByPage(doc), LAMBDA s :
    /\ doc.start[s] <= page
    /\ page <= IF doc.end[s] < doc.start[s] THEN doc.start[s] ELSE doc.end[s]))

\* The numbers of a reply that name evidence, each once, in order.
dedupeInRange(nums, max) == Ascending({n \in nums : n >= 1 /\ n <= max})

\* A reply that marks nothing is held to rest on everything shown.
Cited(nums, max) == IF dedupeInRange(nums, max) = <<>> THEN [i \in 1..max |-> i] ELSE dedupeInRange(nums, max)
=============================================================================
