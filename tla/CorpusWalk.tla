----------------------------- MODULE CorpusWalk -----------------------------
(***************************************************************************)
(* CorpusNavigator.Navigate: a question over a collection.  Each hop       *)
(* routes over the cards of the unread documents, reads the best ones with *)
(* the judge walk in parallel, merges their pages with what earlier hops   *)
(* found and asks whether that covers the question.  A document that fails *)
(* is reported and the others go on; a failed route or coverage call fails *)
(* the query.                                                              *)
(*                                                                         *)
(* A request may name a document more than once, and every naming of it is *)
(* routed, chosen and read by itself: a naming is its place in CWDocs.     *)
(***************************************************************************)
EXTENDS Evidence

CONSTANTS
  CWDocs,        \* the documents named, in order (naturals: the order of their ids)
  CWPages,       \* what reading a document may give: sequences of [page, p], best first
  CWScores,      \* route and coverage answers
  CWThreshold,   \* route, evidence and coverage thresholds
  CWAnswerable,  \* AnswerableThreshold
  CWMinDocs, CWMaxDocs, CWPerDoc, CWLimit, CWMaxHops,
  CWBatch,       \* cards in one route request
  CWReaders,     \* ReadConcurrency
  CWFaults       \* calls that may fail (bounds the faults)

ASSUME CorpusAssumption ==
  /\ CWDocs \in Seq(Nat)
  /\ CWScores \subseteq Nat /\ CWPages \subseteq Seq([page : Nat, p : Nat])
  /\ {CWThreshold, CWAnswerable, CWFaults} \subseteq Nat
  /\ {CWMinDocs, CWMaxDocs, CWPerDoc, CWLimit, CWMaxHops, CWBatch, CWReaders} \subseteq Nat \ {0}

VARIABLES
  cwPhase,    \* route, read, cover, done, error
  cwHop,
  routing,    \* batches of the route still out
  score,      \* route score per naming routed in this hop
  chosen,     \* documents of this hop, in route order
  reader,     \* per place in chosen: wait, run, done, failed, gone
  read,       \* documents chosen in any hop
  pool,       \* every page read, in order: [doc, page, p]
  fetched,    \* per place in chosen: the pages read
  merged,     \* res.Evidence
  cwErrors,   \* documents reported as failed
  covered,    \* res.Coverage
  cwOut,      \* the response and what its answer cites
  cwGone,     \* the request's context has ended
  cwFaults

cwVars == <<cwPhase, cwHop, routing, score, chosen, reader, read, pool, fetched, merged,
            cwErrors, covered, cwOut, cwGone, cwFaults>>

CWInit ==
  /\ cwPhase = "hop" /\ cwHop = 1 /\ routing = {} /\ score = <<>> /\ chosen = <<>>
  /\ reader = <<>> /\ read = {} /\ pool = <<>> /\ fetched = <<>> /\ merged = <<>>
  /\ cwErrors = {} /\ covered = 0 /\ cwOut = <<>> /\ cwGone = FALSE /\ cwFaults = 0

evidenceKey(e) == <<e.doc, e.page>>

\* The documents asked about, best first, then by id.
ById(i, j) == CWDocs[i] < CWDocs[j] \/ (CWDocs[i] = CWDocs[j] /\ i < j)
Routed(scores) == StableByScore(InOrder(DOMAIN scores, ById), LAMBDA i : scores[i])

\* The best documents over the threshold, or among the first few of hop one.
choose(scores, hop) ==
  LET routed == Routed(scores)
      least == IF hop = 1 THEN Smaller(CWMinDocs, CWMaxDocs) ELSE 0
      wanted == {k \in DOMAIN routed : scores[routed[k]] >= CWThreshold \/ k <= least}
  IN  FirstN(Picked(routed, wanted), CWMaxDocs)

ByConfidence(es) == StableByScore(es, LAMBDA e : e.p)

\* Mutant: the best pages, whichever documents they are of.
BestPages(all) == FirstN(ByConfidence(all), CWLimit)

\* Every page where it is met first, as it was judged best.
SamePage(all, k) == {j \in DOMAIN all : evidenceKey(all[j]) = evidenceKey(all[k])}
JudgedBest(all, k) ==
  CHOOSE j \in SamePage(all, k) :
    \A i \in SamePage(all, k) : all[i].p < all[j].p \/ (all[i].p = all[j].p /\ j <= i)
OncePerPage(all) ==
  Picked([k \in DOMAIN all |-> all[JudgedBest(all, k)]], {k \in DOMAIN all : \A j \in SamePage(all, k) : k <= j})

\* Each document's best page.
FirstPass(above) ==
  FirstN(Picked(above, {k \in DOMAIN above : \A j \in 1..(k - 1) : above[j].doc # above[k].doc}), CWLimit)

\* The rest by confidence, up to each document's share.
WithPage(acc, e) ==
  IF \/ Len(acc) >= CWLimit \/ e \in ToSet(acc)
     \/ Cardinality({k \in DOMAIN acc : acc[k].doc = e.doc}) >= CWPerDoc
  THEN acc ELSE Append(acc, e)
SecondPass(above) ==
  LET filled[k \in 0..Len(above)] ==
        IF k = 0 THEN FirstPass(above) ELSE WithPage(filled[k - 1], above[k])
  IN  filled[Len(above)]

\* The best evidence of the pool: every document's best page over the
\* threshold first, then the rest; two pages when none is over it.
merge(all) ==
  LET ranked == ByConfidence(OncePerPage(all))
      above == Picked(ranked, {k \in DOMAIN ranked : ranked[k].p >= CWThreshold})
  IN  IF above = <<>> THEN FirstN(ranked, 2) ELSE ByConfidence(SecondPass(above))

-----------------------------------------------------------------------------
CWFault == cwFaults < CWFaults /\ cwFaults' = cwFaults + 1
MayFail == IF cwGone THEN UNCHANGED cwFaults ELSE CWFault

\* A hop starts while there are hops and unread documents left.
Unconsulted == {i \in DOMAIN CWDocs : CWDocs[i] \notin read}
BeginHop ==
  /\ cwPhase = "hop"
  /\ LET order == Ascending(Unconsulted)
     IN  IF Unconsulted = {} \/ cwHop > CWMaxHops
         THEN cwPhase' = "done" /\ UNCHANGED <<routing, score>>
         ELSE /\ cwPhase' = "route"
              /\ score' = [i \in Unconsulted |-> 0]
              /\ routing' = {{order[k] : k \in {j \in DOMAIN order : (j - 1) \div CWBatch = b}} :
                               b \in 0..((Len(order) - 1) \div CWBatch)}
  /\ UNCHANGED <<cwHop, chosen, reader, read, pool, fetched, merged, cwErrors, covered, cwOut, cwGone, cwFaults>>

\* A question the Judge leaves out scores 0.
RouteAnswered == \E b \in routing : \E p \in [b -> CWScores] :
  /\ cwPhase = "route" /\ ~cwGone
  /\ routing' = routing \ {b}
  /\ score' = [i \in DOMAIN score |-> IF i \in b THEN p[i] ELSE score[i]]
  /\ UNCHANGED <<cwPhase, cwHop, chosen, reader, read, pool, fetched, merged, cwErrors, covered, cwOut, cwGone, cwFaults>>

\* The first batch to fail cancels the others and the query.
RouteFails ==
  /\ cwPhase = "route" /\ routing # {} /\ MayFail
  /\ cwPhase' = "error" /\ routing' = {}
  /\ UNCHANGED <<cwHop, score, chosen, reader, read, pool, fetched, merged, cwErrors, covered, cwOut, cwGone>>

ChooseDocs ==
  /\ cwPhase = "route" /\ routing = {}
  /\ LET picks == choose(score, cwHop)
     IN  /\ cwPhase' = IF picks = <<>> THEN "done" ELSE "read"
         /\ chosen' = [k \in DOMAIN picks |-> CWDocs[picks[k]]]
         /\ read' = read \cup {CWDocs[picks[k]] : k \in DOMAIN picks}
         /\ reader' = [k \in DOMAIN picks |-> "wait"]
         /\ fetched' = [k \in DOMAIN picks |-> <<>>]
  /\ UNCHANGED <<cwHop, routing, score, pool, merged, cwErrors, covered, cwOut, cwGone, cwFaults>>

StartReading(k) ==
  /\ cwPhase = "read" /\ reader[k] = "wait"
  /\ Cardinality({x \in DOMAIN reader : reader[x] = "run"}) < CWReaders
  /\ reader' = [reader EXCEPT ![k] = "run"]
  /\ UNCHANGED <<cwPhase, cwHop, routing, score, chosen, read, pool, fetched, merged, cwErrors, covered, cwOut, cwGone, cwFaults>>

GiveUpReading(k) ==
  /\ cwPhase = "read" /\ reader[k] = "wait" /\ cwGone
  /\ reader' = [reader EXCEPT ![k] = "gone"]
  /\ UNCHANGED <<cwPhase, cwHop, routing, score, chosen, read, pool, fetched, merged, cwErrors, covered, cwOut, cwGone, cwFaults>>

ReadDone(k) == \E pages \in CWPages :
  /\ cwPhase = "read" /\ reader[k] = "run" /\ ~cwGone
  /\ reader' = [reader EXCEPT ![k] = "done"]
  /\ fetched' = [fetched EXCEPT ![k] = pages]
  /\ UNCHANGED <<cwPhase, cwHop, routing, score, chosen, read, pool, merged, cwErrors, covered, cwOut, cwGone, cwFaults>>

ReadFails(k) ==
  /\ cwPhase = "read" /\ reader[k] = "run" /\ MayFail
  /\ reader' = [reader EXCEPT ![k] = "failed"]
  /\ cwErrors' = cwErrors \cup {chosen[k]}
  /\ UNCHANGED <<cwPhase, cwHop, routing, score, chosen, read, pool, fetched, merged, covered, cwOut, cwGone>>

\* Pages join the pool in route order, whoever was read first.
PagesOf(k) == [i \in DOMAIN fetched[k] |-> [doc |-> chosen[k], page |-> fetched[k][i].page, p |-> fetched[k][i].p]]
Gathered ==
  LET upTo[k \in 0..Len(chosen)] == IF k = 0 THEN pool ELSE upTo[k - 1] \o PagesOf(k)
  IN  upTo[Len(chosen)]

MergePages ==
  /\ cwPhase = "read" /\ \A k \in DOMAIN reader : reader[k] \notin {"wait", "run"}
  /\ pool' = Gathered /\ merged' = merge(Gathered) /\ fetched' = <<>>
  /\ cwPhase' = "cover"
  /\ UNCHANGED <<cwHop, routing, score, chosen, reader, read, cwErrors, covered, cwOut, cwGone, cwFaults>>

\* New evidence: keys the merge before this hop's pages did not have.
AddedKeys == Cardinality({evidenceKey(e) : e \in ToSet(merged)}
            \ {evidenceKey(e) : e \in ToSet(merge(SelectSeq(pool, LAMBDA x : x.doc \notin ToSet(chosen))))})

Coverage == \E c \in CWScores :
  /\ cwPhase = "cover"
  /\ IF merged = <<>> THEN c = 0 ELSE ~cwGone     \* nothing found is not asked about
  /\ covered' = c
  /\ IF c >= CWThreshold \/ (AddedKeys = 0 /\ cwHop > 1)
     THEN cwPhase' = "done" /\ UNCHANGED cwHop
     ELSE cwPhase' = "hop" /\ cwHop' = cwHop + 1
  /\ UNCHANGED <<routing, score, chosen, reader, read, pool, fetched, merged, cwErrors, cwOut, cwGone, cwFaults>>

CoverageFails ==
  /\ cwPhase = "cover" /\ merged # <<>> /\ MayFail
  /\ cwPhase' = "error"
  /\ UNCHANGED <<cwHop, routing, score, chosen, reader, read, pool, fetched, merged, cwErrors, covered, cwOut, cwGone>>

CWClientGone ==
  /\ ~cwGone /\ cwPhase \notin {"done", "answered", "error"}
  /\ cwGone' = TRUE
  /\ UNCHANGED <<cwPhase, cwHop, routing, score, chosen, reader, read, pool, fetched, merged, cwErrors, covered, cwOut, cwFaults>>

\* What navigation found is enough to answer from.
Answerable == merged # <<>> /\ covered >= CWAnswerable

\* The response: an unanswerable question that may be abstained from shows
\* no evidence and is not answered; otherwise the answer cites evidence by
\* its place, all of it when it marks none.
corpusResponse(abstain) ==
  LET abstained == abstain /\ ~Answerable
  IN  [abstained |-> abstained, evidence |-> IF abstained THEN <<>> ELSE merged]

RespondCorpus == \E abstain \in BOOLEAN, marks \in SUBSET (1..CWLimit) :
  LET resp == corpusResponse(abstain)
  IN  /\ cwPhase = "done"
      /\ cwPhase' = "answered"
      /\ cwOut' = [resp |-> resp,
                   cites |-> IF resp.evidence = <<>> THEN <<>> ELSE Cited(marks, Len(resp.evidence))]
      /\ UNCHANGED <<cwHop, routing, score, chosen, reader, read, pool, fetched, merged, cwErrors, covered, cwGone, cwFaults>>

CWStep ==
  \/ RespondCorpus
  \/ BeginHop \/ RouteAnswered \/ RouteFails \/ ChooseDocs \/ MergePages \/ Coverage \/ CoverageFails
  \/ \E k \in DOMAIN reader : StartReading(k) \/ GiveUpReading(k) \/ ReadDone(k) \/ ReadFails(k)
CWNext == CWStep \/ CWClientGone

CWEnded == cwPhase \in {"answered", "error"}

-----------------------------------------------------------------------------
\* The evidence of a corpus query is what the read documents really offered:
\* within the limit and each document's share unless no page is over the
\* threshold (then the two best are kept, whatever the limit), best first, no
\* page twice and each as the best of its readings judged it, and no document
\* that has a page over the threshold is squeezed out by another one's second
\* page (CorpusNavigator.merge).
EvidenceIsShared ==
  LET offered(d) == {e \in ToSet(pool) : e.doc = d /\ e.p >= CWThreshold}
      of(d) == {k \in DOMAIN merged : merged[k].doc = d}
      bestGuess == Len(merged) <= 2 /\ \A d \in read : offered(d) = {}
  IN  /\ ToSet(merged) \subseteq ToSet(pool) /\ (pool # <<>> => merged # <<>>)
      /\ \A j, k \in DOMAIN merged : j < k => merged[j].p >= merged[k].p
      /\ \A j, k \in DOMAIN merged : evidenceKey(merged[j]) = evidenceKey(merged[k]) => j = k
      /\ \A k \in DOMAIN merged, e \in ToSet(pool) : evidenceKey(e) = evidenceKey(merged[k]) => e.p <= merged[k].p
      /\ bestGuess \/ (Len(merged) <= CWLimit /\ \A d \in read : Cardinality(of(d)) <= CWPerDoc)
      /\ \A d, other \in read : offered(d) # {} /\ of(d) = {} => Cardinality(of(other)) <= 1

\* Only documents that were read give evidence, a failed one is reported, and
\* it gives none unless it was named more than once; unless the client has gone
\* every document chosen was read or reported, and enough namings were answered
\* for; the answer cites evidence that was merged, and none when it abstains.
DocumentsAccounted ==
  /\ \A e \in ToSet(pool) : e.doc \in read
  /\ \A e \in ToSet(pool) :
       e.doc \in cwErrors => \E i, j \in DOMAIN CWDocs : i # j /\ CWDocs[i] = e.doc /\ CWDocs[j] = e.doc
  /\ cwErrors \subseteq read
  /\ cwPhase \in {"done", "answered"} /\ ~cwGone => \A k \in DOMAIN reader : reader[k] = "done" \/ chosen[k] \in cwErrors
  /\ cwPhase = "done" /\ ~cwGone =>
       Cardinality(DOMAIN CWDocs \ Unconsulted) >= Smaller(Smaller(CWMinDocs, CWMaxDocs), Len(CWDocs))
  /\ cwPhase = "answered" =>
       /\ \A k \in DOMAIN cwOut.cites : cwOut.cites[k] \in DOMAIN merged
       /\ cwOut.resp.evidence = <<>> <=> cwOut.cites = <<>>
       /\ cwOut.resp.abstained => covered < CWAnswerable \/ merged = <<>>
  /\ cwHop <= CWMaxHops + 1 /\ Cardinality(read) <= CWMaxHops * CWMaxDocs

\* A corpus query shares its evidence among the documents that have some and
\* accounts for every document it chose (CorpusNavigator.Navigate).
CorpusSound == EvidenceIsShared /\ DocumentsAccounted
=============================================================================
