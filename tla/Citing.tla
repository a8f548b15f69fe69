------------------------------- MODULE Citing -------------------------------
(***************************************************************************)
(* From an answer to the lines it rests on.  An answer written from pages  *)
(* carries markers naming the evidence of each sentence; every marker      *)
(* becomes a pincite whose quote is a sentence of the cited page, chosen   *)
(* by the Judge or by shared words, and located on the page.  Citations of *)
(* page ranges carry a quote of the model's own, which is looked for on    *)
(* the pages of the range, word for word or nearly so.                     *)
(*                                                                         *)
(* A page is a sequence of lines [kind, words]; a word is [tok, ends], its *)
(* token and whether a sentence ends with it.  An answer is a sequence of  *)
(* sentences [words, marks], the marks in groups as they are written.      *)
(***************************************************************************)
EXTENDS Ordering, SequencesExt

CONSTANTS
  CitAnswers,      \* [kind |-> "pages", answer, evidence, pdf, layout, text, judge]
  CitRanges,       \* [kind |-> "range", quote, start, end, pdf, layout]
  CitShortlist,    \* shortlistSize
  CitMaxWords,     \* words a candidate may have (maxCandidateChars)
  CitNumeric,      \* tokens that are numbers
  CitStopwords     \* tokens that say nothing

minFuzzyTokens == 4
minCandidateTokens == 3
NoLayout == <<>>
ByWords == -1      \* the Judge left the question out
NoSentence == 0

ASSUME CitingAssumption == {CitShortlist, CitMaxWords} \subseteq Nat \ {0}

VARIABLES
  citReq,     \* the request
  citPhase,   \* start, choose, cite, done
  marked,     \* the markers: [evidence, claim, ordinal, cands]
  choices,    \* per marker: [index, by]
  pincites,   \* per marker: [id, citation, quote, match]
  citedText   \* the answer's markers after renumbering, by sentence and group

citVars == <<citReq, citPhase, marked, choices, pincites, citedText>>

CitBlank == citPhase = "start" /\ marked = <<>> /\ choices = <<>> /\ pincites = <<>> /\ citedText = <<>>
CitIdle == citReq = <<>> /\ CitBlank
CitInit == citReq \in CitAnswers \cup CitRanges /\ CitBlank

-----------------------------------------------------------------------------
(***************************************************************************)
(* Finding a quote on a page.                                              *)
(***************************************************************************)
Tokenize(words) == [k \in DOMAIN words |-> words[k].tok]

\* The tokens of a page in reading order, each with its line.
pageTokens(lines) ==
  FlattenSeq([l \in DOMAIN lines |-> [k \in DOMAIN lines[l].words |-> [text |-> lines[l].words[k].tok, line |-> l]]])

TokenCount(s, t) == Cardinality({k \in DOMAIN s : s[k] = t})
\* How many of the quote's tokens a run holds, repeats counted.
Overlap(run, q) == SumOver(ToSet(q), LAMBDA t : Smaller(TokenCount(run, t), TokenCount(q, t)))

exactIndex(toks, q) ==
  LET at == {i \in 1..(Len(toks) - Len(q) + 1) : SubSeq(toks, i, i + Len(q) - 1) = q}
  IN  IF at = {} THEN 0 ELSE CHOOSE i \in at : \A j \in at : i <= j

\* Windows from the quote's length to half as long again, shorter first; the
\* first with the largest overlap, without the ends it does not need.
Windows(toks, q) ==
  {z \in (Len(q)..Smaller(Len(toks), Len(q) + Len(q) \div 2)) \X (1..Len(toks)) : z[2] + z[1] - 1 <= Len(toks)}
Better(toks, q, x, y) ==
  LET found(z) == Overlap(SubSeq(toks, z[2], z[2] + z[1] - 1), q)
  IN  found(x) > found(y) \/ (found(x) = found(y) /\ (x[1] < y[1] \/ (x[1] = y[1] /\ x[2] <= y[2])))
TopWindow(toks, q) == CHOOSE x \in Windows(toks, q) : \A y \in Windows(toks, q) : Better(toks, q, x, y)

Surplus(toks, q, lo, hi, k) == TokenCount(SubSeq(toks, lo, hi), toks[k]) > TokenCount(q, toks[k])
TrimHead(toks, q, lo, hi) ==
  LET kept[k \in lo..(hi + 1)] == IF k <= hi /\ Surplus(toks, q, k, hi, k) THEN kept[k + 1] ELSE k
  IN  kept[lo]
TrimTail(toks, q, lo, hi) ==
  LET kept[k \in (lo - 1)..hi] == IF k >= lo /\ Surplus(toks, q, lo, k, k) THEN kept[k - 1] ELSE k
  IN  kept[hi]
Trimmed(toks, q, lo, hi) == [lo |-> lo, hi |-> TrimTail(toks, q, lo, hi), overlap |-> Overlap(SubSeq(toks, lo, hi), q)]
bestWindow(toks, q) ==
  LET at(x) == Trimmed(toks, q, TrimHead(toks, q, x[2], x[2] + x[1] - 1), x[2] + x[1] - 1)
  IN  at(TopWindow(toks, q))

\* One region per line the run touches.
regions(toks, lo, hi) == {toks[k].line : k \in lo..hi}

Match(page, precision, lines, score) == [page |-> page, precision |-> precision, lines |-> lines, score |-> score]
NotFound == Match(0, "none", {}, 0)

\* Scores are in tokens found; FuzzyThreshold is four in five.
Fuzzy(page, toks, q, w) ==
  IF 5 * w.overlap < 4 * Len(q) THEN NotFound ELSE Match(page, "line", regions(toks, w.lo, w.hi), w.overlap)
LocateIn(page, toks, text, q) ==
  LET at(i) == IF i > 0 THEN Match(page, "line", regions(toks, i, i + Len(q) - 1), Len(q))
               ELSE IF Len(q) < minFuzzyTokens \/ Len(text) < Len(q) THEN NotFound
               ELSE Fuzzy(page, toks, q, bestWindow(text, q))
  IN  at(exactIndex(text, q))
Texts(toks) == [k \in DOMAIN toks |-> toks[k].text]
Locate(layout, page, q) ==
  LET on(toks) == LocateIn(page, toks, Texts(toks), q)
  IN  IF page \notin DOMAIN layout \/ q = <<>> THEN NotFound ELSE on(pageTokens(layout[page]))

\* The first page with every token, in order or not, or the best one; else the
\* first page there is, else the document's section.
Resolve(layout, q, pages) ==
  LET known == SelectSeq(pages, LAMBDA p : p \in DOMAIN layout)
      best(found) ==
        IF found # <<>> THEN StableByScore(found, LAMBDA m : m.score)[1]
        ELSE IF known # <<>> THEN Match(known[1], "page", {}, 0)
        ELSE IF pages # <<>> THEN Match(pages[1], "page", {}, 0)
        ELSE Match(0, "section", {}, 0)
  IN  best(SelectSeq([k \in DOMAIN pages |-> Locate(layout, pages[k], q)], LAMBDA m : m # NotFound))

locate(req, page, q) ==
  IF req.layout = NoLayout THEN Match(page, IF req.pdf THEN "page" ELSE "section", {}, 0)
  ELSE IF q = <<>> THEN Match(page, "page", {}, 0)
  ELSE Resolve(req.layout, q, <<page>>)

-----------------------------------------------------------------------------
(***************************************************************************)
(* The sentences of a page, and the one a claim rests on.                  *)
(***************************************************************************)
splitLong(s) ==
  [k \in 1..((Len(s) + CitMaxWords - 1) \div CitMaxWords) |->
     SubSeq(s, (k - 1) * CitMaxWords + 1, Smaller(k * CitMaxWords, Len(s)))]

dedupe(cands) == SelectSeq(Distinct(cands, LAMBDA s : s), LAMBDA s : Len(s) >= minCandidateTokens)

\* A table row, a page number, a heading or running text, by its look.
LineKind(ln) == ln.kind

\* Running text is joined across lines and cut at sentence ends; a table row
\* or a heading is a candidate of its own; a page number only separates.
Sentences(lines) ==
  LET flush(acc) == [out |-> acc.out \o splitLong(acc.buf), buf |-> <<>>]
      word(acc, w) ==
        LET more == [acc EXCEPT !.buf = Append(@, w.tok)] IN IF w.ends THEN flush(more) ELSE more
      line(acc, ln) ==
        IF LineKind(ln) = "number" THEN flush(acc)
        ELSE IF LineKind(ln) = "text" THEN FoldLeft(word, acc, ln.words)
        ELSE [out |-> Append(flush(acc).out, Tokenize(ln.words)), buf |-> <<>>]
  IN  dedupe(flush(FoldLeft(line, [out |-> <<>>, buf |-> <<>>], lines)).out)

textSentences(lines) ==
  SelectSeq([l \in DOMAIN lines |-> Tokenize(lines[l].words)], LAMBDA s : Len(s) >= minCandidateTokens)

\* A shared number counts three times as much as a shared word.
Shared(claim, cand) ==
  SumOver((ToSet(claim) \ CitStopwords) \cap ToSet(cand), LAMBDA t : IF t \in CitNumeric THEN 3 ELSE 1)

Shortlist(claim, cands, k) ==
  LET some == SelectSeq([i \in DOMAIN cands |-> i], LAMBDA i : Shared(claim, cands[i]) > 0)
  IN  Ascending(ToSet(FirstN(StableByScore(some, LAMBDA i : Shared(claim, cands[i])), k)))

\* The candidate that shares most, the shorter of two that share alike.
bestLexical(claim, cands) ==
  LET better(best, i) ==
        IF \/ best = 0 /\ Shared(claim, cands[i]) > 0
           \/ best # 0 /\ \/ Shared(claim, cands[i]) > Shared(claim, cands[best])
                          \/ /\ Shared(claim, cands[i]) = Shared(claim, cands[best])
                             /\ Len(cands[i]) < Len(cands[best])
        THEN i ELSE best
  IN  FoldLeft(better, 0, Shortlist(claim, cands, Len(cands)))

Choice(i, by) == [index |-> i, by |-> by]
Lexical(claim, cands) ==
  LET best == bestLexical(claim, cands) IN Choice(best, IF best = 0 THEN "" ELSE "lexical")

-----------------------------------------------------------------------------
(***************************************************************************)
(* Markers.                                                                *)
(***************************************************************************)

\* Every evidence number a sentence cites, once; numbers that name no
\* evidence are dropped.
ParseMarkers(answer, n) ==
  Distinct(SelectSeq(FlattenSeq([s \in DOMAIN answer |->
      [k \in DOMAIN FlattenSeq(answer[s].marks) |->
        [evidence |-> FlattenSeq(answer[s].marks)[k], claim |-> answer[s].words, ordinal |-> s]]]),
    LAMBDA m : m.evidence \in 1..n), LAMBDA m : <<m.ordinal, m.evidence>>)

\* An answer without markers rests on all the evidence.
Unmarked(answer, n) ==
  [i \in 1..n |-> [evidence |-> i, claim |-> FlattenSeq([s \in DOMAIN answer |-> answer[s].words]), ordinal |-> -i]]

\* Mutant: markers keep the numbers of the evidence.
KeepNumbers(answer, ids) == [s \in DOMAIN answer |-> answer[s].marks]

\* Evidence numbers become pincite ids, and markers without one are dropped.
Renumber(answer, ids) ==
  [s \in DOMAIN answer |-> [g \in DOMAIN answer[s].marks |->
    LET group == SelectSeq(answer[s].marks[g], LAMBDA n : <<s, n>> \in DOMAIN ids)
    IN  Distinct([k \in DOMAIN group |-> ids[<<s, group[k]>>]], LAMBDA id : id)]]

\* The sentences of a cited page, by its layout or else by its text.
Candidates(n) ==
  LET page == citReq.evidence[n]
      cut == IF page \in DOMAIN citReq.layout THEN Sentences(citReq.layout[page]) ELSE <<>>
  IN  IF cut = <<>> THEN textSentences(citReq.text[n]) ELSE cut

Inline == \E m \in ToSet(marked) : m.ordinal > 0

-----------------------------------------------------------------------------
ReadMarkers ==
  /\ citPhase = "start" /\ citReq.kind = "pages"
  /\ LET found == ParseMarkers(citReq.answer, Len(citReq.evidence))
         all == IF found = <<>> THEN Unmarked(citReq.answer, Len(citReq.evidence)) ELSE found
     IN  marked' = [i \in DOMAIN all |-> [evidence |-> all[i].evidence, claim |-> all[i].claim,
                      ordinal |-> all[i].ordinal, cands |-> Candidates(all[i].evidence)]]
  /\ citPhase' = "choose"
  /\ UNCHANGED <<citReq, choices, pincites, citedText>>

Asked(m) == Shortlist(m.claim, m.cands, CitShortlist)

\* Judge: the sentence it picks with enough confidence, none otherwise; a
\* question it leaves out is settled by shared words.
ChooseByJudge ==
  /\ citPhase = "choose" /\ citReq.judge
  /\ \E pick \in [DOMAIN marked -> {ByWords, NoSentence} \cup (1..CitShortlist)] :
       /\ \A i \in DOMAIN marked : pick[i] \in {ByWords, NoSentence} \cup DOMAIN Asked(marked[i])
       /\ choices' = [i \in DOMAIN marked |->
            IF Asked(marked[i]) = <<>> THEN Choice(0, "")
            ELSE IF pick[i] = ByWords THEN Lexical(marked[i].claim, marked[i].cands)
            ELSE IF pick[i] = NoSentence THEN Choice(0, "judge")
            ELSE Choice(Asked(marked[i])[pick[i]], "judge")]
  /\ citPhase' = "cite"
  /\ UNCHANGED <<citReq, marked, pincites, citedText>>

\* Without a Judge, or when it fails, shared words choose for every claim.
ChooseByWords ==
  /\ citPhase = "choose"
  /\ choices' = [i \in DOMAIN marked |-> Lexical(marked[i].claim, marked[i].cands)]
  /\ citPhase' = "cite"
  /\ UNCHANGED <<citReq, marked, pincites, citedText>>

Cite ==
  /\ citPhase = "cite"
  /\ LET quote(i) == IF choices[i].index = 0 THEN <<>> ELSE marked[i].cands[choices[i].index]
         ids == [m \in {<<marked[i].ordinal, marked[i].evidence>> : i \in DOMAIN marked} |->
                   CHOOSE i \in DOMAIN marked : m = <<marked[i].ordinal, marked[i].evidence>>]
     IN  /\ pincites' = [i \in DOMAIN marked |->
              [id |-> i, citation |-> marked[i].evidence, quote |-> quote(i),
               match |-> locate(citReq, citReq.evidence[marked[i].evidence], quote(i))]]
         /\ citedText' = IF Inline THEN Renumber(citReq.answer, ids) ELSE <<>>
  /\ citPhase' = "done"
  /\ UNCHANGED <<citReq, marked, choices>>

RangePages(req) ==
  LET end == IF req.end < req.start THEN req.start ELSE req.end
  IN  IF req.start = 0 THEN <<>> ELSE [k \in 1..(end - req.start + 1) |-> req.start + k - 1]

annotateRangeCitations ==
  /\ citPhase = "start" /\ citReq.kind = "range"
  /\ LET m == IF citReq.layout # NoLayout THEN Resolve(citReq.layout, citReq.quote, RangePages(citReq))
              ELSE IF citReq.start > 0 /\ citReq.pdf THEN Match(citReq.start, "page", {}, 0)
              ELSE Match(0, "section", {}, 0)
     IN  pincites' = <<[id |-> 1, citation |-> 1, quote |-> citReq.quote, match |-> m]>>
  /\ citPhase' = "done"
  /\ UNCHANGED <<citReq, marked, choices, citedText>>

CitNext == ReadMarkers \/ ChooseByJudge \/ ChooseByWords \/ Cite \/ annotateRangeCitations

CitEnded == citPhase = "done"

-----------------------------------------------------------------------------
\* A located quote is where the match says: on a page asked for, on lines that
\* together hold at least four in five of its tokens.  It is on the first page
\* that holds all of them, word for word or, for a quote long enough, scattered
\* in a run up to half as long again; if that page has it word for word, its
\* lines are those of the first such run, so the highlight reads as the quote.
\* A quote is given up only when no page has it word for word and no such run
\* of any page holds four in five of its tokens.
QuoteIsWhereItSays ==
  citPhase = "done" /\ citReq.kind = "range" /\ citReq.layout # NoLayout =>
    LET q == citReq.quote
        m == pincites[1].match
        pages == ToSet(RangePages(citReq)) \cap DOMAIN citReq.layout
        text(p) == Texts(pageTokens(citReq.layout[p]))
        reads(p, i) == /\ i + Len(q) - 1 \in DOMAIN text(p)
                       /\ SubSeq(text(p), i, i + Len(q) - 1) = q
        verbatim(p) == \E i \in DOMAIN text(p) : reads(p, i)
        scattered(p, n) == \E i, j \in DOMAIN text(p) :
          /\ j - i + 1 \in Len(q)..(Len(q) + Len(q) \div 2)
          /\ Len(q) >= minFuzzyTokens /\ 5 * Overlap(SubSeq(text(p), i, j), q) >= n * Len(q)
        whole(p) == verbatim(p) \/ scattered(p, 5)
        onLines(p, lines) == LET kept == SelectSeq(pageTokens(citReq.layout[p]), LAMBDA t : t.line \in lines)
                             IN  [k \in DOMAIN kept |-> kept[k].text]
        linesOf(p, i) == {pageTokens(citReq.layout[p])[k].line : k \in i..(i + Len(q) - 1)}
    IN  /\ m.precision = "line" =>
             /\ m.page \in pages /\ m.lines # {}
             /\ 5 * Overlap(onLines(m.page, m.lines), q) >= 4 * Len(q)
             /\ m.score = Len(q) <=> \E p \in pages : whole(p)
             /\ m.score = Len(q) => whole(m.page) /\ \A p \in pages : whole(p) => m.page <= p
             /\ verbatim(m.page) =>
                  \E i \in DOMAIN text(m.page) :
                    /\ reads(m.page, i) /\ m.lines = linesOf(m.page, i)
                    /\ \A k \in 1..(i - 1) : ~reads(m.page, k)
        /\ m.precision # "line" /\ q # <<>> =>
             \A p \in pages : ~verbatim(p) /\ ~scattered(p, 4)

\* Every marker left in an answer leads to a pincite of its own sentence and
\* evidence, every pincite of a marked answer is reached by a marker, and a
\* quote taken from the sentences of the cited page is found on it word for
\* word, so the passage is always highlighted.
MarkersLead ==
  citPhase = "done" /\ citReq.kind = "pages" =>
    LET markers == {x \in (DOMAIN citedText) \X DOMAIN pincites :
                      \E g \in DOMAIN citedText[x[1]] : x[2] \in ToSet(citedText[x[1]][g])}
    IN  /\ \A x \in markers : marked[x[2]].ordinal = x[1]
                              /\ pincites[x[2]].citation \in ToSet(FlattenSeq(citReq.answer[x[1]].marks))
        /\ Inline => {x[2] : x \in markers} = DOMAIN pincites
        /\ \A i \in DOMAIN pincites :
             LET page == citReq.evidence[pincites[i].citation]
             IN  /\ pincites[i].match.page = page
                 /\ pincites[i].quote # <<>> /\ page \in DOMAIN citReq.layout
                    /\ Sentences(citReq.layout[page]) # <<>> => pincites[i].match.precision = "line"
                                                              /\ pincites[i].match.score = Len(pincites[i].quote)

\* Quotes are where they are said to be and markers lead to their pincites.
CitingSound == QuoteIsWhereItSays /\ MarkersLead
=============================================================================
