------------------------------ MODULE MCContent -----------------------------
(* Small documents, answers and payloads for the Content module.           *)
EXTENDS Content

Entry(t, p, d) == [title |-> t, printed |-> p, depth |-> d, container |-> FALSE]
PartEntry(t) == [title |-> t, printed |-> 0, depth |-> 1, container |-> TRUE]
NoEntries(last) == [p \in 1..last |-> <<>>]
HeadLine(t, p) == [title |-> t, start |-> p]

\* A filing in parts, with a title listed three times.
Filing == [last |-> 5, blank |-> {}, judge |-> TRUE, minimal |-> FALSE, listed |-> {1},
  entries |-> [NoEntries(5) EXCEPT ![1] = <<PartEntry("I"), Entry("a", 1, 2), Entry("b", 2, 2),
                                            PartEntry("II"), Entry("b", 3, 2), Entry("b", 0, 2)>>],
  prefixes |-> {}, hits |-> ("a" :> {1, 3} @@ "b" :> {2, 4}), heads |-> <<>>, over |-> 0]
\* Titles found out of order, on pages they share.
Tangled == [Filing EXCEPT
  !.entries[1] = <<Entry("a", 1, 1), Entry("b", 2, 1), Entry("c", 3, 1), Entry("d", 4, 2)>>,
  !.hits = ("a" :> {3, 4} @@ "b" :> {2, 3} @@ "c" :> {2} @@ "d" :> {5})]
\* Large leaves, one with a contents page inside, and a running header.
Report == [last |-> 6, blank |-> {2}, judge |-> TRUE, minimal |-> TRUE, listed |-> {1, 3, 4},
  entries |-> [NoEntries(6) EXCEPT
     ![1] = <<Entry("x", 1, 1), Entry("y", 2, 1), Entry("x", 0, 1), Entry("z", 6, 1), PartEntry("end")>>,
     ![4] = <<Entry("y", 3, 1), Entry("p", 4, 1), Entry("q", 5, 1)>>],
  prefixes |-> {<<"x", "xx">>}, hits |-> ("y" :> {3} @@ "p" :> {4, 5} @@ "q" :> {4}),
  heads |-> <<HeadLine("p", 3), HeadLine("h", 3), HeadLine("h", 5),
              HeadLine("run", 3), HeadLine("run", 4), HeadLine("run", 5)>>, over |-> 2]
NoJudge == [Filing EXCEPT !.judge = FALSE, !.last = 3]
MCTocDocs == {Filing, Tangled, Report, NoJudge}

Item(s, t, p) == [struct |-> s, title |-> t, start |-> p]
MCTocReplies ==
  {<<>>, <<Item(<<>>, "", 2)>>,
   <<Item(<<1>>, "g", 3), Item(<<1, 1, 1>>, "a", 1), Item(<<1, 2>>, "b", 9), Item(<<2>>, "h", 2)>>,
   <<Item(<<1>>, "g", 0), Item(<<1, 1>>, "a", 3), Item(<<2>>, "b", 2), Item(<<>>, "c", 2)>>,
   <<Item(<<1>>, "g", 1), Item(<<1, 1>>, "a", 0), Item(<<1, 1, 1>>, "b", 3), Item(<<1, 1, 2>>, "c", 2)>>}

Word(t) == [tok |-> t, ends |-> FALSE]
EndWord(t) == [tok |-> t, ends |-> TRUE]
Line(k, ws) == [kind |-> k, words |-> ws]
Words(toks) == [k \in DOMAIN toks |-> Word(toks[k])]
TwoLines(t) == <<Line("text", Words(SubSeq(t, 1, 3))), Line("text", Words(SubSeq(t, 4, 6)))>>

\* Quotes looked for on every page of six words over three tokens, followed by
\* a page that has the first word for word and the second scrambled, by one
\* that has the first with a word too many, and by one that has neither.
SecondPages == {<<3, 1, 2, 3, 1, 2>>, <<3, 1, 2, 3, 3, 1>>, <<3, 3, 2, 3, 1, 3>>}
MCCitRanges ==
  {[kind |-> "range", quote |-> q, start |-> 1, end |-> 2, pdf |-> TRUE, layout |-> <<TwoLines(t), TwoLines(u)>>] :
     q \in {<<1, 2, 3, 1>>, <<1, 1, 2, 3, 2>>, <<2, 1>>, <<>>}, t \in [1..6 -> {1, 2, 3}], u \in SecondPages}
  \cup {[kind |-> "range", quote |-> <<1>>, start |-> s, end |-> 0, pdf |-> p, layout |-> l] :
     s \in {0, 2}, p \in BOOLEAN, l \in {NoLayout, <<TwoLines(<<2, 2, 2, 1, 1, 1>>)>>}}

CitedPage == <<Line("heading", Words(<<1, 2, 3>>)), Line("text", <<Word(1), Word(5), EndWord(4), Word(2), Word(3)>>),
               Line("number", Words(<<9>>)), Line("text", <<Word(5), Word(1), Word(2), Word(3), EndWord(4)>>),
               Line("row", Words(<<6, 1, 9>>))>>
Sentence(ws, g) == [words |-> ws, marks |-> g]
MCCitAnswers ==
  {[kind |-> "pages", answer |-> a, evidence |-> <<1, 3>>, pdf |-> p, layout |-> l,
    text |-> <<CitedPage, CitedPage>>, judge |-> j] :
     a \in {<<Sentence(<<1, 9, 5>>, <<<<1, 2>>, <<2, 7>>>>), Sentence(<<4>>, <<>>), Sentence(<<2, 3>>, <<<<1, 1>>, <<1>>>>)>>,
            <<Sentence(<<5, 6>>, <<<<9>>>>), Sentence(<<8>>, <<>>)>>},
     p \in BOOLEAN, j \in BOOLEAN,
     l \in {NoLayout, <<CitedPage, CitedPage>>, <<CitedPage, CitedPage, <<Line("text", Words(<<1, 2>>))>>>>}}

Payload(m, p, t, w) == [mode |-> m, pdf |-> p, toc |-> t, warm |-> w]
MCPayloads ==
  {Payload("full", TRUE, TRUE, TRUE), Payload("full", FALSE, TRUE, TRUE),
   Payload("minimal", TRUE, TRUE, FALSE), Payload("toc", TRUE, FALSE, TRUE)}
=============================================================================
