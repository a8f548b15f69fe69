------------------------------ MODULE MCServing -----------------------------
(* Small documents, requests and replies for the Serving module.           *)
EXTENDS Serving

\* Outlines of four sections, one wide and one deep.
Wide == [kids |-> <<<<2, 3>>, <<>>, <<4>>, <<>>>>, cost |-> <<1, 2, 2, 1>>]
Deep == [kids |-> <<<<2>>, <<3, 4>>, <<>>, <<>>>>, cost |-> <<1, 1, 2, 1>>]
Budget(m, r) == [max |-> m, reserved |-> r]
Request(t, b, kind, stream) == [tree |-> t, budget |-> b, kind |-> kind, stream |-> stream]
MCSelRequests ==
  {Request(Deep, Budget(5, 1), "chunked", TRUE), Request(Wide, Budget(0, 1), "single", TRUE)}
  \cup [tree : {Wide, Deep}, budget : {Budget(3, 1), Budget(3, 9), Budget(0, 1)}, kind : {"chunked"}, stream : {FALSE}]
Pick(id, c) == [id |-> id, conf |-> c]
MCSelReplies == {<<Pick(4, 5), Pick(9, 1), Pick(2, NoConf)>>, <<Pick(3, 1), Pick(3, 2), Pick(1, -1)>>}

WalkOf(pages, tokens) ==
  [tree |-> Deep, body |-> {3}, summary |-> {1, 2}, tokens |-> tokens, pages |-> pages, hops |-> 2]
MCAgRequests == {WalkOf(TRUE, <<0, 0, 2, 2>>), WalkOf(FALSE, <<0, 0, 2, 2>>), WalkOf(TRUE, <<3, 3, 1, 1>>)}
MCAgActions ==
  {Garbled, [action |-> "outline", level |-> 0], [action |-> "jump"]}
  \cup [action : {"expand"}, id : {2, 4}] \cup [action : {"read"}, id : {3, 9}]
  \cup [action : {"done"}, picks : {<<>>, <<Pick(3, -1)>>, <<Pick(4, 3), Pick(9, 1), Pick(2, NoConf), Pick(4, 1)>>}]

\* Contents that overlap, that share no section, and that name no pages.
Span(s, e) == [start |-> s, end |-> e]
Sec(s, e, n) == [start |-> s, end |-> e, chunks |-> n]
JudgeDoc(toc, pages, secs, ordinal, mentions) ==
  [toc |-> toc, pages |-> pages, secs |-> secs, ordinal |-> ordinal, refs |-> mentions]
MCJWDocs ==
  {JudgeDoc(<<Span(1, 2), Span(2, 3), Span(4, 4)>>, 1..4, <<Sec(1, 2, 1), Sec(3, 4, 2)>>, FALSE, <<<<3>>, <<>>, <<1>>>>),
   JudgeDoc(<<Span(1, 2), Span(2, 3)>>, 1..4, <<>>, FALSE, <<<<2>>, <<>>>>),
   JudgeDoc(<<Span(0, 0)>>, {1}, <<Sec(1, 1, 2), Sec(2, 2, 0), Sec(3, 3, 1)>>, TRUE, <<<<2, 3>>, <<>>, <<1>>>>)}

\* Two saves through one replica, one through the other.
Gen(p, k, m) ==
  [provider |-> p, key |-> k, url |-> IF p = "compatible" THEN "http" ELSE "", model |-> m, thinking |-> ""]
JudgeKey == [key |-> "jev", url |-> ""]
SetGen(g) == [gen |-> g, judge |-> Nothing, clearGen |-> FALSE, clearJudge |-> FALSE]
SetJudge == [gen |-> Nothing, judge |-> JudgeKey, clearGen |-> FALSE, clearJudge |-> FALSE]
ClearAll == [gen |-> Nothing, judge |-> Nothing, clearGen |-> TRUE, clearJudge |-> TRUE]
MCAsks ==
  [s1 |-> {SetGen(Gen("openai", "openai", ""))},
   s2 |-> {SetGen(Gen(p, NoKey, "m")) : p \in {"openai", "compatible", "vertex"}},
   s3 |-> {SetJudge, ClearAll}]
MCEnv == [gen |-> Gen("anthropic", "anthropic", ""), judge |-> Nothing]
MCTarget == [s1 |-> "a", s2 |-> "a", s3 |-> "b"]
MCCanOpen == {[a |-> "yes", b |-> x] : x \in {"yes", "corrupt", "nokey"}}

\* Three documents, one of them named twice.
MCCWDocs == <<2, 1, 3, 2>>
Pg(n, p) == [page |-> n, p |-> p]
MCPages == {<<>>, <<Pg(1, 0)>>, <<Pg(1, 1)>>, <<Pg(2, 2), Pg(1, 1)>>}

\* A heading without text of its own, and two sections with the same text.
MCQPDoc ==
  [kids |-> <<<<2, 4>>, <<3>>, <<>>, <<>>>>, text |-> <<{}, {}, {"a", "b"}, {"a", "b"}>>,
   start |-> <<1, 1, 1, 2>>, end |-> <<2, 1, 1, 2>>]
Question1(server, endpoint, query) ==
  [server |-> server, endpoint |-> endpoint, doc |-> "doc", query |-> query,
   plan |-> server = "engine", rerank |-> FALSE, abstain |-> FALSE, k |-> 0]
EngineQuery == [Question1("engine", "query", "x") EXCEPT !.rerank = TRUE, !.abstain = TRUE]
EngineAnswer == Question1("engine", "answer", "x")
ServerQuery == [Question1("server", "query", "x") EXCEPT !.k = 3]
MCScenarios ==
  {<<EngineQuery, EngineAnswer>>, <<EngineQuery, ServerQuery>>, <<[ServerQuery EXCEPT !.doc = "none"]>>,
   <<Question1("server", "answer", "y"), Question1("server", "answer", "x")>>}
MCPlans == {[multi |-> FALSE, subs |-> <<>>], [multi |-> TRUE, subs |-> <<"y", "x">>]}
Choice(ids, conf, pages, mi, mp) == [ids |-> ids, conf |-> conf, pages |-> pages, moreIds |-> mi, morePages |-> mp]
MCSelections ==
  {Choice(<<3, 4, 2>>, 3 :> 1 @@ 4 :> 0, <<>>, <<1>>, <<>>),
   Choice(<<4>>, 4 :> 0, <<Page(2, {"a", "b"}, 1)>>, <<3>>, <<Page(1, {"a", "b"}, 1)>>)}
MCReRanks == {<<>>, <<[id |-> 2, score |-> 1], [id |-> 3, score |-> -1], [id |-> 9, score |-> 2]>>}

\* Two documents fit the library one at a time, one not at all.
MCLibSize == <<2, 4, 2>>
\* The last one is created, looked up and ingested again meanwhile.
MCLibQueries == <<<<>>, <<3>>>>
MCLibIngests == <<0, 0, 1>>

Several(k, d, m) == [kind |-> k, docs |-> d, max |-> m]
MCMQRequests ==
  {Several("multi", <<1, 2, 3>>, 0), Several("stream", <<1, 2, 3>>, 0), Several("multi", <<1>>, 0),
   Several("store", <<2, 1, 2>>, 0), Several("store", <<1, 2, 3>>, 2)}
MCMQPicks == {<<>>, <<1>>, <<1, 3>>, <<2>>}

MCGtConfigs ==
  {[auth |-> "api_key", global |-> 0, rpm |-> 1], [auth |-> "none", global |-> 2, rpm |-> 0],
   [auth |-> "none", global |-> 0, rpm |-> 2]}
=============================================================================
