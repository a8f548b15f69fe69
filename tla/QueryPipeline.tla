--------------------------- MODULE QueryPipeline ---------------------------
(***************************************************************************)
(* Questions about one document, from request to response: the engine's    *)
(* /v1/query and /v1/answer (planner, decomposition, abstention, units,    *)
(* re-rank, spans) and the server's (selection, units, answer from pages   *)
(* or sections).  Requests run side by side and share the planner's cache  *)
(* and lock, the selection cache in front of a strategy with a fallback,   *)
(* and the store /v1/replay reads.                                         *)
(*                                                                         *)
(* A selection is [ids, conf, pages, moreIds, morePages]; the caches hold  *)
(* it with [of, by]: the question it answers and who answered it.          *)
(***************************************************************************)
EXTENDS Evidence, LruCache

CONSTANTS
  QPDoc,          \* the document; any other name is not found
  QPScenarios,    \* requests that meet: 1..n -> [server, endpoint, doc, query, plan, rerank, abstain, k]
  QPPlans,        \* what the planner may reply: [multi, subs]
  QPSelections,   \* what a strategy may select
  QPScores,       \* what the re-ranker may reply
  QPMarks,        \* sets of evidence numbers an answer may mark
  QPLost,         \* sets of sections whose text cannot be read
  QPCacheMax, QPReplayMax, QPTopK,
  QPThreshold,    \* Abstain.Below
  QPFaults,       \* model calls that may fail, and entries that may expire
  NoPlan

QPRequestType ==
  [server: {"engine", "server"}, endpoint: {"query", "answer"}, doc: STRING, query: STRING,
   plan: BOOLEAN, rerank: BOOLEAN, abstain: BOOLEAN, k: Nat]
QPPlanType == [multi: BOOLEAN, subs: Seq(STRING)]

ASSUME QPAssumption ==
  /\ QPScenarios \subseteq Seq(QPRequestType)
  /\ QPPlans \subseteq QPPlanType /\ NoPlan \notin QPPlanType
  /\ {QPCacheMax, QPReplayMax} \subseteq Nat \ {0}

Free == 0         \* no request holds the planner's lock

VARIABLES
  qpAsk,       \* the requests
  qpStep,      \* request -> where its handler is
  qpPlan,      \* request -> the plan it got
  qpTodo,      \* request -> questions still to select for
  qpFound,     \* request -> selections so far
  qpUnits,     \* request -> units of its response
  qpOut,       \* request -> its response
  planCache, planLock, selCache, replayStore,
  outages,     \* questions on which the primary's provider was unavailable
  replayed,    \* the last replay: [ask, status, body]
  qpFaults

qpVars == <<qpAsk, qpStep, qpPlan, qpTodo, qpFound, qpUnits, qpOut, planCache, planLock,
            selCache, replayStore, outages, replayed, qpFaults>>
qpShared == <<qpAsk, planCache, planLock, selCache, replayStore, outages, replayed>>

qpAsked == DOMAIN qpAsk
NoResponse == [status |-> 0, ids |-> <<>>, token |-> <<>>]
NoReplay == [ask |-> 0, status |-> 0, body |-> 0]

QPBlank ==
  /\ qpStep = [q \in qpAsked |-> "start"] /\ qpPlan = [q \in qpAsked |-> NoPlan]
  /\ qpTodo = [q \in qpAsked |-> <<>>] /\ qpFound = [q \in qpAsked |-> <<>>]
  /\ qpUnits = [q \in qpAsked |-> <<>>] /\ qpOut = [q \in qpAsked |-> NoResponse]
  /\ planCache = <<>> /\ planLock = Free /\ selCache = <<>> /\ replayStore = <<>>
  /\ outages = {} /\ replayed = NoReplay /\ qpFaults = 0
QPInit == qpAsk \in QPScenarios /\ QPBlank
QPIdle == qpAsk = <<>> /\ QPBlank

At(q, step) == qpStep[q] = step
Goto(q, step) == qpStep' = [qpStep EXCEPT ![q] = step]
QPFault == qpFaults < QPFaults /\ qpFaults' = qpFaults + 1

\* The response is written and the handler returns.
Send(q, response) ==
  /\ Goto(q, "done")
  /\ qpOut' = [qpOut EXCEPT ![q] = response]
  /\ qpTodo' = [qpTodo EXCEPT ![q] = <<>>] /\ qpFound' = [qpFound EXCEPT ![q] = <<>>]
Refuse(q, status) == Send(q, [NoResponse EXCEPT !.status = status])

-----------------------------------------------------------------------------
(***************************************************************************)
(* The four handlers up to selection.                                      *)
(***************************************************************************)
planningEnabled(r) == r.server = "engine" /\ r.plan

Opens(q, server, endpoint) ==
  /\ At(q, "start") /\ qpAsk[q].server = server /\ qpAsk[q].endpoint = endpoint
  /\ IF qpAsk[q].doc # "doc" THEN Refuse(q, 404)
     ELSE /\ Goto(q, IF planningEnabled(qpAsk[q]) THEN "plan" ELSE "select")
          /\ qpTodo' = [qpTodo EXCEPT ![q] = <<qpAsk[q].query>>]
          /\ UNCHANGED <<qpFound, qpOut>>
  /\ UNCHANGED <<qpPlan, qpUnits, qpShared, qpFaults>>

handleQuery(q) == Opens(q, "engine", "query")
handleAnswer(q) == Opens(q, "engine", "answer")
HandleQuery(q) == Opens(q, "server", "query")
HandleAnswer(q) == Opens(q, "server", "answer")

-----------------------------------------------------------------------------
(***************************************************************************)
(* Planner.Plan: the cache, then the lock and the cache again, then the    *)
(* model.  A planner that fails leaves the request without a plan.         *)
(***************************************************************************)
\* A plan that says multi-hop without sub-questions is not.
ParsePlan(reply) == [reply EXCEPT !.multi = @ /\ reply.subs # <<>>]

shouldDecompose(plan) == plan # NoPlan /\ plan.multi /\ plan.subs # <<>>

\* The plan in hand, which questions are selected for.
Planned(q, plan) ==
  /\ Goto(q, "select")
  /\ qpPlan' = [qpPlan EXCEPT ![q] = plan]
  /\ qpTodo' = [qpTodo EXCEPT ![q] = IF shouldDecompose(plan) THEN plan.subs ELSE @]

LookUpPlan(q) ==
  LET key == qpAsk[q].query
  IN  /\ At(q, "plan")
      /\ planCache' = LruGet(planCache, key)
      /\ IF LruHolds(planCache, key) THEN Planned(q, LruValue(planCache, key))
         ELSE Goto(q, "lock") /\ UNCHANGED <<qpPlan, qpTodo>>
      /\ UNCHANGED <<qpAsk, qpFound, qpUnits, qpOut, planLock, selCache, replayStore, outages, replayed, qpFaults>>

\* Mutant: the cache is not looked at again under the lock.
LockAndPlan(q) ==
  /\ At(q, "lock") /\ planLock = Free
  /\ Goto(q, "planning") /\ planLock' = q
  /\ UNCHANGED <<qpAsk, qpPlan, qpTodo, qpFound, qpUnits, qpOut, planCache, selCache, replayStore, outages, replayed, qpFaults>>

LockPlanner(q) ==
  LET key == qpAsk[q].query
  IN  /\ At(q, "lock") /\ planLock = Free
      /\ planCache' = LruGet(planCache, key)
      /\ IF LruHolds(planCache, key) THEN Planned(q, LruValue(planCache, key)) /\ UNCHANGED planLock
         ELSE Goto(q, "planning") /\ planLock' = q /\ UNCHANGED <<qpPlan, qpTodo>>
      /\ UNCHANGED <<qpAsk, qpFound, qpUnits, qpOut, selCache, replayStore, outages, replayed, qpFaults>>

PlanReplied(q) == \E reply \in QPPlans :
  /\ At(q, "planning")
  /\ planCache' = LruSet(planCache, qpAsk[q].query, ParsePlan(reply), QPCacheMax)
  /\ planLock' = Free
  /\ Planned(q, ParsePlan(reply))
  /\ UNCHANGED <<qpAsk, qpFound, qpUnits, qpOut, selCache, replayStore, outages, replayed, qpFaults>>

\* The call failed, or every attempt gave a reply that does not parse.
PlanFails(q) ==
  /\ At(q, "planning") /\ QPFault
  /\ planLock' = Free /\ Planned(q, NoPlan)
  /\ UNCHANGED <<qpAsk, qpFound, qpUnits, qpOut, planCache, selCache, replayStore, outages, replayed>>

-----------------------------------------------------------------------------
(***************************************************************************)
(* Cached(Fallback(primary)): one question after the other.                *)
(***************************************************************************)
Question(q) == Head(qpTodo[q])

\* The next question, or the end of the selection.
Took(q, sel) ==
  /\ qpFound' = [qpFound EXCEPT ![q] = Append(@, sel)]
  /\ qpTodo' = [qpTodo EXCEPT ![q] = Tail(@)]
  /\ Goto(q, IF Len(qpTodo[q]) = 1 THEN "selected" ELSE "select")

LookUpSelection(q) ==
  /\ At(q, "select")
  /\ selCache' = LruGet(selCache, Question(q))
  /\ IF LruHolds(selCache, Question(q)) THEN Took(q, LruValue(selCache, Question(q)))
     ELSE Goto(q, "primary") /\ UNCHANGED <<qpFound, qpTodo>>
  /\ UNCHANGED <<qpAsk, qpPlan, qpUnits, qpOut, planCache, planLock, replayStore, outages, replayed, qpFaults>>

Selected(q, by, sel) ==
  LET found == [sel |-> sel, of |-> Question(q), by |-> by]
  IN  /\ selCache' = LruSet(selCache, Question(q), found, QPCacheMax)
      /\ Took(q, found)
      /\ UNCHANGED <<qpAsk, qpPlan, qpUnits, qpOut, planCache, planLock, replayStore, outages, replayed, qpFaults>>

PrimarySelects(q) == At(q, "primary") /\ \E sel \in QPSelections : Selected(q, "primary", sel)
FallbackSelects(q) == At(q, "fallback") /\ \E sel \in QPSelections : Selected(q, "fallback", sel)

\* 401, 402, 403, 5xx or a model that is not available; anything else is the
\* request's error, and so is a failure of the fallback.
ProviderUnavailable(q) ==
  /\ At(q, "primary") /\ QPFault
  /\ Goto(q, "fallback") /\ outages' = outages \cup {Question(q)}
  /\ UNCHANGED <<qpAsk, qpPlan, qpTodo, qpFound, qpUnits, qpOut, planCache, planLock, selCache, replayStore, replayed>>

SelectionFails(q) ==
  /\ At(q, "primary") \/ At(q, "fallback")
  /\ QPFault /\ Refuse(q, 500)
  /\ UNCHANGED <<qpPlan, qpUnits, qpShared>>

-----------------------------------------------------------------------------
(***************************************************************************)
(* From the selection to the response.                                     *)
(***************************************************************************)
\* A decomposed selection keeps ids and confidences only.
Chosen(q) ==
  LET one == qpFound[q][1].sel
      all == Union([i \in DOMAIN qpFound[q] |-> qpFound[q][i].sel])
  IN  IF ~shouldDecompose(qpPlan[q]) THEN one
      ELSE [one EXCEPT !.ids = all.ids, !.conf = all.conf, !.pages = <<>>, !.moreIds = <<>>, !.morePages = <<>>]

abstentionEnabled(r) == r.server = "engine" /\ r.abstain

respondAbstained(q) ==
  /\ At(q, "selected")
  /\ abstentionEnabled(qpAsk[q]) /\ shouldAbstain(Chosen(q).conf, QPThreshold)
  /\ Refuse(q, 200)
  /\ UNCHANGED <<qpPlan, qpUnits, qpShared, qpFaults>>

\* What each handler hands to AssembleUnits.
Shown(q) ==
  LET sel == Chosen(q)
      r == qpAsk[q]
  IN  IF r.endpoint = "query" THEN sel
      ELSE IF r.server = "engine" THEN [sel EXCEPT !.pages = <<>>, !.moreIds = <<>>, !.morePages = <<>>]
      ELSE IF sel.pages # <<>> THEN [sel EXCEPT !.ids = <<>>, !.moreIds = <<>>]
      ELSE [sel EXCEPT !.morePages = <<>>]

\* 5 in the code; small enough here to cut a selection.
defaultMaxSections == 2
UnitLimit(r) == IF r.endpoint = "answer" /\ r.k = 0 THEN defaultMaxSections ELSE r.k

reRankEnabled(r) == r.server = "engine" /\ r.rerank

Assemble(q) == \E lost \in QPLost :
  /\ At(q, "selected")
  /\ ~(abstentionEnabled(qpAsk[q]) /\ shouldAbstain(Chosen(q).conf, QPThreshold))
  /\ qpUnits' = [qpUnits EXCEPT ![q] = AssembleUnits(QPDoc, lost, Shown(q), UnitLimit(qpAsk[q])).units]
  /\ Goto(q, IF reRankEnabled(qpAsk[q]) THEN "rerank" ELSE "write")
  /\ UNCHANGED <<qpPlan, qpTodo, qpFound, qpOut, qpShared, qpFaults>>

\* Re-ranking reorders and cuts the sections; pages keep their places.
runReRank(q) == \E reply \in QPScores :
  LET secs == SectionUnits(qpUnits[q])
      order == mergeScored(Refs(secs), ParseReRank(reply))
      pages == SelectSeq(qpUnits[q], LAMBDA u : u.kind = "page")
  IN  /\ At(q, "rerank")
      /\ qpUnits' = [qpUnits EXCEPT ![q] =
           pages \o IF QPTopK = 0 THEN reorderByScore(secs, order) ELSE FirstN(reorderByScore(secs, order), QPTopK)]
      /\ Goto(q, "write")
      /\ UNCHANGED <<qpPlan, qpTodo, qpFound, qpOut, qpShared, qpFaults>>

\* A re-ranker that fails keeps the order and every section; one that cannot
\* be parsed keeps the order and is cut.
ReRankFails(q) ==
  /\ At(q, "rerank") /\ QPFault /\ Goto(q, "write")
  /\ UNCHANGED <<qpPlan, qpTodo, qpFound, qpUnits, qpOut, qpShared>>

\* The document, the model and the sections, in any order; not the question.
ComputeTraceToken(doc, ids) == <<doc, ToSet(ids)>>

\* The response's bytes stand for the request they answer.
writeJSONWithReplay(q, ids) ==
  LET token == ComputeTraceToken(qpAsk[q].doc, ids)
  IN  /\ Send(q, [status |-> 200, ids |-> ids, token |-> token])
      /\ replayStore' = LruSet(replayStore, token,
           [doc |-> qpAsk[q].doc, query |-> qpAsk[q].query, body |-> q], QPReplayMax)

WriteQuery(q) ==
  /\ At(q, "write") /\ qpAsk[q].server = "engine" /\ qpAsk[q].endpoint = "query"
  /\ writeJSONWithReplay(q, Refs(SectionUnits(qpUnits[q])))
  /\ UNCHANGED <<qpAsk, qpPlan, qpUnits, planCache, planLock, selCache, outages, replayed, qpFaults>>

\* The server's query endpoint gives no token.
WriteUnits(q) ==
  /\ At(q, "write") /\ qpAsk[q].server = "server" /\ qpAsk[q].endpoint = "query"
  /\ Send(q, [status |-> 200, ids |-> Refs(SectionUnits(qpUnits[q])), token |-> <<>>])
  /\ UNCHANGED <<qpPlan, qpUnits, qpShared, qpFaults>>

\* The server answers from pages when its strategy gave some.
FromPages(q) == qpAsk[q].server = "server" /\ Chosen(q).pages # <<>>

synthesiseAnswer(q) ==
  /\ At(q, "write") /\ qpAsk[q].server = "engine" /\ qpAsk[q].endpoint = "answer"
  /\ writeJSONWithReplay(q, Refs(qpUnits[q]))
  /\ UNCHANGED <<qpAsk, qpPlan, qpUnits, planCache, planLock, selCache, outages, replayed, qpFaults>>

answerFromSections(q) ==
  /\ At(q, "write") /\ qpAsk[q].server = "server" /\ qpAsk[q].endpoint = "answer" /\ ~FromPages(q)
  /\ writeJSONWithReplay(q, Refs(qpUnits[q]))
  /\ UNCHANGED <<qpAsk, qpPlan, qpUnits, planCache, planLock, selCache, outages, replayed, qpFaults>>

\* The sections on the pages the answer marks, or on every page when it
\* marks none.
answerFromPages(q) == \E marks \in QPMarks :
  LET cited == Cited(marks, Len(qpUnits[q]))
      pages == [i \in DOMAIN cited |-> sectionsOnPage(QPDoc, qpUnits[q][cited[i]].ref)]
  IN  /\ At(q, "write") /\ qpAsk[q].endpoint = "answer" /\ FromPages(q)
      /\ writeJSONWithReplay(q, Distinct(FlattenSeq(pages), LAMBDA s : s))
      /\ UNCHANGED <<qpAsk, qpPlan, qpUnits, planCache, planLock, selCache, outages, replayed, qpFaults>>

\* The model gives no answer, or an empty one about pages.
AnswerFails(q) ==
  /\ At(q, "write") /\ qpAsk[q].endpoint = "answer" /\ QPFault
  /\ Refuse(q, 500)
  /\ UNCHANGED <<qpPlan, qpUnits, qpShared>>

-----------------------------------------------------------------------------
\* A client asks again for the response to its request, by the token in it.
handleReplay(q) ==
  LET token == qpOut[q].token
      entry == LruValue(replayStore, token)
      status == IF ~LruHolds(replayStore, token) THEN 404
                ELSE IF entry.doc # qpAsk[q].doc \/ entry.query # qpAsk[q].query THEN 409 ELSE 200
  IN  /\ token # <<>>
      /\ replayStore' = LruGet(replayStore, token)
      /\ replayed' = [ask |-> q, status |-> status, body |-> IF status = 200 THEN entry.body ELSE 0]
      /\ UNCHANGED <<qpAsk, qpStep, qpPlan, qpTodo, qpFound, qpUnits, qpOut, planCache, planLock, selCache, outages, qpFaults>>

\* An entry outlives its time.
EntryExpires ==
  /\ QPFault
  /\ \/ \E i \in DOMAIN planCache : planCache' = LruExpire(planCache, i) /\ UNCHANGED <<selCache, replayStore>>
     \/ \E i \in DOMAIN selCache : selCache' = LruExpire(selCache, i) /\ UNCHANGED <<planCache, replayStore>>
     \/ \E i \in DOMAIN replayStore : replayStore' = LruExpire(replayStore, i) /\ UNCHANGED <<planCache, selCache>>
  /\ UNCHANGED <<qpAsk, qpStep, qpPlan, qpTodo, qpFound, qpUnits, qpOut, planLock, outages, replayed>>

QPHandle(q) ==
  \/ handleQuery(q) \/ handleAnswer(q) \/ HandleQuery(q) \/ HandleAnswer(q)
  \/ LookUpPlan(q) \/ LockPlanner(q) \/ PlanReplied(q) \/ PlanFails(q)
  \/ LookUpSelection(q) \/ PrimarySelects(q) \/ FallbackSelects(q) \/ ProviderUnavailable(q) \/ SelectionFails(q)
  \/ respondAbstained(q) \/ Assemble(q) \/ runReRank(q) \/ ReRankFails(q)
  \/ WriteQuery(q) \/ WriteUnits(q) \/ synthesiseAnswer(q) \/ answerFromSections(q) \/ answerFromPages(q) \/ AnswerFails(q)

QPNext == (\E q \in qpAsked : QPHandle(q) \/ handleReplay(q)) \/ EntryExpires

QPEnded == \A q \in qpAsked : At(q, "done")

-----------------------------------------------------------------------------
\* One request at a time asks the planning model, and none asks about a
\* question whose plan is in the cache: requests that waited for the lock
\* find the plan the first one stored (Planner.Plan's second look).
PlannedOnce ==
  \A q \in qpAsked : At(q, "planning") =>
    /\ planLock = q
    /\ \A r \in qpAsked : At(r, "planning") => r = q
    /\ ~LruHolds(planCache, qpAsk[q].query)

\* A request is answered from selections made for its own questions, whoever
\* asked first, in the order the plan put them; the fallback's are among them
\* only when the primary's provider was unavailable for that question.
AnsweredFromOwnSelection ==
  \A q \in qpAsked :
    LET asked == IF shouldDecompose(qpPlan[q]) THEN qpPlan[q].subs ELSE <<qpAsk[q].query>>
    IN  \A i \in DOMAIN qpFound[q] :
          /\ i <= Len(asked) /\ qpFound[q][i].of = asked[i]
          /\ qpFound[q][i].by = "fallback" => qpFound[q][i].of \in outages

\* The units of a response: no more than asked for, no section or page
\* twice, none that repeats four fifths of what stands before it, none
\* without text, and what scored below the evidence only after all of it.
UnitsAreSound ==
  \A q \in qpAsked :
    LET us == qpUnits[q]
        before(i) == UNION {us[j].text : j \in 1..(i - 1)}
    IN  /\ UnitLimit(qpAsk[q]) > 0 => Len(us) <= UnitLimit(qpAsk[q])
        /\ \A i, j \in DOMAIN us : us[i].kind = us[j].kind /\ us[i].ref = us[j].ref => i = j
        /\ \A i \in DOMAIN us : us[i].text # {}
        /\ ~reRankEnabled(qpAsk[q]) =>
             \A i \in DOMAIN us : /\ us[i].kind = "section" => ~repeats(before(i), us[i].text)
                                  /\ us[i].runnerUp => \A j \in DOMAIN us : j > i => us[j].runnerUp

\* What a replay returns is a response the server gave to the same question
\* about the same document, even when another request has stored its own
\* under the token since (handleReplay's comparison with the entry).
ReplayIsAnAnswer ==
  replayed.status = 200 =>
    /\ qpAsk[replayed.body].query = qpAsk[replayed.ask].query
    /\ qpAsk[replayed.body].doc = qpAsk[replayed.ask].doc
    /\ qpOut[replayed.body].token = qpOut[replayed.ask].token

\* Requests that share the planner, the caches and the replay store get what
\* is theirs: planned once, answered from selections of their own questions,
\* and replayed only what answers the same question.
AnswersSound == PlannedOnce /\ AnsweredFromOwnSelection /\ ReplayIsAnAnswer
=============================================================================
