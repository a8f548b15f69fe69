---------------------------- MODULE IngestStages ----------------------------
(***************************************************************************)
(* The two LLM stages of a full ingest, run side by side on the sections   *)
(* of one document: summarize, which goes up the tree layer by layer so    *)
(* that a parent's summary is made from its children's, and the HyDE stage *)
(* (generateCandidateQuestions), which takes the leaves in any order.      *)
(* Every section is a goroutine that takes a slot of its stage, then one   *)
(* of the pipeline's LLM slots, calls the model and writes its row.        *)
(*                                                                         *)
(* The job's context may end and the document may be deleted at any time.  *)
(* A later delivery of the job finds the rows an earlier one left.         *)
(***************************************************************************)
EXTENDS Naturals, FiniteSets

CONSTANTS
  Sections,            \* section rows of the document
  Parent,              \* parent of a section, NoParent at the top
  NoParent,
  Depth,               \* depth of a section, 0 at the top
  HyDEEnabled,         \* Pipeline.HyDEEnabled
  SummaryAxesEnabled,  \* Pipeline.SummaryAxesEnabled
  Concurrency,         \* slots of a stage: SummaryConcurrency, HyDEConcurrency
  GlobalLLM,           \* LLM calls of both stages at once; 0 is no limit
  MaxRuns,             \* bound: deliveries that get this far
  MaxFailures          \* bound: storage, database and LLM calls that fail

Stages == {"summarize", "hyde"}

ASSUME StagesAssumption ==
  /\ IsFiniteSet(Sections)
  /\ Parent \in [Sections -> Sections \cup {NoParent}]
  /\ NoParent \notin Sections
  /\ Depth \in [Sections -> Nat]
  /\ \A s \in Sections : Parent[s] # NoParent => Depth[s] = Depth[Parent[s]] + 1
  /\ HyDEEnabled \in BOOLEAN /\ SummaryAxesEnabled \in BOOLEAN
  /\ Concurrency \in [Stages -> Nat \ {0}]
  /\ GlobalLLM \in Nat
  /\ MaxRuns \in Nat \ {0}
  /\ MaxFailures \in Nat

TaskStep == {"none", "queued", "slot", "llm", "write", "axes", "over"}

VARIABLES
  summary,    \* sections with a summary in their row,
  axes,       \*   with summary_axes,
  questions,  \*   with candidate_questions
  madeIn,     \* the delivery that wrote a section's summary, 0 for none
  madeOf,     \* the children whose summaries a summary was made from
  stage,      \* where each stage is: "list", "run" or "done"
  listed,     \* sections that had a summary when summarize listed them
  layer,      \* depth summarize has got to
  task,       \* where the goroutine of a section is
  computed,   \* one-line summaries made by this delivery, not yet in a row
  errs,       \* stages that have collected an error
  held,       \* slots taken of each stage,
  inflight,   \*   and of the pipeline
  cancelled,  \* has the job's context ended?
  alive,      \* does the document exist?
  runs, failures

rows == <<summary, axes, questions, madeIn>>
slots == <<held, inflight>>
world == <<cancelled, alive, runs>>
vars == <<summary, axes, questions, madeIn, madeOf, stage, listed, layer, task,
          computed, errs, held, inflight, cancelled, alive, runs, failures>>

Tasks == [Sections -> TaskStep]

\* The deepest layer; maxDepth starts from 0.
MaxDepth ==
  CHOOSE m \in {0} \cup {Depth[s] : s \in Sections} : \A s \in Sections : Depth[s] <= m

TypeOK ==
  /\ summary \subseteq Sections /\ axes \subseteq Sections /\ questions \subseteq Sections
  /\ madeIn \in [Sections -> 0..MaxRuns]
  /\ madeOf \in [Sections -> SUBSET Sections]
  /\ stage \in [Stages -> {"list", "run", "done"}]
  /\ listed \subseteq Sections
  /\ layer \in 0..MaxDepth
  /\ task \in [Stages -> Tasks]
  /\ computed \subseteq Sections
  /\ errs \subseteq Stages
  /\ \A st \in Stages : held[st] \in 0..Concurrency[st]
  /\ inflight \in Nat /\ (GlobalLLM > 0 => inflight <= GlobalLLM)
  /\ cancelled \in BOOLEAN /\ alive \in BOOLEAN
  /\ runs \in 1..MaxRuns
  /\ failures \in 0..MaxFailures

\* runParallelStages: no HyDE stage unless it is enabled.
Launched == [st \in Stages |-> IF st = "hyde" /\ ~HyDEEnabled THEN "done" ELSE "list"]
NoTasks == [st \in Stages |-> [s \in Sections |-> "none"]]

Init ==
  /\ summary = {} /\ axes = {} /\ questions = {}
  /\ madeIn = [s \in Sections |-> 0] /\ madeOf = [s \in Sections |-> {}]
  /\ stage = Launched /\ task = NoTasks
  /\ listed = {} /\ layer = MaxDepth /\ computed = {} /\ errs = {}
  /\ held = [st \in Stages |-> 0] /\ inflight = 0
  /\ cancelled = FALSE /\ alive = TRUE /\ runs = 1 /\ failures = 0

-----------------------------------------------------------------------------
Children(s) == {c \in Sections : Parent[c] = s}
Leaf(s) == Children(s) = {}

Failure == failures < MaxFailures /\ failures' = failures + 1

\* A database call on the job's context.
DBOk == ~cancelled /\ UNCHANGED failures
DBErr == (cancelled /\ UNCHANGED failures) \/ (~cancelled /\ Failure)

Goto(st, s, step) == task' = [task EXCEPT ![st][s] = step]
Note(st) == errs' = errs \cup {st}

\* Sections a stage has something to do for, among the rows it reads.
Work(st) ==
  IF ~alive THEN {}
  ELSE IF st = "summarize" THEN Sections \ summary
  ELSE {s \in Sections : Leaf(s) /\ s \notin questions}

\* ListSectionsForWorker: without the list the stage is over.
List(st) ==
  /\ stage[st] = "list"
  /\ \/ /\ DBOk
        /\ stage' = [stage EXCEPT ![st] = "run"]
        /\ task' = [task EXCEPT ![st] =
                      [s \in Sections |-> IF s \in Work(st) THEN "queued" ELSE "none"]]
        /\ listed' = IF st = "summarize" THEN summary ELSE listed
        /\ UNCHANGED errs
     \/ /\ DBErr
        /\ stage' = [stage EXCEPT ![st] = "done"]
        /\ Note(st)
        /\ UNCHANGED <<task, listed>>
  /\ UNCHANGED <<rows, madeOf, layer, computed, slots, world>>

\* Mutant: every section starts at once, children or not.
StartedAtOnce(st, s) == stage[st] = "run"

\* summarize starts the sections of one layer; HyDE starts all of them.
Started(st, s) == stage[st] = "run" /\ (st = "summarize" => Depth[s] = layer)

\* A slot of the stage; a summary then looks up what its children have.
Slot(st, s) ==
  /\ Started(st, s) /\ task[st][s] = "queued"
  /\ held[st] < Concurrency[st]
  /\ held' = [held EXCEPT ![st] = @ + 1]
  /\ Goto(st, s, "slot")
  /\ madeOf' = IF st = "summarize"
                 THEN [madeOf EXCEPT ![s] = Children(s) \cap (computed \cup listed)]
                 ELSE madeOf
  /\ UNCHANGED <<rows, stage, listed, layer, computed, errs, inflight, world, failures>>

\* globalLLMSem has a free place; without a limit there is no semaphore.
SlotFree == GlobalLLM > 0 => inflight < GlobalLLM

\* acquireGlobalLLM: a slot of the pipeline, when it has a limit.
Acquire(st, s) ==
  /\ task[st][s] = "slot"
  /\ SlotFree
  /\ inflight' = inflight + 1
  /\ Goto(st, s, "llm")
  /\ UNCHANGED <<rows, madeOf, stage, listed, layer, computed, errs, held, world, failures>>

\* The context ends while a goroutine waits for either slot: it returns
\* without an error.
GiveUp(st, s) ==
  /\ cancelled
  /\ \/ /\ Started(st, s) /\ task[st][s] = "queued"
        /\ UNCHANGED held
     \/ /\ task[st][s] = "slot" /\ GlobalLLM > 0
        /\ held' = [held EXCEPT ![st] = @ - 1]
  /\ Goto(st, s, "over")
  /\ UNCHANGED <<rows, madeOf, stage, listed, layer, computed, errs, inflight,
                 world, failures>>

\* Mutant: the LLM slot is only given back after a successful call.
ReleaseOnSuccess(ok) == inflight' = IF ok THEN inflight - 1 ELSE inflight

\* The LLM slot is given back as soon as the call returns.
Release(ok) == inflight' = inflight - 1

\* summaryFor and candidateQuestionsFor: the text of a leaf is read from
\* storage; with axes a model that fails is replaced by an excerpt.
MayFail(st, s) == st = "hyde" \/ Leaf(s) \/ ~SummaryAxesEnabled

Called(st, s) ==
  /\ task[st][s] = "llm"
  /\ Goto(st, s, "write")
  /\ computed' = IF st = "summarize" THEN computed \cup {s} ELSE computed
  /\ Release(TRUE)
  /\ UNCHANGED <<rows, madeOf, stage, listed, layer, errs, held, world, failures>>

\* A failed call is collected; HyDE may also come back without questions.
CallFailed(st, s) ==
  /\ task[st][s] = "llm"
  /\ \/ /\ MayFail(st, s)
        /\ ((cancelled \/ ~alive) /\ UNCHANGED failures) \/ Failure
        /\ Note(st)
     \/ st = "hyde" /\ UNCHANGED <<errs, failures>>
  /\ Goto(st, s, "over")
  /\ Release(FALSE)
  /\ held' = [held EXCEPT ![st] = @ - 1]
  /\ UNCHANGED <<rows, madeOf, stage, listed, layer, computed, world>>

\* Mutant: the error of a row update is dropped.
KeepErrs(st) == UNCHANGED errs

CollectErr(st) == Note(st)

\* UpdateSectionSummary, UpdateSectionCandidateQuestions: a row that is gone
\* is not an error.
Write(st, s) ==
  /\ task[st][s] = "write"
  /\ \/ /\ DBOk
        /\ IF st = "summarize" /\ alive
             THEN summary' = summary \cup {s} /\ madeIn' = [madeIn EXCEPT ![s] = runs]
             ELSE UNCHANGED <<summary, madeIn>>
        /\ questions' = IF st = "hyde" /\ alive THEN questions \cup {s} ELSE questions
        /\ UNCHANGED errs
     \/ /\ DBErr
        /\ CollectErr(st)
        /\ UNCHANGED <<summary, madeIn, questions>>
  /\ LET more == st = "summarize" /\ SummaryAxesEnabled IN
       /\ Goto(st, s, IF more THEN "axes" ELSE "over")
       /\ held' = IF more THEN held ELSE [held EXCEPT ![st] = @ - 1]
  /\ UNCHANGED <<axes, madeOf, stage, listed, layer, computed, inflight, world>>

\* UpdateSectionSummaryAxes, also after a failed summary update.
WriteAxes(s) ==
  /\ task["summarize"][s] = "axes"
  /\ \/ /\ DBOk
        /\ axes' = IF alive THEN axes \cup {s} ELSE axes
        /\ UNCHANGED errs
     \/ DBErr /\ CollectErr("summarize") /\ UNCHANGED axes
  /\ Goto("summarize", s, "over")
  /\ held' = [held EXCEPT !["summarize"] = @ - 1]
  /\ UNCHANGED <<summary, questions, madeIn, madeOf, stage, listed, layer, computed,
                 inflight, world>>

\* g.Wait: a layer, or the HyDE stage, is over with its last goroutine.
Wait(st) ==
  /\ stage[st] = "run"
  /\ \A s \in Sections : Started(st, s) => task[st][s] \in {"none", "over"}
  /\ IF st = "summarize" /\ layer > 0
       THEN layer' = layer - 1 /\ UNCHANGED stage
       ELSE stage' = [stage EXCEPT ![st] = "done"] /\ UNCHANGED layer
  /\ UNCHANGED <<rows, madeOf, listed, task, computed, errs, slots, world, failures>>

-----------------------------------------------------------------------------
Ended == \A st \in Stages : stage[st] = "done"

\* The job's context ends, by its timeout or a shutdown.
Cancel ==
  /\ ~cancelled /\ cancelled' = TRUE
  /\ UNCHANGED <<rows, madeOf, stage, listed, layer, task, computed, errs, slots,
                 alive, runs, failures>>

\* The document is deleted, its rows with it.
Delete ==
  /\ alive /\ alive' = FALSE
  /\ summary' = {} /\ axes' = {} /\ questions' = {}
  /\ UNCHANGED <<madeIn, madeOf, stage, listed, layer, task, computed, errs, slots,
                 cancelled, runs, failures>>

\* The next delivery starts its stages from the rows the last one left. (Its
\* own persist adds a second set of rows, which fare like a first delivery's.)
Deliver ==
  /\ runs < MaxRuns /\ runs' = runs + 1
  /\ stage' = Launched /\ task' = NoTasks
  /\ listed' = {} /\ layer' = MaxDepth /\ computed' = {} /\ errs' = {}
  /\ cancelled' = FALSE
  /\ UNCHANGED <<rows, madeOf, alive, failures>>

\* The run fails at a later step; the pipeline, and its semaphore, live on.
Redeliver == Ended /\ Deliver /\ UNCHANGED slots

\* The worker dies in the middle of a stage and another takes the job.
Crash ==
  /\ ~Ended /\ Deliver
  /\ held' = [st \in Stages |-> 0] /\ inflight' = 0

StageStep ==
  \E st \in Stages :
    \/ List(st) \/ Wait(st)
    \/ \E s \in Sections :
         \/ Slot(st, s) \/ Acquire(st, s) \/ GiveUp(st, s)
         \/ Called(st, s) \/ CallFailed(st, s) \/ Write(st, s)
         \/ st = "summarize" /\ WriteAxes(s)

Next == StageStep \/ Cancel \/ Delete \/ Redeliver \/ Crash

Spec == Init /\ [][Next]_vars

\* Some goroutine that can run does: the scheduler is work-conserving and an
\* LLM call ends by LLMCallTimeout. No goroutine is assumed to get a slot.
FairSpec == Spec /\ WF_vars(StageStep)

-----------------------------------------------------------------------------
\* Both semaphores count exactly the goroutines that hold them, on every
\* path out, so the pipeline-wide limit on LLM calls is neither exceeded nor
\* eaten up by failures.
SlotsBalance ==
  LET at(st, steps) == {s \in Sections : task[st][s] \in steps} IN
    /\ \A st \in Stages :
         held[st] = Cardinality(at(st, {"slot", "llm", "write", "axes"}))
    /\ inflight = Cardinality(at("summarize", {"llm"})) + Cardinality(at("hyde", {"llm"}))

\* A parent's summary is made from the summary of every child that has one.
\* An earlier delivery's summary is kept, so this is promised of the ones
\* made by the present delivery only.
ParentSeesChildren ==
  \A p \in summary : madeIn[p] = runs => Children(p) \cap summary \subseteq madeOf[p]

\* A summarize stage that reports no error has left no section of a live
\* document without a summary, nor one it summarised itself without its
\* axes; only the end of the context is silent. (The axes an earlier
\* delivery failed to write are never made up for: the summary hides them.)
NoSilentGap ==
  /\ stage["summarize"] = "done" /\ "summarize" \notin errs
  /\ alive /\ ~cancelled
  => /\ summary = Sections
     /\ SummaryAxesEnabled => \A s \in Sections : madeIn[s] = runs => s \in axes

\* Whatever fails, both stages end, so the document can go on to ready.
StagesEnd == stage["summarize"] = "list" ~> Ended
====
