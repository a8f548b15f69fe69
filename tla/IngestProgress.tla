--------------------------- MODULE IngestProgress ---------------------------
(***************************************************************************)
(* The progress list of a document.  Every delivery of its job keeps a     *)
(* list of stages in memory and writes the whole list to the document's    *)
(* row after each change; the write may fail, and is not repeated.  The    *)
(* warm-up that follows a successful run goes on writing the list of its   *)
(* delivery while a redelivery of the job writes its own.                  *)
(***************************************************************************)
EXTENDS Naturals, Sequences, FiniteSets

CONSTANTS
  PrgPayloads,     \* [mode, pdf, toc, warm]: mode, PDF or not, TOCEnabled, AfterReady set
  PrgDeliveries,   \* deliveries of the job
  PrgCrashes,      \* deliveries whose worker may die
  PrgLosses        \* writes that may fail

ASSUME PrgAssumption == PrgDeliveries \in Nat \ {0} /\ {PrgCrashes, PrgLosses} \subseteq Nat

VARIABLES
  prgJob,      \* the payload
  prgAt,       \* per delivery: [stage, do] it is about to take, or where it ended
  prgList,     \* per delivery: Progress.stages
  prgDirty,    \* deliveries with a change still to be written
  prgStored,   \* the list in the document's row
  prgCrashed,  \* deliveries whose worker died
  prgLost      \* writes that failed

prgVars == <<prgJob, prgAt, prgList, prgDirty, prgStored, prgCrashed, prgLost>>

PrgDeliverySet == 1..PrgDeliveries
Working == <<"parse", "save", "summaries", "contents">>
Phases == <<"detect", "extract", "resolve", "split">>

\* planFor: the stages of a payload; minimal and toc modes write no summaries.
planFor(job) ==
  {"queued", "parse", "save"}
  \cup (IF job.mode = "full" THEN {"summaries"} ELSE {})
  \cup (IF job.pdf /\ (job.mode = "toc" \/ (job.mode = "full" /\ job.toc))
        THEN {"contents", "detect", "extract", "resolve", "split"} ELSE {})
  \cup (IF job.pdf /\ job.warm THEN {"pages"} ELSE {})

At(stage, do) == [stage |-> stage, do |-> do]
NotBegun == At("none", "begin")
Ended == At("none", "end")

PrgBlank ==
  /\ prgAt = [d \in PrgDeliverySet |-> NotBegun] /\ prgList = [d \in PrgDeliverySet |-> <<>>]
  /\ prgDirty = {} /\ prgStored = <<>> /\ prgCrashed = {} /\ prgLost = 0
PrgIdle == prgJob = <<>> /\ PrgBlank
PrgInit == prgJob \in PrgPayloads /\ PrgBlank

-----------------------------------------------------------------------------
\* Where a delivery goes after a stage of the pipeline.
AfterStage(s) ==
  LET rest == {k \in DOMAIN Working : Working[k] \in planFor(prgJob) /\ \A j \in DOMAIN Working : Working[j] = s => j < k}
  IN  IF rest = {} THEN At("ready", "start") ELSE At(Working[CHOOSE k \in rest : \A j \in rest : k <= j], "start")
AfterPhase(s) ==
  IF s = "split" THEN At("contents", "end")
  ELSE At(Phases[(CHOOSE k \in DOMAIN Phases : Phases[k] = s) + 1], "start")

\* update: one stage changes, and the list is to be written.
update(d, s, state, next) ==
  /\ d \notin prgDirty
  /\ prgList' = [prgList EXCEPT ![d][s] = state]
  /\ prgDirty' = prgDirty \cup {d}
  /\ prgAt' = [prgAt EXCEPT ![d] = next]
  /\ UNCHANGED <<prgJob, prgStored, prgCrashed, prgLost>>

GoTo(d, next) ==
  /\ d \notin prgDirty /\ prgAt' = [prgAt EXCEPT ![d] = next]
  /\ UNCHANGED <<prgJob, prgList, prgDirty, prgStored, prgCrashed, prgLost>>

\* flush: the whole list, after the lock is released.
flush(d) ==
  /\ d \in prgDirty /\ prgDirty' = prgDirty \ {d} /\ prgStored' = prgList[d]
  /\ UNCHANGED <<prgJob, prgAt, prgList, prgCrashed, prgLost>>
FlushFails(d) ==
  /\ d \in prgDirty /\ prgLost < PrgLosses
  /\ prgDirty' = prgDirty \ {d} /\ prgLost' = prgLost + 1
  /\ UNCHANGED <<prgJob, prgAt, prgList, prgStored, prgCrashed>>

\* A redelivery begins whatever became of the one before.
NewProgress(d) ==
  /\ prgAt[d] = NotBegun /\ \A e \in 1..(d - 1) : prgAt[e] # NotBegun
  /\ prgList' = [prgList EXCEPT ![d] = [s \in planFor(prgJob) |-> "pending"]]
  /\ prgDirty' = prgDirty \cup {d}
  /\ prgAt' = [prgAt EXCEPT ![d] = At("queued", "start")]
  /\ UNCHANGED <<prgJob, prgStored, prgCrashed, prgLost>>

\* The time in the queue is known when the document can be read.
QueuedSpan(d) == prgAt[d] = At("queued", "start") /\ update(d, "queued", "done", At("parse", "start"))
QueuedUnknown(d) == prgAt[d] = At("queued", "start") /\ GoTo(d, At("parse", "start"))

StageOf(d, do) == {s \in planFor(prgJob) \ {"queued"} : prgAt[d] = At(s, do)}

Start(d) == \E s \in StageOf(d, "start") :
  update(d, s, "running", IF s = "contents" THEN At("detect", "start") ELSE At(s, "end"))

Done(d) == \E s \in StageOf(d, "end") :
  update(d, s, "done",
    IF s \in {"detect", "extract", "resolve", "split"} THEN AfterPhase(s)
    ELSE IF s = "pages" THEN Ended ELSE AfterStage(s))

\* Reading or saving fails the run; the warm-up only its stage.
Fail(d) == \E s \in StageOf(d, "end") \cap {"parse", "save", "pages"} : update(d, s, "failed", Ended)

\* Mutant: the phase is marked instead of its parent.
FailPhaseOnly(d) == prgAt[d] = At("extract", "end") /\ update(d, "extract", "failed", AfterStage("contents"))

\* Build fails while it reads the entries: the contents are marked failed
\* and the document goes on without them.
BuildFailed(d) == prgAt[d] = At("extract", "end") /\ update(d, "contents", "failed", AfterStage("contents"))

SkipContents(d) == prgAt[d] = At("contents", "start") /\ update(d, "contents", "skipped", AfterStage("contents"))
NothingToPlace(d) == prgAt[d] = At("resolve", "start") /\ update(d, "resolve", "done", At("split", "end"))
SkipPages(d) == prgAt[d] = At("pages", "end") /\ update(d, "pages", "skipped", Ended)

\* The document's status is written before parsing, before summaries and
\* when it is ready; an error ends the run.
StatusFails(d) ==
  prgAt[d] \in {At("parse", "start"), At("summaries", "start"), At("ready", "start")} /\ GoTo(d, Ended)

BecomeReady(d) ==
  prgAt[d] = At("ready", "start") /\ GoTo(d, IF "pages" \in planFor(prgJob) THEN At("pages", "start") ELSE Ended)

Crash(d) ==
  /\ prgAt[d] \notin {NotBegun, Ended} /\ Cardinality(prgCrashed) < PrgCrashes
  /\ prgCrashed' = prgCrashed \cup {d} /\ prgDirty' = prgDirty \ {d}
  /\ prgAt' = [prgAt EXCEPT ![d] = Ended]
  /\ UNCHANGED <<prgJob, prgList, prgStored, prgLost>>

PrgNext == \E d \in PrgDeliverySet :
  \/ NewProgress(d) \/ QueuedSpan(d) \/ QueuedUnknown(d) \/ Start(d) \/ Done(d) \/ Fail(d)
  \/ BuildFailed(d) \/ SkipContents(d) \/ NothingToPlace(d) \/ SkipPages(d)
  \/ StatusFails(d) \/ BecomeReady(d) \/ flush(d) \/ FlushFails(d) \/ Crash(d)

PrgEnded == prgDirty = {} /\ \A d \in PrgDeliverySet : prgAt[d] = Ended

-----------------------------------------------------------------------------
Closed == {"done", "failed", "skipped"}
Order == <<"parse", "save", "summaries", "contents", "pages">>

\* A list of stages an ingest can have: they begin in order, nothing follows a
\* stage that ends the run, and a phase of the contents begins only while the
\* contents do and is done when they are.
PossibleList(list) ==
  LET begun(s) == s \in DOMAIN list /\ list[s] # "pending"
  IN  /\ \A i, j \in DOMAIN Order : i < j /\ Order[i] \in DOMAIN list /\ begun(Order[j]) =>
           /\ list[Order[i]] \in Closed
           /\ Order[i] \in {"parse", "save"} => list[Order[i]] # "failed"
      /\ \A i, j \in DOMAIN Phases : i < j /\ begun(Phases[j]) => list[Phases[i]] = "done"
      /\ \A i \in DOMAIN Phases : Phases[i] \in DOMAIN list =>
           /\ begun(Phases[i]) => list["contents"] \in {"running", "done", "failed"}
           /\ list["contents"] = "done" => list[Phases[i]] = "done"

\* No stage is left running, save the reading of entries that failed the
\* contents (BuildFailed closes only the parent).
NothingRuns(list) ==
  \A s \in DOMAIN list : list[s] = "running" => s = "extract" /\ list["contents"] = "failed"

\* What a reader of the row is told is possible at every moment, deliveries
\* overlapping and writes lost; and when every delivery has ended alive and
\* was heard, no stage is left running.
ProgressTells ==
  prgStored # <<>> =>
    /\ PossibleList(prgStored)
    /\ PrgEnded /\ prgCrashed = {} /\ prgLost = 0 => NothingRuns(prgStored)
=============================================================================
