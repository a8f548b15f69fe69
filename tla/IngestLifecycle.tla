-------------------------- MODULE IngestLifecycle --------------------------
(***************************************************************************)
(* The life of a document: the upload handler, the queue that delivers its *)
(* ingest job, the pipeline that turns the source into a section tree, and *)
(* the delete handler with its purge of stored files.                      *)
(*                                                                         *)
(* pc[d][a] is where the a-th delivery of document d's job has got to in   *)
(* Pipeline.Run.  A step is one database or storage call, so deliveries,   *)
(* deletes, cancelled contexts and crashes interleave between any two of   *)
(* them.  Summaries, HyDE questions and progress rows never decide the     *)
(* status of a document and belong to the stage modules.                   *)
(***************************************************************************)
EXTENDS Naturals, FiniteSets

CONSTANTS
  Docs,         \* document ids the upload handler mints
  Sections,     \* sections of a parsed document that carry text
  Payloads,     \* ingest requests: [mode, pdf, text], see PayloadType
  Backend,      \* queue driver: "river", "asynq" or "qstash"
  MaxAttempts,  \* deliveries before the queue gives a job up
  TOCEnabled,   \* Pipeline.TOCEnabled
  MaxDBFaults,  \* bound: database calls that fail
  MaxCancels,   \* bound: job contexts cancelled (job timeout, shutdown)
  MaxCrashes,   \* bound: worker processes that die
  MaxTimeouts   \* bound: deliveries the queue stops waiting for

Modes == {"full", "toc", "minimal"}
\* What the source holds: text that parses to sections, bytes that never parse,
\* or blank text, of which every parser but the PDF one makes no section at all.
PayloadType ==
  {p \in [mode: Modes, pdf: BOOLEAN, text: {"sections", "bad", "blank"}] :
     p.pdf => p.text # "blank"}

ASSUME LifecycleAssumption ==
  /\ Payloads \subseteq PayloadType
  /\ Backend \in {"river", "asynq", "qstash"}
  /\ MaxAttempts \in Nat \ {0}
  /\ TOCEnabled \in BOOLEAN
  /\ MaxDBFaults \in Nat
  /\ MaxCancels \in Nat
  /\ MaxCrashes \in Nat
  /\ MaxTimeouts \in Nat

Attempt == 1..MaxAttempts

LiveStatus == {"pending", "parsing", "summarizing", "ready", "failed"}
Status == LiveStatus \cup {"absent", "deleted"}
UploadStep == {"new", "put", "inserted", "accepted", "rejected"}
JobState == {"none", "queued", "running", "done", "dead"}
RunStep == {"start", "parse", "texts", "commit", "summarizing", "enrich",
            "pages", "toc", "ready", "fail", "ok", "err"}
PurgeStep == {"idle", "documents", "pages", "done"}

VARIABLES
  row,       \* documents.status; "absent" or "deleted" when there is no row
  sections,  \* section rows of a document, as the deliveries that wrote them
  toc,       \* is documents.toc_tree set?
  source,    \* is the uploaded object in storage?
  pages,     \* is the per-page text object in storage?
  texts,     \* section text objects in storage, <<delivery, section>>
  upload,    \* progress of the upload handler
  payload,   \* the request the document comes with, the job's payload
  jobState,  \* the queue's record of the job: its state,
  attempts,  \*   how often it was delivered,
  rescued,   \*   and whether a delivery was rescued from a dead worker
  pc,        \* a delivery: its next step,
  perm,      \*   whether its failure is a PermanentError,
  cancelled, \*   whether its context has ended,
  todo,      \*   and the section texts it has still to write
  purge,     \* progress of the delete handler's purge
  purgeErrs, \* did a prefix fail to be purged?
  faults, cancels, crashes, timeouts   \* how much of each bound is used

storage == <<source, pages, texts>>
job == <<jobState, attempts, rescued>>
exec == <<pc, perm, cancelled, todo>>
purging == <<purge, purgeErrs>>
bounds == <<faults, cancels, crashes, timeouts>>
vars == <<row, sections, toc, source, pages, texts, upload, payload,
          jobState, attempts, rescued, pc, perm, cancelled, todo,
          purge, purgeErrs, faults, cancels, crashes, timeouts>>

TypeOK ==
  /\ row \in [Docs -> Status]
  /\ sections \in [Docs -> SUBSET Attempt]
  /\ toc \in [Docs -> BOOLEAN]
  /\ source \in [Docs -> BOOLEAN]
  /\ pages \in [Docs -> BOOLEAN]
  /\ texts \in [Docs -> SUBSET (Attempt \X Sections)]
  /\ upload \in [Docs -> UploadStep]
  /\ payload \in [Docs -> Payloads]
  /\ jobState \in [Docs -> JobState]
  /\ attempts \in [Docs -> 0..MaxAttempts]
  /\ rescued \in [Docs -> BOOLEAN]
  /\ pc \in [Docs -> [Attempt -> RunStep \cup {"none", "over"}]]
  /\ perm \in [Docs -> [Attempt -> BOOLEAN]]
  /\ cancelled \in [Docs -> [Attempt -> BOOLEAN]]
  /\ todo \in [Docs -> [Attempt -> SUBSET Sections]]
  /\ purge \in [Docs -> PurgeStep]
  /\ purgeErrs \in [Docs -> BOOLEAN]
  /\ faults \in 0..MaxDBFaults
  /\ cancels \in 0..MaxCancels
  /\ crashes \in 0..MaxCrashes
  /\ timeouts \in 0..MaxTimeouts

Init ==
  /\ row = [d \in Docs |-> "absent"]
  /\ sections = [d \in Docs |-> {}]
  /\ toc = [d \in Docs |-> FALSE]
  /\ source = [d \in Docs |-> FALSE]
  /\ pages = [d \in Docs |-> FALSE]
  /\ texts = [d \in Docs |-> {}]
  /\ upload = [d \in Docs |-> "new"]
  /\ payload \in [Docs -> Payloads]
  /\ jobState = [d \in Docs |-> "none"]
  /\ attempts = [d \in Docs |-> 0]
  /\ rescued = [d \in Docs |-> FALSE]
  /\ pc = [d \in Docs |-> [a \in Attempt |-> "none"]]
  /\ perm = [d \in Docs |-> [a \in Attempt |-> FALSE]]
  /\ cancelled = [d \in Docs |-> [a \in Attempt |-> FALSE]]
  /\ todo = [d \in Docs |-> [a \in Attempt |-> {}]]
  /\ purge = [d \in Docs |-> "idle"]
  /\ purgeErrs = [d \in Docs |-> FALSE]
  /\ faults = 0 /\ cancels = 0 /\ crashes = 0 /\ timeouts = 0

-----------------------------------------------------------------------------
(***************************************************************************)
(* What the queue drivers do differently.  Only River hands the attempt    *)
(* number to the handler and cancels a job on a PermanentError; Asynq and  *)
(* QStash rebuild the Job without its attempt fields, so every delivery    *)
(* looks like the last one, and they retry every error.                    *)
(***************************************************************************)
TracksAttempts == Backend = "river"
StopsOnPermanent == Backend = "river"

\* Mutant: River's worker gives up on a handler as well, which runs on.
RedeliversAll == TRUE

\* Asynq and QStash redeliver a job whose handler is still running once
\* their own timeout passes; River waits for the handler to return.
Redelivers == Backend # "river"

\* Handler(): is this delivery the last one, as far as the job tells?
isLastAttempt(a) == ~TracksAttempts \/ a >= MaxAttempts

RowExists(d) == row[d] \in LiveStatus

\* UPDATE documents SET status ... WHERE id = $1: no row, no effect, no error.
SetDocumentStatus(d, s) ==
  row' = IF RowExists(d) THEN [row EXCEPT ![d] = s] ELSE row

\* The sections the parser finds in a document's source.
ParsedSections(d) == IF payload[d].text = "blank" THEN {} ELSE Sections

\* The delivery whose result the queue is waiting for.
Awaited(d, a) == jobState[d] = "running" /\ attempts[d] = a

SetJobState(d, state) == jobState' = [jobState EXCEPT ![d] = state]
At(d, a, step) == pc[d][a] = step
Move(d, a, step) == pc' = [pc EXCEPT ![d][a] = step]
GoTo(d, a, step) == Move(d, a, step) /\ UNCHANGED <<perm, cancelled, todo>>

\* A database call on the job's context.  One that returns an error may have
\* been carried out all the same: the context ended, or the connection broke,
\* before the reply came back.
DBOk(d, a) == ~cancelled[d][a] /\ UNCHANGED faults
DBFault == faults < MaxDBFaults /\ faults' = faults + 1
DBErr(d, a) ==
  \/ cancelled[d][a] /\ UNCHANGED faults
  \/ ~cancelled[d][a] /\ DBFault

-----------------------------------------------------------------------------
(***************************************************************************)
(* HandleIngestDocument: store the source, insert the row, enqueue.  Each  *)
(* call may be carried out and still be answered with an error.            *)
(***************************************************************************)
PutSource(d) ==
  /\ upload[d] = "new"
  /\ \/ /\ source' = [source EXCEPT ![d] = TRUE]
        /\ upload' \in {[upload EXCEPT ![d] = "put"], [upload EXCEPT ![d] = "rejected"]}
     \/ /\ upload' = [upload EXCEPT ![d] = "rejected"]
        /\ UNCHANGED source
  /\ UNCHANGED <<row, sections, toc, pages, texts, payload, job, exec, purging, bounds>>

NewDocument(d) ==
  /\ upload[d] = "put"
  /\ \/ /\ row' = [row EXCEPT ![d] = "pending"]
        /\ upload' \in {[upload EXCEPT ![d] = "inserted"], [upload EXCEPT ![d] = "rejected"]}
     \/ /\ upload' = [upload EXCEPT ![d] = "rejected"]
        /\ UNCHANGED row
  /\ UNCHANGED <<sections, toc, storage, payload, job, exec, purging, bounds>>

Enqueue(d) ==
  /\ upload[d] = "inserted"
  /\ \/ /\ SetJobState(d, "queued")
        /\ upload' \in {[upload EXCEPT ![d] = "accepted"], [upload EXCEPT ![d] = "rejected"]}
     \/ /\ upload' = [upload EXCEPT ![d] = "rejected"]
        /\ UNCHANGED jobState
  /\ UNCHANGED <<attempts, rescued>>
  /\ UNCHANGED <<row, sections, toc, storage, payload, exec, purging, bounds>>

-----------------------------------------------------------------------------
(***************************************************************************)
(* The queue.                                                              *)
(***************************************************************************)
Deliver(d, a) ==
  /\ jobState[d] = "queued"
  /\ a = attempts[d] + 1
  /\ SetJobState(d, "running")
  /\ attempts' = [attempts EXCEPT ![d] = a]
  /\ GoTo(d, a, "start")
  /\ UNCHANGED rescued
  /\ UNCHANGED <<row, sections, toc, storage, upload, payload, purging, bounds>>

\* Mutant: off by one, the last attempt is put back with no attempt left.
RetryPastLast(a, permanent) ==
  IF a > MaxAttempts \/ (permanent /\ StopsOnPermanent) THEN "dead" ELSE "queued"

\* What the queue does with a job whose delivery a did not succeed.
RetryOrBury(a, permanent) ==
  IF a >= MaxAttempts \/ (permanent /\ StopsOnPermanent) THEN "dead" ELSE "queued"

\* The queue hears the outcome of a delivery it still waits for.
Report(d, a, state) ==
  IF Awaited(d, a) THEN SetJobState(d, state) ELSE UNCHANGED jobState

Return(d, a) ==
  /\ \/ /\ At(d, a, "ok")
        /\ Report(d, a, "done")
     \/ /\ At(d, a, "err")
        /\ Report(d, a, RetryOrBury(a, perm[d][a]))
  /\ GoTo(d, a, "over")
  /\ UNCHANGED <<attempts, rescued>>
  /\ UNCHANGED <<row, sections, toc, storage, upload, payload, purging, bounds>>

Running(d, a) == pc[d][a] \in RunStep

\* The worker process dies; the queue rescues the job it was working.
Crash(d, a) ==
  /\ Running(d, a)
  /\ crashes < MaxCrashes /\ crashes' = crashes + 1
  /\ Report(d, a, RetryOrBury(a, FALSE))
  /\ rescued' = [rescued EXCEPT ![d] = @ \/ Awaited(d, a)]
  /\ GoTo(d, a, "over")
  /\ UNCHANGED attempts
  /\ UNCHANGED <<row, sections, toc, storage, upload, payload, purging,
                 faults, cancels, timeouts>>

\* The job's context ends: River's JobTimeout, QStash hanging up, shutdown.
Cancel(d, a) ==
  /\ Running(d, a)
  /\ ~cancelled[d][a]
  /\ cancels < MaxCancels /\ cancels' = cancels + 1
  /\ cancelled' = [cancelled EXCEPT ![d][a] = TRUE]
  /\ UNCHANGED <<pc, perm, todo>>
  /\ UNCHANGED <<row, sections, toc, storage, upload, payload, job, purging,
                 faults, crashes, timeouts>>

\* The queue stops waiting for a delivery whose handler runs on.
DeliveryTimeout(d, a) ==
  /\ Redelivers
  /\ Running(d, a) /\ Awaited(d, a)
  /\ timeouts < MaxTimeouts /\ timeouts' = timeouts + 1
  /\ Report(d, a, RetryOrBury(a, FALSE))
  /\ UNCHANGED <<attempts, rescued>>
  /\ UNCHANGED <<row, sections, toc, storage, upload, payload, exec, purging,
                 faults, cancels, crashes>>

-----------------------------------------------------------------------------
(***************************************************************************)
(* Pipeline.run and runMinimal, one delivery.                              *)
(***************************************************************************)
\* A status write of the pipeline; its error returns without Pipeline.fail.
StatusStep(d, a, from, status, to) ==
  /\ At(d, a, from)
  /\ \/ DBOk(d, a) /\ SetDocumentStatus(d, status) /\ GoTo(d, a, to)
     \/ DBErr(d, a) /\ SetDocumentStatus(d, status) /\ GoTo(d, a, "err")
     \/ DBErr(d, a) /\ UNCHANGED row /\ GoTo(d, a, "err")
  /\ UNCHANGED <<sections, toc, storage, upload, payload, job, purging,
                 cancels, crashes, timeouts>>

SetParsing(d, a) == StatusStep(d, a, "start", "parsing", "parse")

\* parse: fetch the source and run the parser.  A missing source, a timeout
\* or a cancelled context is transient; bad bytes are a PermanentError.
Parse(d, a) ==
  /\ At(d, a, "parse")
  /\ \/ /\ source[d] /\ payload[d].text # "bad"
        /\ Move(d, a, "texts")
        /\ todo' = [todo EXCEPT ![d][a] = ParsedSections(d)]
        /\ UNCHANGED <<perm, cancelled>>
     \/ /\ source[d] /\ payload[d].text = "bad"
        /\ Move(d, a, "fail")
        /\ perm' = [perm EXCEPT ![d][a] = TRUE]
        /\ UNCHANGED <<cancelled, todo>>
     \/ GoTo(d, a, "fail")
  /\ UNCHANGED <<row, sections, toc, storage, upload, payload, job, purging, bounds>>

\* Mutant: does not wait for the writers before committing the rows.
PutTextNoWait(d, a) ==
  /\ At(d, a, "texts")
  /\ \/ \E s \in todo[d][a] :
          /\ texts' = [texts EXCEPT ![d] = @ \cup {<<a, s>>}]
          /\ todo' = [todo EXCEPT ![d][a] = @ \ {s}]
          /\ UNCHANGED <<pc, perm, cancelled>>
     \/ GoTo(d, a, "commit") /\ UNCHANGED texts
  /\ UNCHANGED <<row, sections, toc, source, pages, upload, payload, job, purging, bounds>>

\* persistTree: section texts are written concurrently, in any order; the
\* first failure abandons the rest, as does that of the title write before.
PutText(d, a) ==
  /\ At(d, a, "texts")
  /\ \/ \E s \in todo[d][a] :
          /\ texts' = [texts EXCEPT ![d] = @ \cup {<<a, s>>}]
          /\ todo' = [todo EXCEPT ![d][a] = @ \ {s}]
          /\ UNCHANGED <<pc, perm, cancelled>>
     \/ /\ todo[d][a] = {}
        /\ GoTo(d, a, "commit")
        /\ UNCHANGED texts
     \/ /\ todo[d][a] # {} \/ ParsedSections(d) = {}
        /\ GoTo(d, a, "fail")
        /\ UNCHANGED texts
  /\ UNCHANGED <<row, sections, toc, source, pages, upload, payload, job, purging, bounds>>

AfterTree(d) == IF payload[d].mode = "full" THEN "summarizing" ELSE "pages"

CommitTree(d, a) == RowExists(d) /\ sections' = [sections EXCEPT ![d] = @ \cup {a}]

\* Mutant: the error of UpsertSections is dropped.
UpsertErrorDropped(d, a) ==
  /\ At(d, a, "commit")
  /\ \/ ParsedSections(d) = {} /\ UNCHANGED <<sections, faults>>
     \/ ParsedSections(d) # {} /\ DBOk(d, a) /\ CommitTree(d, a)
     \/ ParsedSections(d) # {} /\ DBErr(d, a) /\ UNCHANGED sections
  /\ GoTo(d, a, AfterTree(d))
  /\ UNCHANGED <<row, toc, storage, upload, payload, job, purging,
                 cancels, crashes, timeouts>>

\* persistTree: every row in one transaction, under the ids minted by this
\* delivery.  The foreign key refuses the rows of a deleted document; a
\* document without sections asks nothing of the database and goes on.
UpsertSections(d, a) ==
  /\ At(d, a, "commit")
  /\ \/ /\ ParsedSections(d) = {}
        /\ GoTo(d, a, AfterTree(d))
        /\ UNCHANGED <<sections, faults>>
     \/ /\ ParsedSections(d) # {}
        /\ DBOk(d, a) /\ CommitTree(d, a)
        /\ GoTo(d, a, AfterTree(d))
     \/ /\ ParsedSections(d) # {}
        /\ \/ ~RowExists(d) /\ UNCHANGED <<sections, faults>>
           \/ DBErr(d, a) /\ UNCHANGED sections
           \/ DBErr(d, a) /\ CommitTree(d, a)
        /\ GoTo(d, a, "fail")
  /\ UNCHANGED <<row, toc, storage, upload, payload, job, purging,
                 cancels, crashes, timeouts>>

SetSummarizing(d, a) == StatusStep(d, a, "summarizing", "summarizing", "enrich")

\* runParallelStages: errors of summarize and HyDE are logged, never fatal.
Enrich(d, a) ==
  /\ At(d, a, "enrich")
  /\ GoTo(d, a, "pages")
  /\ UNCHANGED <<row, sections, toc, storage, upload, payload, job, purging, bounds>>

BuildsTOC(d) ==
  /\ payload[d].pdf
  /\ payload[d].mode = "toc" \/ (payload[d].mode = "full" /\ TOCEnabled)

\* runTOCBuilder, first half: the per-page text, written best effort.
PersistPages(d, a) ==
  /\ At(d, a, "pages")
  /\ \/ /\ BuildsTOC(d)
        /\ pages' \in {pages, [pages EXCEPT ![d] = TRUE]}
        /\ GoTo(d, a, "toc")
     \/ /\ GoTo(d, a, "ready")      \* no builder, or no page text to read
        /\ UNCHANGED pages
  /\ UNCHANGED <<row, sections, toc, source, texts, upload, payload, job, purging, bounds>>

\* runTOCBuilder, second half: a failed or empty build leaves toc_tree alone.
UpdateDocumentTOCTree(d, a) ==
  /\ At(d, a, "toc")
  /\ \/ /\ ~cancelled[d][a] /\ RowExists(d)
        /\ toc' = [toc EXCEPT ![d] = TRUE]
     \/ UNCHANGED toc
  /\ GoTo(d, a, "ready")
  /\ UNCHANGED <<row, sections, storage, upload, payload, job, purging, bounds>>

SetReady(d, a) == StatusStep(d, a, "ready", "ready", "ok")

\* Mutants: every failure is terminal; the status is the "processing" the list
\* endpoint documents.
FailAtOnce(d, a) == "failed"
FailAsProcessing(d, a) == IF perm[d][a] THEN "failed" ELSE "processing"

\* Pipeline.fail: on a fresh context, "parsing" while a retry is expected,
\* "failed" otherwise; a write that fails is only logged.
FailStatus(d, a) ==
  IF ~perm[d][a] /\ ~isLastAttempt(a) THEN "parsing" ELSE "failed"

Fail(d, a) ==
  /\ At(d, a, "fail")
  /\ \/ SetDocumentStatus(d, FailStatus(d, a)) /\ UNCHANGED faults
     \/ DBFault /\ UNCHANGED row
  /\ GoTo(d, a, "err")
  /\ UNCHANGED <<sections, toc, storage, upload, payload, job, purging,
                 cancels, crashes, timeouts>>

-----------------------------------------------------------------------------
(***************************************************************************)
(* HandleDeleteDocument: the row first (sections cascade), then every      *)
(* prefix of the document's files; a prefix that fails is skipped.         *)
(***************************************************************************)
DeleteDocument(d) ==
  /\ RowExists(d)
  /\ row' = [row EXCEPT ![d] = "deleted"]
  /\ sections' = [sections EXCEPT ![d] = {}]
  /\ toc' = [toc EXCEPT ![d] = FALSE]
  /\ purge' \in {[purge EXCEPT ![d] = "documents"], purge}   \* purge: the reply was lost
  /\ UNCHANGED purgeErrs
  /\ UNCHANGED <<storage, upload, payload, job, exec, bounds>>

PurgeDocuments(d) ==
  /\ purge[d] = "documents"
  /\ \/ /\ source' = [source EXCEPT ![d] = FALSE]
        /\ texts' = [texts EXCEPT ![d] = {}]
        /\ UNCHANGED purgeErrs
     \/ /\ purgeErrs' = [purgeErrs EXCEPT ![d] = TRUE]
        /\ UNCHANGED <<source, texts>>
  /\ purge' = [purge EXCEPT ![d] = "pages"]
  /\ UNCHANGED <<row, sections, toc, pages, upload, payload, job, exec, bounds>>

PurgePages(d) ==
  /\ purge[d] = "pages"
  /\ \/ /\ pages' = [pages EXCEPT ![d] = FALSE]
        /\ UNCHANGED purgeErrs
     \/ /\ purgeErrs' = [purgeErrs EXCEPT ![d] = TRUE]
        /\ UNCHANGED pages
  /\ purge' = [purge EXCEPT ![d] = "done"]
  /\ UNCHANGED <<row, sections, toc, source, texts, upload, payload, job, exec, bounds>>

-----------------------------------------------------------------------------
UploadNext(d) == PutSource(d) \/ NewDocument(d) \/ Enqueue(d)

RunNext(d, a) ==
  \/ SetParsing(d, a) \/ Parse(d, a) \/ PutText(d, a) \/ UpsertSections(d, a)
  \/ SetSummarizing(d, a) \/ Enrich(d, a) \/ PersistPages(d, a)
  \/ UpdateDocumentTOCTree(d, a) \/ SetReady(d, a) \/ Fail(d, a)

QueueNext(d, a) == Deliver(d, a) \/ Return(d, a)
TroubleNext(d, a) == Crash(d, a) \/ Cancel(d, a) \/ DeliveryTimeout(d, a)
DeleteNext(d) == DeleteDocument(d) \/ PurgeDocuments(d) \/ PurgePages(d)

Next ==
  \E d \in Docs :
    \/ UploadNext(d)
    \/ DeleteNext(d)
    \/ \E a \in Attempt : RunNext(d, a) \/ QueueNext(d, a) \/ TroubleNext(d, a)

Spec == Init /\ [][Next]_vars

\* The queue delivers what it holds and a running handler keeps going; users
\* owe nothing, and crashes, cancellations and timeouts never have to happen.
Fairness ==
  \A d \in Docs, a \in Attempt : WF_vars(RunNext(d, a)) /\ WF_vars(QueueNext(d, a))

FairSpec == Spec /\ Fairness

-----------------------------------------------------------------------------
(***************************************************************************)
(* Properties.                                                             *)
(***************************************************************************)
\* Every reference a live row holds resolves: the uploaded source, and the
\* ContentRef of each section of each committed tree.  It rests on texts
\* being stored before their rows and rows being deleted before files.
RefsResolve ==
  \A d \in Docs :
    /\ RowExists(d) => source[d]
    /\ sections[d] \X Sections \subseteq texts[d]

\* A document whose source parses to sections is never served as ready without
\* a committed tree, whichever delivery reached ready and whatever the others
\* did meanwhile.  One that parses to none is: its tree has no row to commit.
ReadyHasTree ==
  \A d \in Docs : row[d] = "ready" /\ ParsedSections(d) # {} => sections[d] # {}

\* "So a document isn't marked failed while the queue will still retry it":
\* a failed document has no delivery left, unless the worker died after
\* writing the status and the queue rescued its job.
FailedIsFinal ==
  \A d \in Docs :
    row[d] = "failed" =>
      \/ jobState[d] = "dead"
      \/ rescued[d]
      \/ \E a \in Attempt : /\ At(d, a, "err") /\ Awaited(d, a)
                            /\ RetryOrBury(a, perm[d][a]) = "dead"

\* River never runs two deliveries of one job at once, so no two pipelines
\* write the same document.
OneDelivery ==
  \A d \in Docs : \A a, b \in Attempt : Running(d, a) /\ Running(d, b) => a = b

\* A retry leaves one section tree ("every stage is idempotent so a queue
\* retry is safe").
OneTree == \A d \in Docs : Cardinality(sections[d]) <= 1

\* Once a delete and its purge have succeeded and nothing works on the
\* document any more, none of its files is left in storage.
Quiet(d) ==
  /\ row[d] = "deleted"
  /\ purge[d] = "done" /\ ~purgeErrs[d]
  /\ jobState[d] \notin {"queued", "running"}
  /\ upload[d] # "inserted"
  /\ \A a \in Attempt : ~Running(d, a)
DeleteLeavesNothing ==
  \A d \in Docs : Quiet(d) => ~source[d] /\ ~pages[d] /\ texts[d] = {}

\* Once a run has told its success, a ready document stays ready until it is
\* deleted: no late or repeated delivery takes it back.  A run that did not get
\* to tell it, its last status write unanswered or its worker dead, is started
\* over, and then the row goes back to "parsing" and nowhere else.
Told(d) == jobState[d] = "done" \/ \E a \in Attempt : At(d, a, "ok")
ReadyStep ==
  \A d \in Docs :
    row[d] = "ready" /\ row'[d] # "ready" =>
      row'[d] = "deleted" \/ (row'[d] = "parsing" /\ ~Told(d))
ReadyIsStable == [][ReadyStep]_vars

\* Every job the queue accepts is eventually completed or given up.
JobSettles ==
  \A d \in Docs : jobState[d] = "queued" ~> jobState[d] \in {"done", "dead"}

\* Every accepted document ends ready, failed or deleted, unless a status
\* write was lost to a failing database, an ended context or a dead worker:
\* the error of a status write returns without Pipeline.fail, so those leave
\* the row at "parsing" or "summarizing" for good.
Disturbed == faults + cancels + crashes + timeouts > 0
DocumentSettles ==
  \A d \in Docs :
    upload[d] = "accepted" ~> row[d] \in {"ready", "failed", "deleted"} \/ Disturbed
====
