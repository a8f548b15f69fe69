# A TLA+ model of the vectorless engine

The engine takes documents over HTTP, parses each into a tree of sections in a
background job, and answers queries by letting a language model walk that tree.
This directory models the parts whose correctness depends on order, failure or
concurrency, checks them with TLC on small instances and proves the central
invariants with TLAPS for every instance. `PROJECT.json` ties each definition
to the lines it models, each property to a mutant that breaks it, and each
hazard of the code to the properties that watch it.

## 1. Inventory

| Part | State it keeps | Operations | What makes it correct |
|---|---|---|---|
| Upload and delete (`internal/handler`, `internal/connecthandler`, `internal/api`) | none of its own | store source, insert row, enqueue; delete row, purge prefixes | what a live row names is in storage; a delete leaves nothing |
| Idempotency (`internal/middleware/idempotency.go`, the handlers, index on `(org_id, idempotency_key)`) | response cache per process; the unique index | replay, lookup, insert or lose, clean up, store | one document per tenant and key; the same answer to everyone; no tenant sees another's |
| Queue drivers (`pkg/queue`) | jobs, attempts | enqueue, deliver, retry, bury | every job ends; a permanent failure is not retried; "failed" is final |
| Ingest pipeline (`pkg/ingest/ingest.go`) | status, section rows, texts, page text, TOC | parse, persist, enrich, TOC, ready, fail | ready means a whole tree, if the source has sections; a retry is safe |
| Summaries and HyDE (`pkg/ingest`) | summaries, questions | bottom-up layers under two semaphores | a parent's summary is made from its children's; no slot leaks; both stages end |
| Progress (`pkg/ingest/progress.go`) | a list of stages per delivery, one row | start, done, fail, skip, span, flush | what a finished delivery shows is over |
| TOC builder (`pkg/ingest/toc_*`) | `toc_tree` | detect, extract, place, repair, derive, split | page ranges are ordered and inside the document; a split loses no page; what was skipped is told |
| Heading paths (`pkg/tree/heading_path.go`) | none | match sections with contents | the most specific heading that covers a section |
| Pincite service (`pkg/pincite/service.go`, `AfterReady`) | layouts, page images, layout memory, render slots | layout, page image, warm-up | no slot leaks, no reader hangs, deletes leave nothing |
| Pincite location (`pkg/pincite`) | none | markers, candidates, choice, location | a highlight covers words of its quote, where it says |
| Tree walk (`pkg/retrieval/treewalk_strategy.go`) | one query's loop | structure, get_pages, done, forced done | citations exist, limits hold, the query ends |
| Single-pass, chunked, agentic, auto, judge walk (`pkg/retrieval`) | one query's loop or fan-out | slices, hops, batches, merge, stream | selections are sections of the tree; nothing selected is lost; the best pages are the evidence |
| Query and answer handlers, planner, cache, fallback, replay, units (`internal/handler`, `internal/api`, `pkg/retrieval`, `pkg/cache`) | three LRUs, the planner's lock | plan, select, abstain, assemble, re-rank, answer, replay | an answer is made from its own selection; an entry answers only its own question |
| Many documents (`multi_doc`, `corpus`, `corpus_library`, `answer_store`) | the library of built documents | list, build, route, read, merge, fan out | one failure does not sink the rest; everything is accounted for; the library is current and bounded |
| Model registry (`pkg/models`) | one sealed settings row; a snapshot per replica | save, reload, watch | replicas converge and never go back; keys go to their provider only |
| Gates (`internal/middleware/auth.go`, `ratelimit*.go`) | token buckets | authenticate, allow, reap | the configured rate is honoured, and a caller that waits is served |
| Parsers, calculator, configuration, telemetry, benchmarks | none that matters here | pure processing or wiring | out of scope, see section 8 |

**How they interact.** The upload handler calls storage, the database and the
queue in that order. A worker calls the same database and storage from a job
that the queue may deliver again, cancel, or forget when the process dies.
Delete runs beside it and cancels nothing. When a document gets ready,
`AfterReady` starts the warm-up in a goroutine of its own, which shares the
render slots and single flights with readers, and the progress row with a later
delivery. A query passes the gates, runs with the models the registry's
snapshot names, selects sections or pages by one of the strategies, and answers
from units made of them. Queries read rows and texts and never write; among
themselves they share the planner's cache and lock, the selection cache, the
replay store and the corpus library.

**What is hard.** Every boundary between two calls is a place where a crash, a
cancelled context, a delete or a second delivery comes in. On the reading side
it is what concurrent requests leave each other in caches, what a model may
reply, and which of several calls fails. The code handles most of these
deliberately (fresh context in `Pipeline.fail`, one transaction for the rows,
the recheck after the warm-up, detached flights, the planner's second look,
per-document errors), and unit tests reach few of them.

## 2. Plan

Done in this order, the most important first:

1. `IngestLifecycle`, with proofs: upload, queue, pipeline, delete.
2. `IdempotentIngest`: concurrent uploads under a key.
3. `PinciteService`: flights, slots, warm-up, delete.
4. `TreeWalk`, with proofs: the navigation loop and its page arithmetic.
5. `IngestStages`: the summary layers beside the HyDE stage, and their slots.
6. `Selection`, `Agentic`, `JudgeWalk`: the other ways sections are selected.
7. `QueryPipeline` over `Evidence` and `LruCache`: requests about one document.
8. `MultiQuery`, `CorpusWalk`, `Collection`: requests about many.
9. `ModelRegistry` and the register it implements, `SettingsRegister`; `Gates`.
10. `TocBuild`, `HeadingPaths`, `Citing`, `IngestProgress`: what ingest makes of
    a document and what an answer cites.
11. `Serving` and `Content`, which put 6 to 9 and 10 together.

Then the proofs (section 6), in the order of what they say about the system:

12. `IdempotentIngestProofs`, `PinciteServiceProofs`, `IngestStagesProofs`: the
    safety properties of ingest, uploads and the render service.
13. `TreeWalkProofs`, `ContentProofs`: what a walk reads and cites, and what the
    progress row tells.
14. `ServingProofs`: the gates, the model settings with the refinement of
    `SettingsRegister`, the library, the corpus walk, the requests of
    `QueryPipeline`, the question to several documents; over `OrderingProofs`,
    the lemmas all of these need.

What is left to TLC, and why, is at the end of section 6.

Every module is written so that it can be proved about: constants with named
assumptions, one action per call, no recursive operator.

## 3. Modules and the code

**`IngestLifecycle`.** A row is a status (`row`), the deliveries whose section
trees it holds (`sections`) and whether it has a TOC. Storage is the source, the
page text and the section texts, each text named by the delivery that wrote it,
because `persistTree` mints fresh ids on every run. `pc[d][a]` is the step
delivery `a` of document `d` has reached in `Pipeline.Run`; a step is one
database or storage call, and one that returns an error may have been carried
out all the same (a broken connection, a context that ended before the reply). A
payload's source parses to `Sections`, to none (`"blank"`: the parsers drop an
empty introduction, `pkg/parser/hierarchy.go:57`, and `UpsertSections` asks
nothing of the database for an empty list) or not at all (`"bad"`). `Deliver`,
`Return`, `Crash`, `Cancel` and `DeliveryTimeout` are the queue and what befalls
a worker. The three drivers differ in three definitions: `TracksAttempts` (only
River fills `Job.Attempt`; the fields are `json:"-"`, so Asynq and QStash lose
them), `StopsOnPermanent` (only River turns a `PermanentError` into a cancelled
job) and `Redelivers` (Asynq and QStash time a delivery out and send the job
again while its handler runs on; River cancels the context and waits). River
rescues a job that stays running for an hour beyond its timeout; the model takes
it that a handler returns within that hour, so a rescue only follows a crash.

**`IdempotentIngest`.** One record per request: tenant, key, server, REST or
Connect. The REST middleware is a map per server that any answer is written to
and any entry can expire from. Behind it the steps of the handler: lookup,
store, insert under the unique index, clean up and answer as the loser,
enqueue. A worker may finish a document, a client may delete one, and every
call may fail.

**`PinciteService`.** One PDF. Artefact 0 is the layout, n > 0 the image of
page n. A flight goes through the reads of the code (first read, slot, second
read after the wait, source, render and store); a layout flight takes no slot.
The warm-up goes chunk by chunk with the `Alive` check before each, and
`AfterReady` looks once more at the row when it ends. A read or existence check
that fails counts as "missing", as the code ignores those errors. `late`
records that a reader's flight stored something after the last purge, or that
a purge failed: the two ways in which files of a deleted document can remain.

**`TreeWalk`.** The model's replies are arbitrary members of `PageArgs`,
`CitationLists` and `Confidences`. The arithmetic (`clampRange`, `overlaps`,
`maxKnownPage`, `flattenSectionsByPage`, `selectCitedRanges`, `renderPages`)
keeps its names. Confidences are tenths, `NaN` is what the string "NaN" parses
to. Text is a length: of the header line and of the body of a section. Tolerant
JSON parsing is abstracted to its results, prompts and trace tokens are left
out.

**`IngestStages`.** The two LLM stages of a full ingest over one section tree.
`task[st][s]` is where the goroutine of section `s` in stage `st` is: waiting
for a slot of its stage, for an LLM slot (`acquireGlobalLLM`), in the call, at
the row update, at the axes update. `layer` is the depth `summarize` works on;
`Started` is what keeps a parent from starting before its children. Rows
outlive a delivery (`summary`, `axes`, `questions`), the rest does not:
`listed` is the snapshot `summarize` read, `computed` the map it fills. The
texts are left out; what a summary was made from is remembered in `madeOf`.
With axes the model's failure is replaced by an excerpt, without them it is an
error; HyDE may come back without questions and without an error. Titles are
taken to be non-empty, and `SummaryConcurrency` positive, as `NewPipeline`
makes it. Other documents, which share the LLM slots, appear only as the second
stage does. The progress row and the rows a retry adds (section 7) are not
here.

**`IngestProgress`.** `progress.go`: each delivery has a list of stages in
memory and writes the whole of it to the row at each change; a write may be
lost without anyone hearing of it. The phases are those of `planFor` and of the
TOC builder. A delivery may crash, and after ready its warm-up goes on while a
second delivery begins.

**`TocBuild`.** `TOCBuilder.Build` from page text to a stamped tree. A page is
what the recognisers make of it (contents entries, heading lines, where a title
is found), the Judge's scores and the generative extractor's replies are
arbitrary members of small sets, and each step has the way out the code gives
it when a call fails. A tree is a sequence of nodes in preorder, so that parent
and children are arithmetic on depths and nothing is recursive.

**`HeadingPaths`.** `BuildHeadingPaths` as operators, applied to the tree
`TocBuild` has built and to sections over every page range of the document.

**`Citing`.** Text is a sequence of tokens in lines; what a page's words fold
to, whether a word ends a sentence and whether a line is a heading, a table row
or a page number are given. Modelled are marker parsing and renumbering, the
candidates and their shortlist, the choice by Judge or by words, `Locate` with
its exact and its fuzzy search, `Resolve` and the citations of page ranges.

**`Content`** runs these parts. They share no state, so a behaviour is one of
one part (`contentPart`) while the others stand still.

**`Selection`.** `SinglePass` and `ChunkedTree`, plain and streaming. A tree is
the children of each section and what a section costs to render; `splitNode` is
a recursive function over it. One worker per slice takes a place in the
semaphore, calls, retries what does not parse, and the first error cancels the
group. The stream is a channel with the capacity of the code; `emit` drops what
does not fit and the handler (`Receive`) writes what arrives until the client
leaves. **`Agentic`** extends it with the hop loop of `AgenticStrategy` and the
choice `AutoStrategy` makes.

**`JudgeWalk`.** `Navigate` as passes of concurrent batches that a Judge scores
or fails, on the persisted pages or on the parser's sections: leaves, the skim
of short documents, the coarse cut, pages, references; and what is reported
beside the evidence, at most `JWRunnerUps` pages (8 in the code). `Ordering` holds the
sorts all these modules use.

**`QueryPipeline`.** The four handlers of the two servers as steps of requests
that run side by side: cache, lock, cache and model of the planner; cache,
primary and fallback for each question; abstention; units (`Evidence`);
re-rank; answer; the replay store. A response's bytes are the number of the
request they answer, so a replay shows whose answer came back. `LruCache` is
`pkg/cache`: a sequence, most recently used first, and an expiry that may come
at any time.

**`MultiQuery`.** `MultiDoc.Query`, `QueryStream` and the gathering of a store
answer: workers under a limit, documents that fail alone, a bounded channel, a
client that leaves. A section is the place its document was named at and its
length; it is taken while the number and the budget last (`Offered`,
`Spending`), which is the loop of `selectRelevant` with its two breaks.
**`CorpusWalk`.** `CorpusNavigator.Navigate` hop by hop: route in batches, read
a few documents side by side, merge, ask for coverage, answer or abstain.
`CWDocs` is the list of documents as the request names them: one named twice is
routed, chosen and read twice, while what has been read is known by id.
**`Collection`.** The keyset listing and the library, under documents that are
created, ingested again, and half-way through it. A row keeps which delivery
wrote its contents and which its pages. These are two writes, either of which
may fail without failing the ingest (`RewritePages`, `RewriteContents`), and the
pages are an object whose replacement does not move `updated_at`; deliveries of
a job may overlap.

**`ModelRegistry`.** The row is the position of its write in the log of writes,
which stands for the database clock. A save is a read, a write and a reload
under its replica's mutex, Watch a poll and a reload under the same mutex.
Sealing is whether a replica can open what another wrote. `client` is whether
the snapshot in use has a generative client: `BuildClient` fails for settings
that are not valid, and for the providers that look for credentials of the host
(`HostProviders`) it may fail for valid ones, anew at each reload. `SettingsRegister` is
what this promises: a register whose versions only grow, observers that only
move forward, and in use always what was observed or the fallback.

**`Gates`.** Authentication with its open paths, the server's bucket and the
bucket of the principal, fetched and asked in two steps, with the reaper
between. Tokens are whole numbers, as in the code, and time is in ticks of
`GtMinute` to the minute.

**`Serving`** runs these nine parts as `Content` does. What they share in the
program (a strategy called by a handler, the snapshot a strategy runs with)
enters each as its arbitrary input.

The MC modules only name the instances (`MCPayloads`, `MCDocuments`, ...) and
the symmetry sets. Definitions marked "Mutant" are plausible bugs of the
definition that follows; no specification uses them.

## 4. Runs

| Run | Shows | Instance |
|---|---|---|
| `lifecycle_river` | references resolve (`RefsResolve`), ready has a tree of what was parsed (`ReadyHasTree`), failed is final, one delivery at a time, a success told is not undone (`ReadyIsStable`) | one document, two sections, five requests (each mode, one that never parses, one with a blank source), three attempts, one database fault, one cancelled context, one crash |
| `lifecycle_settles` | every job ends, every undisturbed document settles | Asynq, fair, two attempts, one section, one delivery timeout: two handlers of one job may overlap |
| `retry_duplicates_tree` | *violated* (`OneTree`): a retry leaves a second tree | one cancelled context |
| `failed_before_retry` | *violated*: on QStash failed is not final | no fault at all beyond a failed parse |
| `delete_leaves_files` | *violated* (`DeleteLeavesNothing`): a delete during ingest leaves texts | no fault at all |
| `idempotent_uploads` | one document per key, same answer (`SameAnswer`), `TenantIsolation`, no orphan (`LoserLeavesNoSource`), accepted has a job | three requests, two tenants, one key, two servers, one fault; requests and servers symmetric |
| `pincite_service` | `SlotsMatchRenders`, `DeletedIsGone`, `WarmIsComplete`, readers are answered | two readers, three pages in chunks of two, one slot, one failure |
| `ingest_stages` | `SlotsBalance`, a parent sees its children, no silent gap, the stages end | a section with two subsections, two slots for summaries, one for HyDE, two LLM slots; two deliveries, one failure, cancelled contexts, a delete, a crash |
| `treewalk` | citations are in the document (`ShownInDocument`), the best are kept and what is selected is cited (`BestCitationsKept`), limits (`ReadIsRendered`), hop budget, termination | four documents, two hops, limit 5, cap 2, every list of up to three of five citations |
| `content` | contents trees are sound, headings fit, quotes are where they say, progress tells the truth | four documents of three to six pages (parts with one title three times, titles out of order, large leaves with a nested contents page and a running header, no Judge), three scores, two failed calls; every first page of six words over three tokens before three second pages, which hold a quote verbatim, scattered or in part; four payloads, two deliveries, one crash, one lost write |
| `serving` | see below | trees of four sections; walks of two hops over every kind of action; three documents of up to four pages; two replicas and three saves; four namings of three documents and two hops of a corpus; two requests side by side; two queries over three documents; three documents at once; two requests at the gates |
| `retry_after_starves` | *violated* (`RetryIsServed`): a client that retries as told is starved | 20 requests a minute, four seconds |

**Why the bounds are enough.** Documents share nothing in `IngestLifecycle`, so
one suffices; two sections make a partly written tree; three attempts make a
first, a middle and a last one. Three uploads make a winner, a loser and
somebody who comes later; two servers make a cache that does not know. One slot
makes every holder block every other; three pages in chunks of two make a full
and a partial chunk, and reader requests for the last page and the layout are
the ones `Warm` looks at. Two subsections make siblings that end at different
times and a parent; three stage slots over two LLM slots make goroutines wait
while holding one; a second delivery finds every mix of rows the first can
leave. Two hops make a first, a last and a forced turn; the
four documents include one without a tree, one without pages, one with
overlapping sections out of page order, and one whose texts fill the limit
exactly. The bounds on faults are per behaviour: each fault may come at every
place.

In `content` and `serving` the instances are chosen for the cases, not for size:
an entry that is found nowhere or on two pages, a leaf that splits at its first
page and one that does not, quotes one word short of the fuzzy threshold, a
section reply with unknown ids, out-of-range confidences and repeats, a slice
that does not fit the budget, a channel of one place, a cache with room for
fewer entries than questions, a library that holds one of two documents and never the
third, whose newest document is created with a second delivery beside the first
and ingested once more, a document named twice among those of a corpus query,
more pages judged than may be reported, a save of a provider whose client may
find no credentials, a bucket of one token. Faults are one per behaviour (two in
`TocBuild`, where the second pass over the pages has its own way out).

What `serving` checks:

* `SelectionSound`: every section is in exactly one slice and slices fit the
  context; a selection is the union of all replies, each section once, with the
  highest confidence; a stream that lost no event to its full channel ends in
  its terminal event and tells the same; an agentic walk loses no pick of a
  section it showed and stays within its hops; and the units of text a selection
  becomes are bounded, distinct and not repetitive.
* `JudgeWalkSound`: the evidence is the best of what was judged, the
  runner-ups are the best of the rest and no more than may be reported, nothing
  is cited that was not read, and budgets hold on both paths.
* `CorpusSound`: evidence is of documents that were read, of one that failed
  only when another naming of it did not; best first, no page twice and each as
  the best of its readings judged it, within the limit and each document's
  share; a document with a page
  over the threshold is not squeezed out by another one's second page (when no
  page is over it, the best guesses come instead, see section 7); every document
  chosen was read or reported, as many namings as the minimum were consulted; no
  citation without evidence.
* `AnswersSound`: one plan per question however many ask; every answer comes
  from selections for its own questions; a replay only returns an answer to the
  same question.
* `LibrarySound`: what is served, or kept, under the `updated_at` a row still
  has is the contents of that row and its pages, unless a delivery still under
  way has replaced those since; bytes are counted exactly; a listing skips
  nothing that stayed ready.
* `StoreAnswersSound`: in a query over several documents each is answered for,
  with a complete stream when it streams; a store answer's evidence is in the
  order the documents were named, fits its prompt, and leaves a document out
  only when the budget or the number ran out. One request names a document
  twice.
* `RegistrySound`: a key never reaches another provider; saved settings in
  use are valid and have a client, unless its provider asks the host for
  credentials; no client is of settings that are gone or not valid; saves of one
  replica do not overwrite each other.
* `SharedRegister`: `ModelRegistry` implements `SettingsRegister`, the
  refinement of the project: no replica goes back to older settings.
* `RateHonoured`: no principal passes more than a full bucket and its earnings,
  except with a bucket the reaper took while a request held it.
* `ServingSettles`: selections end, and replicas agree with the row in the end.

And `content`:

* `ContentsSound`: ranges run forward, nest, and leave no page from the first
  chapter on without one; the repair clears as few starts as can be (against
  the definition of a longest non-decreasing subsequence); a split keeps every
  page; node ids differ; what a failed step left out is told.
* `HeadingPathsFit`: a section's heading is a deepest contents entry of those
  that hold all of it, or of those that share most, against that definition.
* `CitingSound`: the lines highlighted hold at least four fifths of the quote.
  They are on the first page that holds all its words, word for word or, for a
  quote long enough, scattered in a run up to half as long again; if that page
  has it word for word they are the lines of the first such run. A quote is
  given up only when no page has it and no run of words is near enough; every
  marker left in an answer leads to its pincite and every pincite has a marker.
* `ProgressTells`: a reader of the row is never told the impossible (a stage
  begun before the one it needs, a phase of contents that do not run), and when
  all deliveries have ended and were heard nothing is left running, except the
  extraction that failed the contents.

These two runs check for deadlock as well: a part that stops has ended. The
others do not: uploads, queries and jobs end, and a system with no further
request may stop.

## 5. Fairness

* `lifecycle_settles`: weak fairness for each delivery's steps and for the
  queue. Go schedules runnable goroutines, a job's calls run on a context that
  River ends after its job timeout, `Pipeline.fail` writes on one of its own,
  and the drivers poll. Users, crashes, cancellations and timeouts owe nothing.
* `pincite_service`: weak fairness for readers, flights and the warm-up, and
  strong fairness for taking a render slot: the slots are a buffered channel,
  and blocked senders on a Go channel are served in order. Without it a reader
  could be overtaken for ever.
* `ingest_stages`: weak fairness of the two stages as a whole: as long as some
  goroutine can take a step, one is taken. No goroutine is promised a slot, so
  `StagesEnd` says that the two semaphores cannot wedge. An LLM call returns
  because `completeWithTimeout` bounds it (`LLMCallTimeout`, which
  `NewPipeline` sets).
* `serving`: weak fairness of the selection as a whole, and of the registry's
  calls and its Watch: model and database calls return, since their contexts
  have deadlines, and Watch polls on a ticker. Clients, administrators and the
  administrators' requests owe nothing.
* `treewalk`: weak fairness of the loop: every LLM call returns, with an answer
  or an error, since `EndpointTimeout` puts a deadline on the request's context.

## 6. Proofs

`IngestLifecycleProofs`, from `LifecycleAssumption` alone:

* `TypeCorrect`: one lemma per group of actions.
* `ReferencesResolve`, `ReadyNeedsTree`: neither property is inductive, since
  what a delivery is about to commit is only in its memory. `StorageInv` adds
  it: until the document is deleted, the texts a delivery has written are there,
  a delivery at "commit" has written all of them, and one past it has its rows,
  if the source has sections. It needs no assumption on the queue, so it covers
  overlapping deliveries. Deletes are where it is delicate: rows go first, so a
  purge can only meet a document that has none.
* `RiverFailedIsFinal`, `RiverOneDelivery`, `RiverReadyIsStable`, for
  `Backend = "river"`: `RiverInv` says that a running delivery is the one River
  waits for, and that a failed or ready status is final for the job, about to
  be reported, or left by a run that could not report it: its worker died, or
  the status write was carried out and its answer lost. `RiverReadyIsStable`
  leaves that run its one way out of ready, back to parsing. The first theorem is the
  agreement between `Pipeline.fail` (which status?) and River (retry or bury?),
  two decisions taken in two packages. On QStash it fails, see below.

`TreeWalkProofs`, from `TreeWalkAssumption` (documents are lists of sections,
and a section with pages starts no later than it ends: the parsers widen page
ranges by minimum and maximum only):

* `CitationsAreInDocument`: for every reply. `ClampInDocument` is the
  arithmetic, `SelectedInDocument` lifts it to the gated list, `WalkInv` keeps
  it for ranges read as well, because `CitationSources` falls back on them.
  That a document has a last page (`LastPage`) is proved, not assumed.
* `HopsAreBounded`: `HopCount` ties the calls made to the phase of the loop.
* `CapKeepsTrusted`: the counting argument about `selectCitedRanges`. Citations
  are ordered by confidence and place (`Orders`); the ones kept are those that
  fewer than `MaxCitations` others precede, so one that is dropped has that many
  before it, and each of those is trusted at least as much (`CapKeepsBest`).
  `ConfIsHighest` and `FirstMention` deal with ranges cited twice,
  `OverlapsIsSharing` with the sections returned for the ranges kept.
* `ReadsAreRendered`: an observation never exceeds the limit, and of the sections
  it reports as read only the last can have contributed no text. `ReadsFit`
  carries what `PagesRendered` shows by following the recursion of `renderPages`
  section by section: a section that gets no text makes the page full, and
  nothing is added to a full one.

`IdempotentIngestProofs`, from `IdempotencyAssumption`. `IdempotencyInv` has
`OneDocumentPerKey` as a conjunct and what it leans on: a row appears together
with the promise of its job (`RowsBegun`), every accepted answer and every copy
of one in a server's cache names a row that appeared under that tenant and key
(`AnswersFit`, `CachedAnswersFit`), and a source without a row belongs to an
upload under way, to a loser whose clean-up failed or to an upload that was
refused (`SourcesAccounted`).
The theorems are `OneDocument`, `AnswersAgree`,
`TenantsIsolated`, `NoOrphanSource`, `AcceptedIsQueued`, for any number of
requests, tenants, keys and servers.

`PinciteServiceProofs`, from `PinciteAssumption`:

* `NoSlotLeaks`: `SlotsInv`. The holders are counted page by page
  (`Cardinality`), and every step is one that adds, removes or keeps a holder.
* `DeletedLeavesNothing`: `PurgeInv`. Once the row is gone only a warm-up or a
  flight can store anything, the warm-up looks again, and a flight sets `late`.
* `WarmLeavesNoPageOut`: `WarmInv`. Behind the chunk the warm-up is at every
  page is stored or was a reader's; ahead of it what is stored is a reader's.

`IngestStagesProofs`, from `StagesAssumption` (finitely many sections, depths
that grow by one from parent to child):

* `SlotsNeverLeak`: `StagesInv`, again by counting, in both stages at once.
* `ParentsSeeChildren`: `ChildrenInv`. `LayersInOrder` says that deeper layers
  are over before a layer begins, `SummariesKnown` that every summary in a row
  was listed or computed by this delivery; the rest is what a worker has read.
* `NoGapIsSilent`: `NoGapYet`, which holds while the stage runs.

`ContentProofs`, from `PrgAssumption` (at least one delivery; the bounds on
crashes and lost writes are naturals): `ContentProgress`, about `ContentSpec`.
`PrgInv` relates three pieces of state that are written at different moments:
the list a delivery keeps in memory, the place the delivery is at, and the row.
A list fits its delivery's place (`Fitting`): what comes before is closed, what
comes later is pending, and the one stage under way is the one the place names;
a delivery that ended without a crash has nothing running, except the extraction
that failed the contents. Every list that fits is a possible one
(`FittingPossible`), the row holds a possible list, and without a crash or a
lost write it holds the list of some delivery, or of one that still has a change
to write.

`ServingProofs` is about `ServingSpec` itself, part by part. `PartsStart` and
`PartsStep`: a behaviour starts every part in use or idle, and a step of it is a
step of a part or leaves the part alone. What follows has a section for each.

The gates (`ServedRate`), from `GatesAssumption` (finitely many requests at
once). `GatesInv` charges a bucket as of the time it was last asked: what has
passed and what is left in it are no more than a full bucket and the time until
then. A principal whose bucket was reaped has been away for longer than a full
bucket takes, and a request that still holds a reaped one has its pass set aside
(`Strays`). The lemmas are about whole division: time that is split earns no
more than time in one piece (`EarnedInParts`), and a minute earns the limit.

The model settings (`ServedSettingsAreSound`, `ServedRegister`), from
`RegistryAssumption` (what administrators send and what the environment holds
has keys of its own providers). `RegInv` adds to the property: the mutex
(`OneAtATime`), that a snapshot being built is sound before anyone sees it, that
rows written since a save read its base are of other replicas (`NotMine`), and
that a snapshot under construction is never older than the one it replaces
(`VersionsInOrder`). `ClientFits`, beside it, says that a client is of the
snapshot it came with. `VersionsInOrder` is what makes `RegisterStep` go
through: every step is a commit, an observation, a fallback or a stutter of
`SettingsRegister` under the mapping of `ModelRegistry`.

The library (`ServedLibrary`), from `LibraryAssumption` (the collection is finite
at the start; queries may name a document twice). `LibInv` has four parts.
`RowsFit`: the pages of a row are of a delivery there was. `LibFits`: an entry
has the contents of its row if `updated_at` has not moved since it was built, and
the row's pages unless the delivery that wrote them is still under way
(`BuiltFits`, `Replacing`); a document has one entry, and the bytes are those of
the entries, within the limit. `ShelfFits`: the same for what is built and not
yet stored. Every step of an ingest keeps both because of what it may do to a row
(`RowGoesOn`): while `updated_at` stands still the row stays ready with its
contents, its pages change only to those of a delivery under way, and such a
delivery does not end without moving `updated_at`. `AskerFits`: of the
documents that were ready all along, a listing has those behind its cursor and
the others are ahead of it. The bytes of the library are the sums over prefixes
of its entries (`BytesCount`), which an entry in front, one taken out and a cut
at the back change by what they say.

The corpus walk (`ServedCorpus`), from `CorpusAssumption`. `CWInv` has the pool
(`PoolFits`: a page gathered is of a document that was read, and of one that
failed only if it was named again, `Brings`; the evidence is a fair share of
them), the routing (`RouteFits`), the readers (`ReadersFit`: a hop reads one
document twice only if it was named twice), the budget of documents over the hops
and the namings consulted in the first (`BudgetFits`), and the answer
(`OutFits`). Most of the work is `merge` as an algorithm: a sort by rank,
each page once, a first pass that gives each document its best page and a second
that fills up by rank. `Shares` and
`MergeShares` follow the two promises of the property, the limit with each
document's share and that nobody is squeezed out, through these steps.

Several documents (`ServedDocuments`), from `MQAssumption` (a request names a
document, a picked section has text, as the handlers see to). `MQInv` knows of a
stream that what the handler has written of a document, what of it is in the
channel and what its worker has still to send are, put together, the document's
events (`StreamFits`); the entries of one sender in a shared channel are
followed by the lemmas about `Carries` (`OwnSent`, `OthersSent`, `OwnWritten`,
`OthersWritten`). The evidence of a store answer is what `OfferFits` says is
offered, cut where `SpendFits` says the budget ends (`SelectedFits`).

The queries (`ServedAnswers`), from `QPAssumption` (requests and plans have their
types, caches have room for one entry), in three parts:

* `OwnInv`: what a request has found and what it still has to select for are,
  put together, its questions in order; a cached selection is of the key it is
  stored under, and of the fallback only after an outage (`SelEntries`); a
  request at the fallback has seen one. The set of cache entries only grows with
  the outages, so steps of others keep it (`OthersKeep`).
* `PlannedOnce` is inductive by itself, given the types: a request that plans
  holds the lock, has missed the cache since, and only the holder fills it; a
  look-up or an expiry never brings a key in (`LruGetKeepsMiss`,
  `LruExpireKeepsMiss`).
* `ReplayInv`: an entry of the store is a response that was sent, under its own
  token, and a sent response never changes.

The lemmas about `LruCache` (`LruGetLeaves`, `LruSetLeaves`, `LruExpireLeaves`)
say that its operations leave entries the cache had, or the new one.

`OrderingProofs` has what several of these need. Where a proof needs a least or a
greatest element it takes it from the well-foundedness of `<` on the naturals
(`LeastNatural`), since the induction theorems themselves are out of the provers'
reach. `UpTo` makes of it an induction up to a bound for one given set, and
`PrefixRecursion` the existence of a function defined by recursion on the
prefixes of a list; with the two, what such a function computes can be proved
step by step. That is why `renderPages`, the bytes of the library, the pages
gathered in a hop and the budget of a store answer are written as recursions over
prefixes. `Ranks` and `Enumerated` say that `InOrder` lists each member of a
finite set once, in the order given; the rest is about sizes of finite sets and
about a channel several send into.

Only model-checked:

* liveness (`JobSettles`, `DocumentSettles`, `ReaderAnswered`, `StagesEnd`,
  `WalkEnds`, `ServingSettles`): the prover does not handle fairness;
* `SelectionSound`, `JudgeWalkSound`, `ContentsSound`, `HeadingPathsFit` and
  `CitingSound`: they rest on what folds over sets, flattened and filtered
  sequences and recursions over trees compute, for which each would need an
  induction of its own over that data.

## 7. Where the code and its documentation disagree

* **A retry can leave two section trees** (`retry_duplicates_tree`). Section ids
  are minted per run (`pkg/ingest/ingest.go:922`) and nothing removes the rows
  of an earlier delivery. `docs/ENGINE.md:314`: "Every stage is idempotent so a
  queue retry is safe."
* **On QStash a document is shown as failed while it is still retried**
  (`failed_before_retry`). `Dispatch` (`pkg/queue/qstash.go:166`) carries no
  attempt number; `pkg/queue/queue.go:51` promises the contrary.
* **A delete during ingest leaves files** (`delete_leaves_files`). The purge
  runs once, the job goes on. `README.md:284`: "Delete a document and its
  stored files".
* **A client that obeys Retry-After can be starved** (`retry_after_starves`).
  The bucket moves its clock on every call (`internal/middleware/ratelimit.go:57`)
  and adds the whole tokens of the time since (`:60`), so at 20 requests a
  minute a caller that comes back every second, as the header of `:30` says,
  earns nothing. `:59`: "Refill tokens based on elapsed time."

Smaller observations, folded into the properties: the error of a status write
returns without `Pipeline.fail`, so such a document stays at "parsing" or
"summarizing" after its last attempt (`DocumentSettles` excludes it by name); a
failed enqueue leaves a row that every retry under the key is handed
(`AcceptedHasJob`); a section whose summary was stored and whose axes were not
is skipped by every later delivery, and a parent summarised while a child had
failed keeps that summary when the child gets its own (`NoSilentGap` and
`ParentSeesChildren` promise the delivery's own work only); a stage whose
context ends reports no error for the sections it gave up; a reader's on-demand
render of the last page makes the warm-up skip all others (`WarmIsComplete`);
`MaxHops` excludes the forced turn, although its comment counts "the terminal
done turn" in (`HopBudget`).

Seen while modelling the rest, and allowed by the properties:

* A confidence sent as the string "NaN" is not clamped
  (`treewalk_strategy.go:911`).
* A trace token leaves out the question (`trace.go:38`), so two questions with
  one selection share a replay entry. The later answer replaces the earlier,
  whose client then gets a 409; an equal question gets the other's bytes.
* `requests_per_minute` is called a maximum (`internal/config/config.go:166`); a
  full bucket and a minute's refill let twice as many through in a minute. The
  reaper may drop a bucket that a request holds, and a principal has two for a
  moment.
* Two saves through different replicas may overwrite each other's change
  (`RegistrySound` promises it for one replica only).
* The listing compares `created_at` alone (`pkg/db/documents.go:269`); the
  model takes creation times to differ. Documents of one microsecond on two
  sides of a page border would be skipped.
* A failed detection of contents pages is not among the degraded steps
  (`toc_builder.go:162`, `:265`, `toc_judge.go:98`). Pages of a parent before
  its first child are in no leaf. A third leaf of one title shares the key of
  the second (`toc_resolve.go:361`).
* "contents.extract" stays "running" when `Build` fails
  (`toc_builder.go:303`), and the phases of the contents stay "pending" when
  the stage is skipped.
* The judge walk drops a second page of one number (`judgewalk.go:678`).
* With `max_evidence` 1 and no page over the threshold, `merge` returns two
  pages, its best guesses (`corpus.go:549`), while the field's comment says that
  it "bounds the merged list" (`corpus.go:144`); a request can ask for one
  (`internal/handler/corpus.go:116`). `EvidenceIsShared` states the exception.
* A document named twice in a store answer is asked twice and its sections are
  given twice, under two citation numbers (`answer_store.go:308`).
* A source that is blank parses to no sections without an error (Markdown, text,
  HTML, DOCX: `pkg/parser/hierarchy.go:57`), `UpsertSections` returns at once
  (`pkg/db/sections.go:94`), and the document is ready with no section
  (`ReadyHasTree` excludes it by name).
* The write of "ready" (`ingest.go:547`, `:878`) may be carried out while its
  answer is lost. The run then counts as failed, is retried, and takes a
  document that was ready back to "parsing"; on its last attempt a document may
  be ready and its job buried.
* `Resolve` promises the first page that holds a quote exactly
  (`pkg/pincite/resolve.go:96`) and returns the first page whose match scores 1
  (`:108`); an earlier page that holds all words of the quote scattered over a
  longer run does so too, and hides a later one that has it word for word.
* A document named twice in a corpus query is kept twice
  (`internal/handler/corpus.go:145-182`) and may be chosen and read twice in one
  hop. One reading may fail and the other give evidence: the document is then
  reported as failed and cited. The least number of documents (`MinDocuments`)
  counts namings.
* Pages and contents of a document may be of two ingests: a failed
  `persistPages` only logs (`ingest.go:574`), and a contents build that fails or
  finds nothing leaves the earlier `toc_tree` (`:541`, `:626`). The comment at
  `:539` says that a failure leaves it NULL, which holds for the first delivery
  only. The library serves the two together as current.
* When deliveries overlap (Asynq, QStash), one may replace the pages of a
  document the other has just made ready, without moving `updated_at`. The
  library then serves the earlier pages until the row next changes: the later
  contents or status write, and for good if that delivery dies before it and is
  not retried.
* Settings that were saved, and are valid, may still give no client: `vertex`
  and `gemini` look for credentials when the client is built
  (`pkg/models/build.go:40-52`). A registry keeps that result until the row
  changes or the engine restarts, though the credentials turn up meanwhile.
* A save whose write was carried out and whose answer was lost is reported as
  failed; Watch picks it up all the same.
* An agentic walk that runs out of hops returns nothing, although the comment
  at `agentic.go:239` speaks of the ids of the last action.

## 8. Not modelled

The parsers and the calculator process bytes, text and floating point and keep
no state beyond one call; a model of them would be a transcription. The same
holds for the recognisers inside modelled parts: regular expressions for
headings and contents lines, token folding, tolerant parsing of model replies,
prompts. They enter as their results. Scores are small integers; only
their order and their thresholds matter. Quote spans (`span.go`) decorate a response.
Configuration, telemetry and the middleware not named above wrap one request or
run once. Generated code, charts, benchmarks and the demonstration page are not
part of the running system's logic. The queue libraries, Postgres and the
object stores are modelled by what the code relies on; how each store lists and
deletes pages of objects, the sealing of keys and the webhook's signature check
are left out. `PROJECT.json` gives the reason per component.
