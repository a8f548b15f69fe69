--------------------------- MODULE PinciteService ---------------------------
(***************************************************************************)
(* The page layout and page images of one PDF: rendered ahead of time by   *)
(* the warm-up that follows ingest (AfterReady and Service.Warm), or on    *)
(* demand by a reader (Service.Layout, then Service.PageImage), and purged *)
(* when the document is deleted.  Concurrent callers for an artefact share *)
(* one flight (singleflight); a page flight is detached from its requests, *)
(* a layout flight is not.  Warm-up chunks and page flights share the      *)
(* render slots.  The server has a page renderer.                          *)
(*                                                                         *)
(* Artefact 0 is the layout, artefact n > 0 the image of page n.           *)
(***************************************************************************)
EXTENDS Naturals, FiniteSets

CONSTANTS
  Readers,       \* concurrent requests for an artefact
  LastPage,      \* pages of the document
  Wanted,        \* artefacts that readers ask for
  warmChunk,     \* pages one warm-up render covers
  RenderSlots,   \* concurrent renders
  MaxFailures    \* bound: storage, database and renderer calls that fail

ASSUME PinciteAssumption ==
  /\ LastPage \in Nat \ {0}
  /\ Wanted \subseteq 0..LastPage
  /\ warmChunk \in Nat \ {0}
  /\ RenderSlots \in Nat \ {0}
  /\ MaxFailures \in Nat

Page == 1..LastPage
Artefact == 0..LastPage
Author == {"none", "warm", "reader"}
WarmStep == {"idle", "layout", "wait", "check", "chunk", "slot", "render",
             "recheck", "done"}
Outcome == {"none", "ok", "failed"}
FlightStep == {"none", "read", "slot", "reread", "render"}
ReaderStep == {"idle", "layout", "waitLayout", "image", "waitImage", "answered"}

VARIABLES
  row,       \* does the document exist in the database?
  purge,     \* progress of the delete handler
  source,    \* is the uploaded PDF in storage?
  stored,    \* who put each artefact in storage, if anyone
  mem,       \* is the layout in this process's memory?
  warm,      \* next step of AfterReady
  outcome,   \* what Warm returned
  from,      \* first page of the warm-up's chunk,
  next,      \*   and the next page it has to store
  flight,    \* the singleflight call for each artefact
  reader,    \* next step of a request,
  wants,     \*   and the artefact it is for
  used,      \* render slots taken
  late,      \* was the last purge missed: a reader's flight stored after it,
             \*   or a prefix of it failed?
  failures

vars == <<row, purge, source, stored, mem, warm, outcome, from, next, flight,
          reader, wants, used, late, failures>>
warming == <<warm, outcome, from, next>>
reading == <<reader, wants>>

TypeOK ==
  /\ row \in BOOLEAN
  /\ purge \in {"idle", "documents", "pincites", "done"}
  /\ source \in BOOLEAN
  /\ stored \in [Artefact -> Author]
  /\ mem \in BOOLEAN
  /\ warm \in WarmStep
  /\ outcome \in Outcome
  /\ from \in 1..(LastPage + warmChunk)
  /\ next \in 1..(LastPage + 1)
  /\ flight \in [Artefact -> FlightStep]
  /\ reader \in [Readers -> ReaderStep]
  /\ wants \in [Readers -> Artefact]
  /\ used \in 0..RenderSlots
  /\ late \in BOOLEAN
  /\ failures \in 0..MaxFailures

Init ==
  /\ row = TRUE /\ purge = "idle" /\ source = TRUE
  /\ stored = [n \in Artefact |-> "none"]
  /\ mem = FALSE
  /\ warm = "idle" /\ outcome = "none" /\ from = 1 /\ next = 1
  /\ flight = [n \in Artefact |-> "none"]
  /\ reader = [r \in Readers |-> "idle"]
  /\ wants = [r \in Readers |-> 0]
  /\ used = 0
  /\ late = FALSE
  /\ failures = 0

-----------------------------------------------------------------------------
Exists(n) == stored[n] # "none"
Min2(a, b) == IF a < b THEN a ELSE b

\* The last page of the chunk that begins at page p, and of the one p is in.
ChunkEnd(p) == Min2(LastPage, p + warmChunk - 1)
ChunkStart(p) == ((p - 1) \div warmChunk) * warmChunk + 1

Failure == failures < MaxFailures /\ failures' = failures + 1

\* A read or an existence check that fails counts as a missing artefact.
Missing(n) ==
  \/ ~Exists(n) /\ UNCHANGED failures
  \/ Exists(n) /\ Failure

\* A flight is joined, or begun.
Join(n) == flight' = [flight EXCEPT ![n] = IF @ = "none" THEN "read" ELSE @]

Answer(r) ==
  /\ reader' = [reader EXCEPT ![r] = "answered"]
  /\ wants' = [wants EXCEPT ![r] = 0]

\* Everyone who waits for a flight gets its result when it ends; the layout
\* is only the first half of a request for a page.
Waiting(n) ==
  {r \in Readers : IF n = 0 THEN reader[r] = "waitLayout"
                   ELSE reader[r] = "waitImage" /\ wants[r] = n}
Release(n, ok) ==
  LET goesOn == {r \in Waiting(n) : n = 0 /\ ok /\ wants[r] # 0} IN
    /\ reader' = [r \in Readers |->
                    IF r \in goesOn THEN "image"
                    ELSE IF r \in Waiting(n) THEN "answered" ELSE reader[r]]
    /\ wants' = [r \in Readers |-> IF r \in Waiting(n) \ goesOn THEN 0 ELSE wants[r]]

-----------------------------------------------------------------------------
(***************************************************************************)
(* Readers.                                                                *)
(***************************************************************************)
\* pinciteSource: a request starts with a look at the row.
Request(r, n) ==
  /\ reader[r] = "idle"
  /\ IF row
       THEN /\ reader' = [reader EXCEPT ![r] = "layout"]
            /\ wants' = [wants EXCEPT ![r] = n]
       ELSE /\ reader' = [reader EXCEPT ![r] = "answered"]
            /\ UNCHANGED wants
  /\ UNCHANGED <<row, purge, source, stored, mem, warming, flight, used, late, failures>>

\* Layout: the copy in memory, or the layout flight.
GetLayout(r) ==
  /\ reader[r] = "layout"
  /\ \/ /\ mem /\ wants[r] = 0
        /\ Answer(r)
        /\ UNCHANGED flight
     \/ /\ mem /\ wants[r] # 0
        /\ reader' = [reader EXCEPT ![r] = "image"]
        /\ UNCHANGED <<wants, flight>>
     \/ /\ ~mem
        /\ reader' = [reader EXCEPT ![r] = "waitLayout"]
        /\ Join(0)
        /\ UNCHANGED wants
  /\ UNCHANGED <<row, purge, source, stored, mem, warming, used, late, failures>>

\* PageImage: the stored copy, or the flight of this page.
GetImage(r) ==
  /\ reader[r] = "image"
  /\ \/ /\ Exists(wants[r])
        /\ Answer(r)
        /\ UNCHANGED <<flight, failures>>
     \/ /\ Missing(wants[r])
        /\ reader' = [reader EXCEPT ![r] = "waitImage"]
        /\ Join(wants[r])
        /\ UNCHANGED wants
  /\ UNCHANGED <<row, purge, source, stored, mem, warming, used, late>>

\* The request's context ends while it waits for a page; the flight goes on.
Leave(r) ==
  /\ reader[r] = "waitImage"
  /\ Answer(r)
  /\ UNCHANGED <<row, purge, source, stored, mem, warming, flight, used, late, failures>>

-----------------------------------------------------------------------------
(***************************************************************************)
(* Flights.                                                                *)
(***************************************************************************)
\* A flight ends: its readers are released, and the warm-up if it waits.
Land(n, ok) ==
  /\ flight' = [flight EXCEPT ![n] = "none"]
  /\ Release(n, ok)
  /\ IF n = 0 /\ warm = "wait"
       THEN /\ warm' = IF ok THEN "check" ELSE "recheck"
            /\ outcome' = IF ok THEN outcome ELSE "failed"
       ELSE UNCHANGED <<warm, outcome>>
  /\ UNCHANGED <<from, next, row, purge, source>>

\* The flight's first read: the artefact may have been stored meanwhile.
FlightRead(n) ==
  /\ flight[n] = "read"
  /\ \/ /\ Exists(n) \/ (n = 0 /\ mem)
        /\ Land(n, TRUE)
        /\ mem' = (mem \/ n = 0)
        /\ UNCHANGED failures
     \/ /\ ~(n = 0 /\ mem)
        /\ Missing(n)
        /\ flight' = [flight EXCEPT ![n] = IF n = 0 THEN "reread" ELSE "slot"]
        /\ UNCHANGED <<row, purge, source, mem, warming, reading>>
  /\ UNCHANGED <<stored, used, late>>

\* acquire: a page render takes a slot.
FlightSlot(n) ==
  /\ flight[n] = "slot"
  /\ used < RenderSlots /\ used' = used + 1
  /\ flight' = [flight EXCEPT ![n] = "reread"]
  /\ UNCHANGED <<row, purge, source, stored, mem, warming, reading, late, failures>>

\* Mutant: the slot is kept when the flight ends.
GiveBackNothing(n) == used' = used

\* The deferred release; the layout is built without a slot.
GiveBack(n) == used' = IF n = 0 THEN used ELSE used - 1

\* The warm-up may have stored the page while this flight waited for a slot;
\* otherwise the source is read, and may be gone.
FlightReread(n) ==
  /\ flight[n] = "reread"
  /\ \/ /\ n # 0 /\ Exists(n)
        /\ Land(n, TRUE) /\ GiveBack(n)
        /\ UNCHANGED failures
     \/ /\ IF n = 0 THEN UNCHANGED failures ELSE Missing(n)
        /\ source
        /\ flight' = [flight EXCEPT ![n] = "render"]
        /\ UNCHANGED <<row, purge, source, warming, reading, used>>
     \/ /\ IF n = 0 THEN UNCHANGED failures ELSE Missing(n)
        /\ ~source
        /\ Land(n, FALSE) /\ GiveBack(n)
  /\ UNCHANGED <<stored, mem, late>>

\* Render and store.  A layout that cannot be stored is served from memory.
FlightPut(n) ==
  /\ flight[n] = "render"
  /\ \/ stored' = [stored EXCEPT ![n] = "reader"]
     \/ n = 0 /\ UNCHANGED stored
  /\ late' = (late \/ (purge = "done" /\ stored' # stored))
  /\ mem' = (mem \/ n = 0)
  /\ Land(n, TRUE) /\ GiveBack(n)
  /\ UNCHANGED failures

\* The source cannot be read, the build, the render or the store fails, or
\* the context ends: a page flight's own, the first caller's for the layout.
\* A page flight that gave up before its slot has none to give back.
FlightFail(n) ==
  /\ flight[n] \in {"slot", "reread", "render"}
  /\ Failure
  /\ Land(n, FALSE)
  /\ IF flight[n] = "slot" THEN UNCHANGED used ELSE GiveBack(n)
  /\ UNCHANGED <<stored, mem, late>>

-----------------------------------------------------------------------------
(***************************************************************************)
(* The warm-up: AfterReady, Service.Warm.                                  *)
(***************************************************************************)
\* remember: the layouts of other documents push this one out of memory.
Evict ==
  /\ mem
  /\ mem' = FALSE
  /\ UNCHANGED <<row, purge, source, stored, warming, flight, reading, used,
                 late, failures>>

\* Launched once the status write to ready returned, deleted row or not.
WarmStart ==
  /\ warm = "idle"
  /\ warm' = "layout"
  /\ UNCHANGED <<row, purge, source, stored, mem, outcome, from, next, flight,
                 reading, used, late, failures>>

WarmLayout ==
  /\ warm = "layout"
  /\ \/ mem /\ warm' = "check" /\ UNCHANGED flight
     \/ ~mem /\ warm' = "wait" /\ Join(0)
  /\ UNCHANGED <<row, purge, source, stored, mem, outcome, from, next,
                 reading, used, late, failures>>

\* Nothing to do when the last page is there already; otherwise the source
\* is read.
WarmCheck ==
  /\ warm = "check"
  /\ \/ /\ Exists(LastPage)
        /\ warm' = "recheck" /\ outcome' = "ok"
        /\ UNCHANGED failures
     \/ /\ Missing(LastPage) /\ source
        /\ warm' = "chunk"
        /\ UNCHANGED outcome
     \/ /\ ~Exists(LastPage)
        /\ (~source /\ UNCHANGED failures) \/ Failure
        /\ warm' = "recheck" /\ outcome' = "failed"
  /\ UNCHANGED <<row, purge, source, stored, mem, from, next, flight, reading,
                 used, late>>

\* Before each chunk: is the document alive (a failed lookup counts as yes),
\* and is the chunk's last page there already?
WarmChunk ==
  /\ warm = "chunk"
  /\ \/ /\ from > LastPage
        /\ warm' = "recheck" /\ outcome' = "ok"
        /\ UNCHANGED <<from, next, failures>>
     \/ /\ from <= LastPage /\ ~row
        /\ warm' = "recheck" /\ outcome' = "failed"
        /\ UNCHANGED <<from, next, failures>>
     \/ /\ from <= LastPage /\ Exists(ChunkEnd(from))
        /\ (row /\ UNCHANGED failures) \/ (~row /\ Failure)
        /\ from' = from + warmChunk
        /\ UNCHANGED <<warm, next, outcome>>
     \/ /\ from <= LastPage
        /\ \/ row /\ Missing(ChunkEnd(from))
           \/ ~row /\ ~Exists(ChunkEnd(from)) /\ Failure
        /\ warm' = "slot" /\ next' = from
        /\ UNCHANGED <<from, outcome>>
  /\ UNCHANGED <<row, purge, source, stored, mem, flight, reading, used, late>>

WarmSlot ==
  /\ warm = "slot"
  /\ used < RenderSlots /\ used' = used + 1
  /\ warm' = "render"
  /\ UNCHANGED <<row, purge, source, stored, mem, outcome, from, next, flight,
                 reading, late, failures>>

\* RenderPages stores page after page; the slot is released at the end.
WarmRender ==
  /\ warm = "render"
  /\ stored' = [stored EXCEPT ![next] = "warm"]
  /\ IF next = ChunkEnd(from)
       THEN /\ used' = used - 1
            /\ from' = from + warmChunk
            /\ warm' = "chunk"
            /\ UNCHANGED next
       ELSE next' = next + 1 /\ UNCHANGED <<used, from, warm>>
  /\ UNCHANGED <<row, purge, source, mem, outcome, flight, reading, late, failures>>

\* Mutant: a chunk that fails is skipped and the warm-up goes on.
WarmFailIgnored ==
  /\ warm \in {"slot", "render"}
  /\ Failure
  /\ used' = IF warm = "render" THEN used - 1 ELSE used
  /\ warm' = "chunk" /\ from' = from + warmChunk
  /\ UNCHANGED <<row, purge, source, stored, mem, outcome, next, flight, reading, late>>

\* The renderer or a store fails, or the wait for a slot times out.
WarmFail ==
  /\ warm \in {"slot", "render"}
  /\ Failure
  /\ used' = IF warm = "render" THEN used - 1 ELSE used
  /\ warm' = "recheck" /\ outcome' = "failed"
  /\ UNCHANGED <<row, purge, source, stored, mem, from, next, flight, reading, late>>

\* Mutant: trusts the Alive checks and never purges.
WarmRecheckSkipped ==
  /\ warm = "recheck"
  /\ warm' = "done"
  /\ UNCHANGED <<row, purge, source, stored, mem, outcome, from, next, flight, reading,
                 used, late, failures>>

\* AfterReady: a document deleted during the warm-up is purged once more,
\* unless the lookup or the purge fails.
WarmRecheck ==
  /\ warm = "recheck"
  /\ warm' = "done"
  /\ \/ row /\ UNCHANGED <<source, stored, late, failures>>
     \/ /\ ~row
        /\ source' = FALSE
        /\ stored' = [n \in Artefact |-> "none"]
        /\ late' = FALSE
        /\ UNCHANGED failures
     \/ /\ ~row /\ Failure
        /\ late' = TRUE
        /\ UNCHANGED <<source, stored>>
  /\ UNCHANGED <<row, purge, mem, outcome, from, next, flight, reading, used>>

-----------------------------------------------------------------------------
(***************************************************************************)
(* HandleDeleteDocument.                                                   *)
(***************************************************************************)
DeleteDocument ==
  /\ row
  /\ row' = FALSE /\ purge' = "documents"
  /\ UNCHANGED <<source, stored, mem, warming, flight, reading, used, late, failures>>

PurgeDocuments ==
  /\ purge = "documents"
  /\ \/ source' = FALSE /\ UNCHANGED <<late, failures>>
     \/ Failure /\ late' = TRUE /\ UNCHANGED source
  /\ purge' = "pincites"
  /\ UNCHANGED <<row, stored, mem, warming, flight, reading, used>>

PurgePincites ==
  /\ purge = "pincites"
  /\ \/ stored' = [n \in Artefact |-> "none"] /\ UNCHANGED <<late, failures>>
     \/ Failure /\ late' = TRUE /\ UNCHANGED stored
  /\ purge' = "done"
  /\ UNCHANGED <<row, source, mem, warming, flight, reading, used>>

-----------------------------------------------------------------------------
FlightNext(n) ==
  FlightRead(n) \/ FlightSlot(n) \/ FlightReread(n) \/ FlightPut(n) \/ FlightFail(n)
WarmNext ==
  \/ WarmLayout \/ WarmCheck \/ WarmChunk \/ WarmSlot \/ WarmRender \/ WarmFail
  \/ WarmRecheck
DeleteNext == DeleteDocument \/ PurgeDocuments \/ PurgePincites

\* What a flight can be for: a page is preceded by the layout.
Flown == Wanted \cup {0}

Next ==
  \/ \E r \in Readers : \E n \in Wanted : Request(r, n)
  \/ \E r \in Readers : GetLayout(r) \/ GetImage(r) \/ Leave(r)
  \/ \E n \in Flown : FlightNext(n)
  \/ WarmStart \/ WarmNext \/ Evict
  \/ DeleteNext

\* Goroutines that can run do, and a goroutine blocked on the slots channel
\* is served in turn: strong fairness for the two that take a slot.
Fairness ==
  /\ \A r \in Readers : WF_vars(GetLayout(r) \/ GetImage(r))
  /\ \A n \in Flown : WF_vars(FlightNext(n))
  /\ \A n \in Flown \ {0} : SF_vars(FlightSlot(n))
  /\ WF_vars(WarmNext) /\ SF_vars(WarmSlot)

Spec == Init /\ [][Next]_vars
FairSpec == Spec /\ Fairness

-----------------------------------------------------------------------------
\* The slots in use are exactly those of the page flights and the warm-up
\* chunk that hold one, so none leaks and no more than RenderSlots renders
\* run, whatever fails and whoever leaves.
SlotsMatchRenders ==
  LET holders == {n \in Page : flight[n] \in {"reread", "render"}} IN
    used = Cardinality(holders) + (IF warm = "render" THEN 1 ELSE 0)

\* A delete that races the warm-up leaves none of the document's files: once
\* the delete's purge and the warm-up are over, nothing is stored, unless a
\* reader's own flight outlived every purge or a purge itself failed.
DeletedIsGone ==
  /\ purge = "done" /\ warm = "done" /\ ~late
  /\ \A n \in Artefact : flight[n] = "none"
  => ~source /\ \A n \in Artefact : ~Exists(n)

\* A warm-up that returns success on a live document has every page stored;
\* only a page a reader rendered on demand can make it skip others: the
\* document's last page all of them, a chunk's last page that chunk.
WarmIsComplete ==
  row /\ outcome = "ok" =>
    \A n \in Page :
      \/ Exists(n)
      \/ stored[LastPage] = "reader"
      \/ stored[ChunkEnd(ChunkStart(n))] = "reader"

\* A reader never waits for ever, whoever holds the slots and whatever fails:
\* it gets the artefact or an error, or has left by itself.
ReaderAnswered ==
  \A r \in Readers : reader[r] = "layout" ~> reader[r] = "answered"
====
