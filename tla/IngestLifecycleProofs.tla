----------------------- MODULE IngestLifecycleProofs -----------------------
(***************************************************************************)
(* Proofs about IngestLifecycle, for any documents, sections, requests,    *)
(* retry budget and fault bounds.                                          *)
(***************************************************************************)
EXTENDS IngestLifecycle, TLAPS

-----------------------------------------------------------------------------
(***************************************************************************)
(* Type correctness.                                                       *)
(***************************************************************************)
\* A delivery that did not succeed puts its job back or buries it.
LEMMA RetryOrBuryType ==
  ASSUME NEW a, NEW p
  PROVE  RetryOrBury(a, p) \in JobState
BY DEF RetryOrBury, JobState

\* The queue's state stays typed whatever is reported to it.
LEMMA ReportType ==
  ASSUME TypeOK, NEW d \in Docs, NEW a, NEW st \in JobState, Report(d, a, st)
  PROVE  jobState' \in [Docs -> JobState]
BY DEF Report, SetJobState, TypeOK

\* A delivery that moves on keeps every delivery typed.
LEMMA MoveType ==
  ASSUME TypeOK, NEW d \in Docs, NEW a \in Attempt,
         NEW step \in RunStep \cup {"over"}, Move(d, a, step)
  PROVE  pc' \in [Docs -> [Attempt -> RunStep \cup {"none", "over"}]]
BY DEF Move, TypeOK

\* A status write of Pipeline.run keeps the state typed.
LEMMA StatusStepType ==
  ASSUME TypeOK, NEW d \in Docs, NEW a \in Attempt, NEW from, NEW s \in LiveStatus,
         NEW to \in RunStep, StatusStep(d, a, from, s, to)
  PROVE  TypeOK'
<1> USE LifecycleAssumption DEF TypeOK
<1>1. row' \in [Docs -> Status]
  BY DEF StatusStep, SetDocumentStatus, Status
<1>2. pc' \in [Docs -> [Attempt -> RunStep \cup {"none", "over"}]]
  <2>1. Move(d, a, to) \/ Move(d, a, "err")
    BY DEF StatusStep, GoTo
  <2>2. "err" \in RunStep
    BY DEF RunStep
  <2> QED BY <2>1, <2>2, MoveType
<1>3. faults' \in 0..MaxDBFaults
  BY DEF StatusStep, DBOk, DBErr, DBFault
<1> QED BY <1>1, <1>2, <1>3 DEF StatusStep, GoTo, storage, job, purging

\* So does every step of the upload handler,
LEMMA UploadType ==
  ASSUME TypeOK, NEW d \in Docs, UploadNext(d)
  PROVE  TypeOK'
<1> USE DEF TypeOK, storage, bounds, job, exec, purging
<1>1. CASE PutSource(d)
  BY <1>1 DEF PutSource, UploadStep
<1>2. CASE NewDocument(d)
  BY <1>2 DEF NewDocument, UploadStep, Status, LiveStatus
<1>3. CASE Enqueue(d)
  BY <1>3 DEF Enqueue, UploadStep, JobState, SetJobState
<1> QED BY <1>1, <1>2, <1>3 DEF UploadNext

\* every step of the delete handler and its purge,
LEMMA DeleteType ==
  ASSUME TypeOK, NEW d \in Docs, DeleteNext(d)
  PROVE  TypeOK'
<1> USE DEF TypeOK, storage, bounds, job, exec, PurgeStep
<1>1. CASE DeleteDocument(d)
  BY <1>1 DEF DeleteDocument, Status
<1>2. CASE PurgeDocuments(d)
  BY <1>2 DEF PurgeDocuments
<1>3. CASE PurgePages(d)
  BY <1>3 DEF PurgePages
<1> QED BY <1>1, <1>2, <1>3 DEF DeleteNext

\* every step of the queue, crashes and timeouts included,
LEMMA QueueType ==
  ASSUME TypeOK, NEW d \in Docs, NEW a \in Attempt,
         QueueNext(d, a) \/ TroubleNext(d, a)
  PROVE  TypeOK'
<1> USE LifecycleAssumption, RetryOrBuryType DEF storage, bounds, exec, purging
<1>0. a \in 0..MaxAttempts /\ "start" \in RunStep /\ {"running", "done"} \subseteq JobState
  BY DEF Attempt, RunStep, JobState
<1>1. CASE Deliver(d, a)
  <2>1. pc' \in [Docs -> [Attempt -> RunStep \cup {"none", "over"}]]
    BY <1>0, <1>1, MoveType DEF Deliver, GoTo
  <2> QED BY <1>0, <1>1, <2>1 DEF Deliver, GoTo, SetJobState, TypeOK
<1>2. CASE Return(d, a)
  <2>1. pc' \in [Docs -> [Attempt -> RunStep \cup {"none", "over"}]]
    BY <1>2, MoveType DEF Return, GoTo
  <2>2. jobState' \in [Docs -> JobState]
    BY <1>0, <1>2, ReportType DEF Return
  <2> QED BY <1>2, <2>1, <2>2 DEF Return, GoTo, TypeOK
<1>3. CASE Crash(d, a)
  <2>1. pc' \in [Docs -> [Attempt -> RunStep \cup {"none", "over"}]]
    BY <1>3, MoveType DEF Crash, GoTo
  <2>2. jobState' \in [Docs -> JobState]
    BY <1>3, ReportType DEF Crash
  <2>3. rescued' \in [Docs -> BOOLEAN]
    BY <1>3 DEF Crash, TypeOK, Awaited
  <2> QED BY <1>3, <2>1, <2>2, <2>3 DEF Crash, GoTo, TypeOK
<1>4. CASE Cancel(d, a)
  BY <1>4 DEF Cancel, TypeOK, job
<1>5. CASE DeliveryTimeout(d, a)
  <2>1. jobState' \in [Docs -> JobState]
    BY <1>5, ReportType DEF DeliveryTimeout
  <2> QED BY <1>5, <2>1 DEF DeliveryTimeout, TypeOK
<1> QED BY <1>1, <1>2, <1>3, <1>4, <1>5 DEF QueueNext, TroubleNext

\* and every step of a delivery through Pipeline.run.
LEMMA RunType ==
  ASSUME TypeOK, NEW d \in Docs, NEW a \in Attempt, RunNext(d, a)
  PROVE  TypeOK'
<1> USE LifecycleAssumption DEF storage, bounds, job, purging
<1>s. RunStep = {"start", "parse", "texts", "commit", "summarizing", "enrich",
                 "pages", "toc", "ready", "fail", "ok", "err"}
  BY DEF RunStep
<1>t. {"parsing", "summarizing", "ready", "failed"} \subseteq LiveStatus
  BY DEF LiveStatus
<1>1. CASE SetParsing(d, a)
  BY <1>1, <1>s, <1>t, StatusStepType DEF SetParsing
<1>2. CASE Parse(d, a)
  <2>1. pc' \in [Docs -> [Attempt -> RunStep \cup {"none", "over"}]]
    BY <1>2, <1>s, MoveType DEF Parse, GoTo
  <2>2. perm' \in [Docs -> [Attempt -> BOOLEAN]]
    <3>0. perm \in [Docs -> [Attempt -> BOOLEAN]]
      BY DEF TypeOK
    <3>1. CASE perm' = perm
      BY <3>0, <3>1
    <3>2. CASE perm' = [perm EXCEPT ![d][a] = TRUE]
      BY <3>0, <3>2
    <3> QED BY <1>2, <3>1, <3>2 DEF Parse, GoTo
  <2>3. todo' \in [Docs -> [Attempt -> SUBSET Sections]]
    <3>0. todo \in [Docs -> [Attempt -> SUBSET Sections]]
      BY DEF TypeOK
    <3>1. CASE todo' = todo
      BY <3>0, <3>1
    <3>2. CASE todo' = [todo EXCEPT ![d][a] = ParsedSections(d)]
      BY <3>0, <3>2 DEF ParsedSections
    <3> QED BY <1>2, <3>1, <3>2 DEF Parse, GoTo
  <2>4. cancelled' = cancelled
    BY <1>2 DEF Parse, GoTo
  <2> QED BY <1>2, <2>1, <2>2, <2>3, <2>4 DEF Parse, TypeOK
<1>3. CASE PutText(d, a)
  <2>1. pc' \in [Docs -> [Attempt -> RunStep \cup {"none", "over"}]]
    <3>1. Move(d, a, "commit") \/ Move(d, a, "fail") \/ pc' = pc
      BY <1>3 DEF PutText, GoTo
    <3> QED BY <3>1, <1>s, MoveType DEF TypeOK
  <2>2. todo' \in [Docs -> [Attempt -> SUBSET Sections]]
    <3>0. todo \in [Docs -> [Attempt -> SUBSET Sections]]
      BY DEF TypeOK
    <3>1. \/ todo' = todo
          \/ \E x \in todo[d][a] : todo' = [todo EXCEPT ![d][a] = todo[d][a] \ {x}]
      BY <1>3, <3>0 DEF PutText, GoTo
    <3>2. CASE todo' = todo
      BY <3>0, <3>2
    <3>3. ASSUME NEW x, todo' = [todo EXCEPT ![d][a] = todo[d][a] \ {x}]
          PROVE  todo' \in [Docs -> [Attempt -> SUBSET Sections]]
      <4>1. todo[d][a] \ {x} \in SUBSET Sections
        BY <3>0
      <4> QED BY <3>0, <3>3, <4>1
    <3> QED BY <3>1, <3>2, <3>3
  <2>3. texts' \in [Docs -> SUBSET (Attempt \X Sections)]
    <3>0. /\ texts \in [Docs -> SUBSET (Attempt \X Sections)]
          /\ todo[d][a] \subseteq Sections
      BY DEF TypeOK
    <3>1. \/ texts' = texts
          \/ \E x \in todo[d][a] : texts' = [texts EXCEPT ![d] = texts[d] \cup {<<a, x>>}]
      BY <1>3, <3>0 DEF PutText
    <3>2. CASE texts' = texts
      BY <3>0, <3>2
    <3>3. ASSUME NEW x \in Sections, texts' = [texts EXCEPT ![d] = texts[d] \cup {<<a, x>>}]
          PROVE  texts' \in [Docs -> SUBSET (Attempt \X Sections)]
      <4>1. texts[d] \cup {<<a, x>>} \in SUBSET (Attempt \X Sections)
        BY <3>0
      <4> QED BY <3>0, <3>3, <4>1
    <3> QED BY <3>0, <3>1, <3>2, <3>3
  <2>4. cancelled' = cancelled /\ perm' = perm
    BY <1>3 DEF PutText, GoTo
  <2> QED BY <1>3, <2>1, <2>2, <2>3, <2>4 DEF PutText, TypeOK
<1>4. CASE UpsertSections(d, a)
  <2>1. pc' \in [Docs -> [Attempt -> RunStep \cup {"none", "over"}]]
    BY <1>4, <1>s, MoveType DEF UpsertSections, GoTo, AfterTree
  <2>2. sections' \in [Docs -> SUBSET Attempt]
    <3>0. sections \in [Docs -> SUBSET Attempt]
      BY DEF TypeOK
    <3>1. CASE sections' = sections
      BY <3>0, <3>1
    <3>2. CASE sections' = [sections EXCEPT ![d] = sections[d] \cup {a}]
      <4>1. sections[d] \cup {a} \in SUBSET Attempt
        BY <3>0
      <4> QED BY <3>0, <3>2, <4>1
    <3> QED BY <1>4, <3>0, <3>1, <3>2 DEF UpsertSections, CommitTree
  <2>3. faults' \in 0..MaxDBFaults
    BY <1>4 DEF UpsertSections, DBOk, DBErr, DBFault, TypeOK
  <2> QED BY <1>4, <2>1, <2>2, <2>3 DEF UpsertSections, GoTo, TypeOK
<1>5. CASE SetSummarizing(d, a)
  BY <1>5, <1>s, <1>t, StatusStepType DEF SetSummarizing
<1>6. CASE Enrich(d, a)
  <2>1. pc' \in [Docs -> [Attempt -> RunStep \cup {"none", "over"}]]
    BY <1>6, <1>s, MoveType DEF Enrich, GoTo
  <2> QED BY <1>6, <2>1 DEF Enrich, GoTo, TypeOK
<1>7. CASE PersistPages(d, a)
  <2>1. pc' \in [Docs -> [Attempt -> RunStep \cup {"none", "over"}]]
    BY <1>7, <1>s, MoveType DEF PersistPages, GoTo
  <2>2. pages' \in [Docs -> BOOLEAN]
    BY <1>7 DEF PersistPages, TypeOK
  <2>3. UNCHANGED <<perm, cancelled, todo>>
    BY <1>7 DEF PersistPages, GoTo
  <2> QED BY <1>7, <2>1, <2>2, <2>3 DEF PersistPages, TypeOK
<1>8. CASE UpdateDocumentTOCTree(d, a)
  <2>1. pc' \in [Docs -> [Attempt -> RunStep \cup {"none", "over"}]]
    BY <1>8, <1>s, MoveType DEF UpdateDocumentTOCTree, GoTo
  <2>2. toc' \in [Docs -> BOOLEAN]
    BY <1>8 DEF UpdateDocumentTOCTree, TypeOK
  <2> QED BY <1>8, <2>1, <2>2 DEF UpdateDocumentTOCTree, GoTo, TypeOK
<1>9. CASE SetReady(d, a)
  BY <1>9, <1>s, <1>t, StatusStepType DEF SetReady
<1>10. CASE Fail(d, a)
  <2>1. pc' \in [Docs -> [Attempt -> RunStep \cup {"none", "over"}]]
    BY <1>10, <1>s, MoveType DEF Fail, GoTo
  <2>2. row' \in [Docs -> Status]
    BY <1>10, <1>t DEF Fail, FailStatus, SetDocumentStatus, Status, TypeOK
  <2>3. faults' \in 0..MaxDBFaults
    BY <1>10 DEF Fail, DBFault, TypeOK
  <2> QED BY <1>10, <2>1, <2>2, <2>3 DEF Fail, GoTo, TypeOK
<1> QED BY <1>1, <1>2, <1>3, <1>4, <1>5, <1>6, <1>7, <1>8, <1>9, <1>10 DEF RunNext

\* Every reachable state of the upload, queue, pipeline and delete handlers
\* is well typed: no step invents a status, an attempt or a bound.
THEOREM TypeCorrect == Spec => []TypeOK
<1>1. Init => TypeOK
  BY LifecycleAssumption DEF Init, TypeOK, Status, UploadStep, JobState, PurgeStep
<1>2. TypeOK /\ [Next]_vars => TypeOK'
  <2> SUFFICES ASSUME TypeOK, [Next]_vars PROVE TypeOK'
    OBVIOUS
  <2>1. CASE Next
    BY <2>1, UploadType, DeleteType, QueueType, RunType DEF Next
  <2>2. CASE UNCHANGED vars
    BY <2>2 DEF vars, TypeOK
  <2> QED BY <2>1, <2>2
<1> QED BY <1>1, <1>2, PTL DEF Spec

-----------------------------------------------------------------------------
(***************************************************************************)
(* References resolve and ready documents have a tree.  Neither invariant  *)
(* is inductive: it takes what a delivery still holds in memory.  Until    *)
(* the document is deleted, the texts a delivery has written are there, a  *)
(* delivery about to commit has written them all, and one that committed   *)
(* left its rows, unless its document has no section to leave a row for.   *)
(***************************************************************************)
Committed == {"summarizing", "enrich", "pages", "toc", "ready", "ok"}

WriteOrder(d, a) ==
  /\ At(d, a, "texts") =>
       row[d] = "deleted" \/ \A s \in ParsedSections(d) \ todo[d][a] : <<a, s>> \in texts[d]
  /\ At(d, a, "commit") =>
       row[d] = "deleted" \/ \A s \in ParsedSections(d) : <<a, s>> \in texts[d]
  /\ pc[d][a] \in Committed =>
       row[d] = "deleted" \/ ParsedSections(d) = {} \/ a \in sections[d]

StorageOrder(d) ==
  /\ upload[d] \in {"new", "put"} => row[d] = "absent"
  /\ upload[d] = "put" \/ RowExists(d) => source[d]
  /\ purge[d] # "idle" => row[d] = "deleted"
  /\ ~RowExists(d) => sections[d] = {}
  /\ \A b \in sections[d], s \in Sections : <<b, s>> \in texts[d]
  /\ row[d] = "ready" /\ ParsedSections(d) # {} => sections[d] # {}

StorageInv == \A d \in Docs : StorageOrder(d) /\ \A a \in Attempt : WriteOrder(d, a)

\* Where a delivery stands after another, or itself, has moved.
LEMMA MovePc ==
  ASSUME TypeOK, NEW d \in Docs, NEW a \in Attempt, NEW step, Move(d, a, step),
         NEW e \in Docs, NEW b \in Attempt
  PROVE  pc'[e][b] = IF e = d /\ b = a THEN step ELSE pc[e][b]
BY DEF TypeOK, Move

\* A status write commits nothing and loses nothing.
LEMMA StatusWriteOrder ==
  ASSUME TypeOK, StorageInv, NEW d \in Docs, NEW a \in Attempt,
         NEW from, NEW s \in LiveStatus, NEW to,
         <<from, to>> \in {<<"start", "parse">>, <<"summarizing", "enrich">>, <<"ready", "ok">>},
         StatusStep(d, a, from, s, to),
         NEW e \in Docs, NEW b \in Attempt
  PROVE  WriteOrder(e, b)'
<1>1. row[e] = "deleted" => row'[e] = "deleted"
  BY DEF StatusStep, SetDocumentStatus, RowExists, LiveStatus, TypeOK
<1>2. UNCHANGED <<sections, texts, todo, payload>>
  BY DEF StatusStep, GoTo, storage
<1>3. WriteOrder(e, b)
  BY DEF StorageInv
<1>4. CASE e = d /\ b = a
  <2>1. pc[e][b] = from /\ pc'[e][b] \in {to, "err"}
    BY <1>4, MovePc DEF StatusStep, At, GoTo
  <2> QED BY <1>1, <1>2, <1>3, <2>1 DEF WriteOrder, At, Committed, ParsedSections
<1>5. CASE ~(e = d /\ b = a)
  <2>1. pc'[e][b] = pc[e][b]
    BY <1>5, MovePc DEF StatusStep, GoTo
  <2> QED BY <1>1, <1>2, <1>3, <2>1 DEF WriteOrder, At, ParsedSections
<1> QED BY <1>4, <1>5

\* The upload and delete handlers: source before row, row before files.
LEMMA StorageHandlers ==
  ASSUME TypeOK, StorageInv, NEW d \in Docs, UploadNext(d) \/ DeleteNext(d)
  PROVE  StorageInv'
<1> SUFFICES ASSUME NEW e \in Docs
             PROVE  StorageOrder(e)' /\ \A b \in Attempt : WriteOrder(e, b)'
  BY DEF StorageInv
<1> USE DEF StorageInv, StorageOrder, WriteOrder, RowExists, LiveStatus, Committed,
            storage, job, exec, purging, At, ParsedSections, TypeOK
<1>1. CASE PutSource(d)
  BY <1>1 DEF PutSource
<1>2. CASE NewDocument(d)
  <2>1. UNCHANGED <<sections, source, texts, payload, pc, todo, purge>>
    BY <1>2 DEF NewDocument
  <2>2. row[d] = "absent" /\ source[d] /\ upload[d] = "put"
    BY <1>2 DEF NewDocument
  <2>3. row' = row \/ row' = [row EXCEPT ![d] = "pending"]
    BY <1>2 DEF NewDocument
  <2>4. \/ upload' = [upload EXCEPT ![d] = "inserted"]
        \/ upload' = [upload EXCEPT ![d] = "rejected"]
    BY <1>2 DEF NewDocument
  <2>5. row'[e] = row[e] \/ (e = d /\ row'[e] = "pending")
    BY <2>3
  <2>6. upload'[e] = upload[e] \/ (e = d /\ upload'[e] \in {"inserted", "rejected"})
    BY <2>4
  <2>7. upload'[e] \in {"new", "put"} => upload'[e] = upload[e] /\ e # d
    BY <2>4
  <2>8. StorageOrder(e)'
    BY <2>1, <2>2, <2>5, <2>6, <2>7
  <2>9. ASSUME NEW b \in Attempt PROVE WriteOrder(e, b)'
    BY <2>1, <2>2, <2>5
  <2> QED BY <2>8, <2>9
<1>3. CASE Enqueue(d)
  BY <1>3 DEF Enqueue
<1>4. CASE DeleteDocument(d)
  BY <1>4 DEF DeleteDocument
<1>5. CASE PurgeDocuments(d)
  BY <1>5 DEF PurgeDocuments
<1>6. CASE PurgePages(d)
  BY <1>6 DEF PurgePages
<1> QED BY <1>1, <1>2, <1>3, <1>4, <1>5, <1>6 DEF UploadNext, DeleteNext

\* The rows and files of a document, over a step of a delivery or the queue.
LEMMA StorageOrderStep ==
  ASSUME TypeOK, StorageInv, NEW d \in Docs, NEW a \in Attempt,
         RunNext(d, a) \/ QueueNext(d, a) \/ TroubleNext(d, a),
         NEW e \in Docs
  PROVE  StorageOrder(e)'
<1>1. CASE PutText(d, a)
  <2>1. UNCHANGED <<row, sections, source, upload, purge, payload>>
    BY <1>1 DEF PutText, purging
  <2>2. texts'[e] = texts[e] \/ \E s \in Sections : texts'[e] = texts[e] \cup {<<a, s>>}
    <3>0. texts \in [Docs -> SUBSET (Attempt \X Sections)] /\ todo[d][a] \subseteq Sections
      BY DEF TypeOK
    <3>1. CASE texts' = texts
      BY <3>1
    <3>2. ASSUME NEW s \in Sections, texts' = [texts EXCEPT ![d] = texts[d] \cup {<<a, s>>}]
          PROVE  texts'[e] = texts[e] \/ texts'[e] = texts[e] \cup {<<a, s>>}
      BY <3>0, <3>2
    <3> QED BY <1>1, <3>0, <3>1, <3>2 DEF PutText
  <2>3. \A b \in sections[e], s \in Sections : <<b, s>> \in texts'[e]
    BY <2>2 DEF StorageInv, StorageOrder
  <2> QED BY <2>1, <2>3 DEF StorageInv, StorageOrder, RowExists, ParsedSections
<1>2. CASE UpsertSections(d, a)
  <2>1. UNCHANGED <<row, source, texts, upload, purge, payload>>
    BY <1>2 DEF UpsertSections, storage, purging
  <2>2. CASE sections' = sections
    BY <2>1, <2>2 DEF StorageInv, StorageOrder, RowExists, ParsedSections
  <2>3. CASE ParsedSections(d) # {} /\ CommitTree(d, a)
    <3>0. ParsedSections(d) = Sections
      BY <2>3 DEF ParsedSections
    <3>1. \A s \in Sections : <<a, s>> \in texts[d]
      BY <1>2, <2>3, <3>0
      DEF UpsertSections, CommitTree, StorageInv, WriteOrder, RowExists, LiveStatus
    <3>2. sections'[e] = IF e = d THEN sections[d] \cup {a} ELSE sections[e]
      BY <2>3 DEF CommitTree, TypeOK
    <3> QED BY <2>1, <2>3, <3>1, <3>2
            DEF CommitTree, StorageInv, StorageOrder, RowExists, ParsedSections
  <2> QED BY <1>2, <2>2, <2>3 DEF UpsertSections, TypeOK
<1> USE DEF StorageInv, StorageOrder, WriteOrder, RowExists, LiveStatus, Committed,
            storage, bounds, job, exec, purging, At, GoTo, ParsedSections, TypeOK
<1>3. CASE Deliver(d, a)
  BY <1>3 DEF Deliver
<1>4. CASE Return(d, a)
  BY <1>4 DEF Return
<1>5. CASE Crash(d, a)
  BY <1>5 DEF Crash
<1>6. CASE Cancel(d, a)
  BY <1>6 DEF Cancel
<1>7. CASE DeliveryTimeout(d, a)
  BY <1>7 DEF DeliveryTimeout
<1>8. CASE SetParsing(d, a)
  BY <1>8 DEF SetParsing, StatusStep, SetDocumentStatus
<1>9. CASE Parse(d, a)
  BY <1>9 DEF Parse
<1>10. CASE SetSummarizing(d, a)
  BY <1>10 DEF SetSummarizing, StatusStep, SetDocumentStatus
<1>11. CASE Enrich(d, a)
  BY <1>11 DEF Enrich
<1>12. CASE PersistPages(d, a)
  BY <1>12 DEF PersistPages
<1>13. CASE UpdateDocumentTOCTree(d, a)
  BY <1>13 DEF UpdateDocumentTOCTree
<1>14. CASE SetReady(d, a)
  <2>1. UNCHANGED <<sections, texts, payload, source, upload, purge>>
    BY <1>14 DEF SetReady, StatusStep
  <2>2. row[d] = "deleted" \/ ParsedSections(d) = {} \/ a \in sections[d]
    BY <1>14 DEF SetReady, StatusStep
  <2>3. row' = row \/ (RowExists(d) /\ row' = [row EXCEPT ![d] = "ready"])
    BY <1>14 DEF SetReady, StatusStep, SetDocumentStatus
  <2>4. row'[e] = row[e] \/ (e = d /\ RowExists(d) /\ row'[e] = "ready")
    BY <2>3
  <2> QED BY <2>1, <2>2, <2>4
<1>15. CASE Fail(d, a)
  BY <1>15 DEF Fail, FailStatus, SetDocumentStatus
<1> QED BY <1>1, <1>2, <1>3, <1>4, <1>5, <1>6, <1>7, <1>8,
            <1>9, <1>10, <1>11, <1>12, <1>13, <1>14, <1>15
     DEF RunNext, QueueNext, TroubleNext

\* What the deliveries hold in memory, over the same steps.
LEMMA WriteOrderStep ==
  ASSUME TypeOK, StorageInv, NEW d \in Docs, NEW a \in Attempt,
         RunNext(d, a) \/ QueueNext(d, a) \/ TroubleNext(d, a),
         NEW e \in Docs, NEW b \in Attempt
  PROVE  WriteOrder(e, b)'
<1>0. WriteOrder(e, b)
  BY DEF StorageInv
<1>1. CASE SetParsing(d, a)
  BY <1>1, StatusWriteOrder DEF SetParsing, LiveStatus
<1>2. CASE SetSummarizing(d, a)
  BY <1>2, StatusWriteOrder DEF SetSummarizing, LiveStatus
<1>3. CASE SetReady(d, a)
  BY <1>3, StatusWriteOrder DEF SetReady, LiveStatus
<1>4. CASE Parse(d, a)
  <2>1. UNCHANGED <<row, sections, texts, payload>>
    BY <1>4 DEF Parse, storage
  <2>2. CASE e = d /\ b = a
    <3>1. \/ pc'[e][b] = "fail"
          \/ pc'[e][b] = "texts" /\ todo' = [todo EXCEPT ![d][a] = ParsedSections(d)]
      BY <1>4, <2>2, MovePc DEF Parse, GoTo
    <3> QED BY <2>1, <2>2, <3>1 DEF WriteOrder, At, Committed, ParsedSections, TypeOK
  <2>3. CASE ~(e = d /\ b = a)
    <3>1. pc'[e][b] = pc[e][b]
      BY <1>4, <2>3, MovePc DEF Parse, GoTo
    <3>2. todo'[e][b] = todo[e][b]
      BY <1>4, <2>3 DEF Parse, GoTo, TypeOK
    <3> QED BY <1>0, <2>1, <3>1, <3>2 DEF WriteOrder, At, ParsedSections
  <2> QED BY <2>2, <2>3
<1>5. CASE UpsertSections(d, a)
  <2>1. UNCHANGED <<row, texts, todo, payload>>
    BY <1>5 DEF UpsertSections, storage, GoTo
  <2>2. b \in sections[e] => b \in sections'[e]
    <3>0. sections \in [Docs -> SUBSET Attempt]
      BY DEF TypeOK
    <3>1. CASE sections' = sections
      BY <3>1
    <3>2. CASE sections' = [sections EXCEPT ![d] = sections[d] \cup {a}]
      BY <3>0, <3>2
    <3> QED BY <1>5, <3>0, <3>1, <3>2 DEF UpsertSections, CommitTree
  <2>3. CASE e = d /\ b = a
    <3>1. \/ pc'[e][b] = "fail"
          \/ /\ pc'[e][b] \in {"summarizing", "pages"}
             /\ ParsedSections(d) = {} \/ a \in sections'[d]
      BY <1>5, <2>3, MovePc DEF UpsertSections, CommitTree, GoTo, AfterTree, TypeOK
    <3> QED BY <2>1, <2>3, <3>1 DEF WriteOrder, At, Committed, ParsedSections
  <2>4. CASE ~(e = d /\ b = a)
    <3>1. pc'[e][b] = pc[e][b]
      BY <1>5, <2>4, MovePc DEF UpsertSections, GoTo
    <3> QED BY <1>0, <2>1, <2>2, <3>1 DEF WriteOrder, At, ParsedSections
  <2> QED BY <2>3, <2>4
<1>6. CASE PersistPages(d, a)
  <2>1. UNCHANGED <<row, sections, texts, todo, payload>>
    BY <1>6 DEF PersistPages, GoTo
  <2>2. CASE e = d /\ b = a
    <3>1. pc[e][b] = "pages" /\ pc'[e][b] \in {"toc", "ready"}
      BY <1>6, <2>2, MovePc DEF PersistPages, GoTo, At
    <3> QED BY <1>0, <2>1, <3>1 DEF WriteOrder, At, Committed, ParsedSections
  <2>3. CASE ~(e = d /\ b = a)
    <3>1. pc'[e][b] = pc[e][b]
      BY <1>6, <2>3, MovePc DEF PersistPages, GoTo
    <3> QED BY <1>0, <2>1, <3>1 DEF WriteOrder, At, ParsedSections
  <2> QED BY <2>2, <2>3
<1> USE DEF WriteOrder, StorageInv, Committed, storage, bounds, job, exec, purging, At, GoTo,
            Move, ParsedSections, TypeOK
<1>7. CASE Deliver(d, a)
  BY <1>0, <1>7 DEF Deliver
<1>8. CASE Return(d, a)
  BY <1>0, <1>8 DEF Return
<1>9. CASE Crash(d, a)
  BY <1>0, <1>9 DEF Crash
<1>10. CASE Cancel(d, a)
  BY <1>0, <1>10 DEF Cancel
<1>11. CASE DeliveryTimeout(d, a)
  BY <1>0, <1>11 DEF DeliveryTimeout
<1>12. CASE PutText(d, a)
  BY <1>0, <1>12 DEF PutText
<1>13. CASE Enrich(d, a)
  BY <1>0, <1>13 DEF Enrich
<1>14. CASE UpdateDocumentTOCTree(d, a)
  BY <1>0, <1>14 DEF UpdateDocumentTOCTree
<1>15. CASE Fail(d, a)
  BY <1>0, <1>15 DEF Fail, SetDocumentStatus, RowExists, LiveStatus
<1> QED BY <1>1, <1>2, <1>3, <1>4, <1>5, <1>6, <1>7, <1>8,
            <1>9, <1>10, <1>11, <1>12, <1>13, <1>14, <1>15
     DEF RunNext, QueueNext, TroubleNext

\* The order of writes is kept by every step of every actor.
LEMMA StorageInvariant == Spec => []StorageInv
<1>1. Init => StorageInv
  BY DEF Init, StorageInv, StorageOrder, WriteOrder, RowExists, LiveStatus, Committed, At
<1>2. TypeOK /\ StorageInv /\ [Next]_vars => StorageInv'
  <2> SUFFICES ASSUME TypeOK, StorageInv, [Next]_vars PROVE StorageInv'
    OBVIOUS
  <2>1. ASSUME NEW d \in Docs, UploadNext(d) \/ DeleteNext(d) PROVE StorageInv'
    BY <2>1, StorageHandlers
  <2>2. ASSUME NEW d \in Docs, NEW a \in Attempt,
               RunNext(d, a) \/ QueueNext(d, a) \/ TroubleNext(d, a)
        PROVE  StorageInv'
    BY <2>2, StorageOrderStep, WriteOrderStep DEF StorageInv
  <2>3. CASE UNCHANGED vars
    BY <2>3 DEF vars, StorageInv, StorageOrder, WriteOrder, RowExists, At, ParsedSections
  <2> QED BY <2>1, <2>2, <2>3 DEF Next
<1> QED BY <1>1, <1>2, TypeCorrect, PTL DEF Spec

\* In every reachable state the source of a live document and the text of
\* every committed section are in storage, whatever deliveries, deletes,
\* crashes and faults interleave: persistTree writes texts before rows and
\* HandleDeleteDocument deletes rows before files.
THEOREM ReferencesResolve == Spec => []RefsResolve
<1>1. StorageInv => RefsResolve
  BY DEF StorageInv, StorageOrder, RefsResolve
<1> QED BY <1>1, StorageInvariant, PTL

\* Pipeline.run never serves a document that has sections as ready before a
\* delivery of its job has committed their tree, on any queue backend and with
\* any database call answered by an error whether it was carried out or not.
THEOREM ReadyNeedsTree == Spec => []ReadyHasTree
<1>1. StorageInv => ReadyHasTree
  BY DEF StorageInv, StorageOrder, ReadyHasTree
<1> QED BY <1>1, StorageInvariant, PTL

-----------------------------------------------------------------------------
(***************************************************************************)
(* River.  A running delivery is the one River waits for, so there is at   *)
(* most one; a status of failed is then either final for the job, about to *)
(* be reported, or left by a worker that died before reporting, and while  *)
(* the row says ready no delivery is between its first and last step.      *)
(***************************************************************************)
RiverOrder(d) ==
  /\ upload[d] \in {"new", "put", "inserted"} => jobState[d] = "none"
  /\ \A a \in Attempt : Running(d, a) => Awaited(d, a)
  /\ row[d] = "failed" =>
      \/ jobState[d] = "dead"
      \/ rescued[d]
      \/ \E a \in Attempt : /\ At(d, a, "err") /\ Awaited(d, a)
                            /\ RetryOrBury(a, perm[d][a]) = "dead"
  /\ row[d] = "ready" =>
      \A a \in Attempt : Running(d, a) => pc[d][a] \in {"start", "ok", "err"}
RiverInv == \A d \in Docs : RiverOrder(d)

\* A step of a running delivery that has not yet returned.
LEMMA RiverRun ==
  ASSUME TypeOK, NEW d \in Docs, NEW a \in Attempt, NEW step \in RunStep,
         \A e \in Docs : RiverOrder(e),
         Running(d, a), pc[d][a] \notin {"ok", "err"}, Move(d, a, step),
         UNCHANGED <<upload, jobState, attempts, rescued>>,
         \A e \in Docs, b \in Attempt : e # d \/ b # a => perm'[e][b] = perm[e][b],
         \A e \in Docs : e # d => row'[e] = row[e],
         row'[d] = "failed" =>
           row[d] = "failed" \/ (step = "err" /\ RetryOrBury(a, perm'[d][a]) = "dead"),
         row'[d] = "ready" => step \in {"ok", "err"},
         NEW e \in Docs
  PROVE  RiverOrder(e)'
<1>0. RiverOrder(e) /\ RiverOrder(d)
  OBVIOUS
<1>1. \A b \in Attempt : pc'[e][b] = IF e = d /\ b = a THEN step ELSE pc[e][b]
  BY MovePc
<1>2. \A b \in Attempt : Running(e, b)' => Awaited(e, b)'
  BY <1>0, <1>1 DEF RiverOrder, Running, Awaited
<1>3. CASE e # d
  BY <1>0, <1>1, <1>2, <1>3 DEF RiverOrder, Running, At, Awaited, RetryOrBury
<1>4. CASE e = d
  <2>1. Awaited(d, a) /\ Awaited(d, a)'
    BY <1>0 DEF RiverOrder, Awaited
  <2>2. \A b \in Attempt : Awaited(d, b) => b = a
    BY <2>1 DEF Awaited
  <2>3. row[d] = "failed" => rescued[d]
    BY <1>0, <2>1, <2>2 DEF RiverOrder, At, Awaited
  <2>4. row'[d] = "ready" => \A b \in Attempt : Running(d, b)' => pc'[d][b] \in {"ok", "err"}
    BY <1>1, <1>2, <1>4, <2>1, <2>2 DEF Awaited
  <2>5. At(d, a, step)'
    BY <1>1, <1>4 DEF At
  <2> QED BY <1>0, <1>2, <1>4, <2>1, <2>3, <2>4, <2>5 DEF RiverOrder, RetryOrBury
<1> QED BY <1>3, <1>4

\* The upload and delete handlers do not disturb the order of deliveries.
LEMMA RiverHandlers ==
  ASSUME TypeOK, StorageInv, RiverInv, NEW d \in Docs, UploadNext(d) \/ DeleteNext(d)
  PROVE  RiverInv'
<1> SUFFICES ASSUME NEW e \in Docs PROVE RiverOrder(e)'
  BY DEF RiverInv
<1> USE DEF RiverInv, RiverOrder, storage, job, exec, purging, At, Running, RunStep,
            Awaited, TypeOK
<1>1. CASE PutSource(d)
  BY <1>1 DEF PutSource
<1>2. CASE NewDocument(d)
  BY <1>2 DEF NewDocument
<1>3. CASE Enqueue(d)
  BY <1>3 DEF Enqueue, SetJobState
<1>4. CASE DeleteDocument(d)
  BY <1>4 DEF DeleteDocument
<1>5. CASE PurgeDocuments(d)
  BY <1>5 DEF PurgeDocuments
<1>6. CASE PurgePages(d)
  BY <1>6 DEF PurgePages
<1> QED BY <1>1, <1>2, <1>3, <1>4, <1>5, <1>6 DEF UploadNext, DeleteNext

\* River hands a job out only when no delivery of it runs.
LEMMA RiverQueue ==
  ASSUME TypeOK, RiverInv, Backend = "river", NEW d \in Docs, NEW a \in Attempt,
         QueueNext(d, a) \/ TroubleNext(d, a)
  PROVE  RiverInv'
<1> SUFFICES ASSUME NEW e \in Docs PROVE RiverOrder(e)'
  BY DEF RiverInv
<1>0. RiverOrder(e) /\ RiverOrder(d)
  BY DEF RiverInv
<1>1. CASE Crash(d, a)
  <2>1. \A b \in Attempt : pc'[e][b] = IF e = d /\ b = a THEN "over" ELSE pc[e][b]
    BY <1>1, MovePc DEF Crash, GoTo
  <2>2. UNCHANGED <<upload, attempts, row, perm>>
    BY <1>1 DEF Crash, GoTo
  <2>3. Awaited(d, a) /\ rescued' = [rescued EXCEPT ![d] = TRUE]
    BY <1>0, <1>1 DEF Crash, RiverOrder, TypeOK
  <2>4. jobState' = [jobState EXCEPT ![d] = RetryOrBury(a, FALSE)]
    BY <1>1, <2>3 DEF Crash, Report, SetJobState
  <2>5. CASE e = d
    BY <1>0, <2>1, <2>2, <2>3, <2>4, <2>5
    DEF RiverOrder, Running, RunStep, Awaited, TypeOK
  <2>6. CASE e # d
    BY <1>0, <2>1, <2>2, <2>3, <2>4, <2>6
    DEF RiverOrder, Running, At, Awaited, RetryOrBury, TypeOK
  <2> QED BY <2>5, <2>6
<1> USE DEF RiverInv, RiverOrder, storage, bounds, job, exec, purging, At, GoTo, Move,
            Running, RunStep, Awaited, RetryOrBury, TypeOK
<1>2. CASE Deliver(d, a)
  BY <1>2 DEF Deliver, SetJobState
<1>3. CASE Return(d, a)
  BY <1>3 DEF Return, Report, SetJobState
<1>4. CASE Cancel(d, a)
  BY <1>4 DEF Cancel
<1>5. CASE DeliveryTimeout(d, a)
  BY <1>5 DEF DeliveryTimeout, Redelivers
<1> QED BY <1>1, <1>2, <1>3, <1>4, <1>5 DEF QueueNext, TroubleNext

\* A step of Pipeline.run is a step of the one delivery that runs.
LEMMA RiverPipeline ==
  ASSUME TypeOK, RiverInv, Backend = "river", NEW d \in Docs, NEW a \in Attempt,
         RunNext(d, a)
  PROVE  RiverInv'
<1> SUFFICES ASSUME NEW e \in Docs PROVE RiverOrder(e)'
  BY DEF RiverInv
<1>0. \A f \in Docs : RiverOrder(f)
  BY DEF RiverInv
<1>s. RunStep = {"start", "parse", "texts", "commit", "summarizing", "enrich",
                 "pages", "toc", "ready", "fail", "ok", "err"}
  BY DEF RunStep
<1>1. ASSUME NEW from \in {"start", "summarizing", "ready"}, NEW s \in LiveStatus,
             s # "failed", NEW to \in RunStep, s = "ready" => to = "ok",
             StatusStep(d, a, from, s, to)
      PROVE  RiverOrder(e)'
  <2>1. /\ Running(d, a) /\ pc[d][a] \notin {"ok", "err"}
        /\ UNCHANGED <<upload, jobState, attempts, rescued, perm>>
        /\ \A f \in Docs : f # d => row'[f] = row[f]
    BY <1>1, <1>s DEF StatusStep, SetDocumentStatus, GoTo, At, Running, job, TypeOK
  <2>2. CASE Move(d, a, to) /\ row'[d] \in {row[d], s} /\ (row[d] = "ready" => row'[d] = s)
    BY <1>0, <1>1, <2>1, <2>2, RiverRun
  <2>3. CASE Move(d, a, "err") /\ row'[d] \in {row[d], s}
    BY <1>0, <1>1, <1>s, <2>1, <2>3, RiverRun
  <2>4. SetDocumentStatus(d, s) =>
          row'[d] \in {row[d], s} /\ (row[d] = "ready" => row'[d] = s)
    BY DEF SetDocumentStatus, RowExists, LiveStatus, TypeOK
  <2> QED BY <1>1, <2>2, <2>3, <2>4 DEF StatusStep, GoTo
<1>2. CASE SetParsing(d, a)
  BY <1>1, <1>2, <1>s DEF SetParsing, LiveStatus
<1>3. CASE SetSummarizing(d, a)
  BY <1>1, <1>3, <1>s DEF SetSummarizing, LiveStatus
<1>4. CASE SetReady(d, a)
  BY <1>1, <1>4, <1>s DEF SetReady, LiveStatus
<1>5. ASSUME NEW from \in RunStep \ {"start", "ok", "err"}, At(d, a, from),
             NEW to \in RunStep, Move(d, a, to),
             UNCHANGED <<upload, jobState, attempts, rescued, row>>,
             \A f \in Docs, b \in Attempt : f # d \/ b # a => perm'[f][b] = perm[f][b]
      PROVE  RiverOrder(e)'
  <2>1. row'[d] # "ready"
    BY <1>0, <1>5 DEF RiverOrder, At, Running
  <2> QED BY <1>0, <1>5, <2>1, RiverRun DEF At, Running
<1>6. CASE Parse(d, a)
  <2>1. \A f \in Docs, b \in Attempt : f # d \/ b # a => perm'[f][b] = perm[f][b]
    BY <1>6 DEF Parse, GoTo, TypeOK
  <2>2. At(d, a, "parse") /\ UNCHANGED <<upload, jobState, attempts, rescued, row>>
    BY <1>6 DEF Parse, job
  <2>3. Move(d, a, "texts") \/ Move(d, a, "fail")
    BY <1>6 DEF Parse, GoTo
  <2> QED BY <1>5, <1>s, <2>1, <2>2, <2>3
<1>7. CASE PutText(d, a)
  <2>1. At(d, a, "texts") /\ UNCHANGED <<upload, jobState, attempts, rescued, row, perm>>
    BY <1>7 DEF PutText, job, GoTo
  <2>2. pc' = pc \/ Move(d, a, "commit") \/ Move(d, a, "fail")
    BY <1>7 DEF PutText, GoTo
  <2>3. CASE pc' = pc
    BY <1>0, <2>1, <2>3 DEF RiverOrder, Running, Awaited, At, RetryOrBury
  <2> QED BY <1>5, <1>s, <2>1, <2>2, <2>3
<1>8. CASE UpsertSections(d, a)
  <2>1. At(d, a, "commit") /\ UNCHANGED <<upload, jobState, attempts, rescued, row, perm>>
    BY <1>8 DEF UpsertSections, job, GoTo
  <2>2. Move(d, a, "summarizing") \/ Move(d, a, "pages") \/ Move(d, a, "fail")
    BY <1>8 DEF UpsertSections, GoTo, AfterTree
  <2> QED BY <1>5, <1>s, <2>1, <2>2
<1>9. CASE Enrich(d, a)
  BY <1>5, <1>9, <1>s DEF Enrich, GoTo, job
<1>10. CASE PersistPages(d, a)
  <2>1. At(d, a, "pages") /\ UNCHANGED <<upload, jobState, attempts, rescued, row, perm>>
    BY <1>10 DEF PersistPages, job, GoTo
  <2>2. Move(d, a, "toc") \/ Move(d, a, "ready")
    BY <1>10 DEF PersistPages, GoTo
  <2> QED BY <1>5, <1>s, <2>1, <2>2
<1>11. CASE UpdateDocumentTOCTree(d, a)
  BY <1>5, <1>11, <1>s DEF UpdateDocumentTOCTree, GoTo, job
<1>12. CASE Fail(d, a)
  <2>1. /\ Running(d, a) /\ pc[d][a] = "fail" /\ Move(d, a, "err")
        /\ UNCHANGED <<upload, jobState, attempts, rescued, perm>>
    BY <1>12, <1>s DEF Fail, GoTo, At, Running, job
  <2>2. row' = row \/ row' = [row EXCEPT ![d] = FailStatus(d, a)]
    BY <1>12 DEF Fail, SetDocumentStatus
  <2>3. FailStatus(d, a) = "failed" => RetryOrBury(a, perm[d][a]) = "dead"
    BY DEF FailStatus, isLastAttempt, TracksAttempts, RetryOrBury, StopsOnPermanent
  <2>4. FailStatus(d, a) \in {"failed", "parsing"}
    BY DEF FailStatus
  <2>5. \A f \in Docs : f # d => row'[f] = row[f]
    BY <2>2 DEF TypeOK
  <2>6. row'[d] \in {row[d], FailStatus(d, a)}
    BY <2>2 DEF TypeOK
  <2>7. row'[d] = "failed" =>
          row[d] = "failed" \/ RetryOrBury(a, perm'[d][a]) = "dead"
    BY <2>1, <2>3, <2>6
  <2>8. row'[d] # "ready"
    BY <1>0, <2>1, <2>4, <2>6 DEF RiverOrder
  <2> QED BY <1>0, <1>s, <2>1, <2>5, <2>7, <2>8, RiverRun
<1> QED BY <1>2, <1>3, <1>4, <1>6, <1>7, <1>8, <1>9, <1>10, <1>11, <1>12 DEF RunNext

\* With River the order of deliveries is kept by every step.
LEMMA RiverInvariant ==
  ASSUME Backend = "river"
  PROVE  Spec => []RiverInv
<1>1. Init => RiverInv
  BY DEF Init, RiverInv, RiverOrder, Running, RunStep
<1>2. TypeOK /\ StorageInv /\ RiverInv /\ [Next]_vars => RiverInv'
  <2> SUFFICES ASSUME TypeOK, StorageInv, RiverInv, [Next]_vars PROVE RiverInv'
    OBVIOUS
  <2>1. CASE Next
    BY <2>1, RiverHandlers, RiverQueue, RiverPipeline DEF Next
  <2>2. CASE UNCHANGED vars
    BY <2>2 DEF vars, RiverInv, RiverOrder, Running, Awaited, At, RetryOrBury
  <2> QED BY <2>1, <2>2
<1> QED BY <1>1, <1>2, TypeCorrect, StorageInvariant, PTL DEF Spec

\* With River a document is marked failed only when no delivery of its job
\* is left, or when a worker died after writing the status: Pipeline.fail's
\* test of the attempt agrees with River's own decision to retry.
THEOREM RiverFailedIsFinal ==
  ASSUME Backend = "river"
  PROVE  Spec => []FailedIsFinal
<1>1. RiverInv => FailedIsFinal
  BY DEF RiverInv, RiverOrder, FailedIsFinal
<1> QED BY <1>1, RiverInvariant, PTL

\* With River no two deliveries of one job ever run at once.
THEOREM RiverOneDelivery ==
  ASSUME Backend = "river"
  PROVE  Spec => []OneDelivery
<1>1. RiverInv => OneDelivery
  BY DEF RiverInv, RiverOrder, OneDelivery, Awaited
<1> QED BY <1>1, RiverInvariant, PTL

\* With River a ready document whose run has told its success only leaves that
\* status by being deleted; one whose run has not goes back to "parsing" when
\* its job is delivered again, and never to another status.
THEOREM RiverReadyIsStable ==
  ASSUME Backend = "river"
  PROVE  Spec => ReadyIsStable
<1>1. TypeOK /\ StorageInv /\ RiverInv /\ [Next]_vars => [ReadyStep]_vars
  <2> SUFFICES ASSUME TypeOK, StorageInv, RiverInv, Next,
                      NEW d \in Docs, row[d] = "ready", row'[d] # "ready"
               PROVE  row'[d] = "deleted" \/ (row'[d] = "parsing" /\ ~Told(d))
    BY DEF ReadyStep
  <2>0. /\ \A a \in Attempt : Running(d, a) => Awaited(d, a)
        /\ \A a \in Attempt : Running(d, a) => pc[d][a] \in {"start", "ok", "err"}
        /\ upload[d] # "put"
    BY DEF RiverInv, RiverOrder, StorageInv, StorageOrder
  <2>1. ASSUME NEW a \in Attempt, At(d, a, "start") PROVE ~Told(d)
    <3>1. Running(d, a) /\ \A b \in Attempt : Running(d, b) => b = a
      BY <2>0, <2>1 DEF At, Running, RunStep, Awaited
    <3> QED BY <2>0, <2>1, <3>1 DEF Told, At, Running, RunStep, Awaited
  <2>2. PICK e \in Docs :
          \/ UploadNext(e) \/ DeleteNext(e)
          \/ \E a \in Attempt : RunNext(e, a) \/ QueueNext(e, a) \/ TroubleNext(e, a)
    BY DEF Next
  <2>3. CASE UploadNext(e)
    BY <2>0, <2>3 DEF UploadNext, PutSource, NewDocument, Enqueue, TypeOK
  <2>4. CASE DeleteNext(e)
    BY <2>4 DEF DeleteNext, DeleteDocument, PurgeDocuments, PurgePages, TypeOK
  <2>5. ASSUME NEW a \in Attempt, QueueNext(e, a) \/ TroubleNext(e, a) PROVE FALSE
    BY <2>5 DEF QueueNext, TroubleNext, Deliver, Return, Crash, Cancel, DeliveryTimeout
  <2>6. ASSUME NEW a \in Attempt, RunNext(e, a)
        PROVE  row'[d] = "parsing" /\ ~Told(d)
    <3>1. CASE SetParsing(e, a)
      <4>1. e = d /\ At(d, a, "start") /\ row'[d] = "parsing"
        BY <3>1 DEF SetParsing, StatusStep, SetDocumentStatus, TypeOK
      <4> QED BY <2>1, <4>1
    <3>2. CASE SetSummarizing(e, a) \/ SetReady(e, a) \/ Fail(e, a)
      <4>1. e = d /\ pc[d][a] \in {"summarizing", "ready", "fail"}
        BY <3>2 DEF SetSummarizing, SetReady, StatusStep, Fail, SetDocumentStatus, At, TypeOK
      <4> QED BY <2>0, <4>1 DEF Running, RunStep
    <3>3. CASE row' = row
      BY <3>3
    <3> QED BY <2>6, <3>1, <3>2, <3>3 DEF RunNext, Parse, PutText, UpsertSections, Enrich,
                                    PersistPages, UpdateDocumentTOCTree
  <2> QED BY <2>2, <2>3, <2>4, <2>5, <2>6
<1> QED BY <1>1, TypeCorrect, StorageInvariant, RiverInvariant, PTL DEF Spec, ReadyIsStable
====
