----------------------- MODULE IdempotentIngestProofs -----------------------
(***************************************************************************)
(* Proofs about IdempotentIngest, for any uploads, tenants, keys, servers  *)
(* and number of failing calls.                                            *)
(***************************************************************************)
EXTENDS IdempotentIngest, TLAPS

-----------------------------------------------------------------------------
(***************************************************************************)
(* Type correctness.                                                       *)
(***************************************************************************)
\* The two kinds of answer a handler writes are responses.
LEMMA AnswerType ==
  /\ \A d \in Requests : \A s \in {"pending", "ready"} : Accepted(d, s) \in ResponseType
  /\ Refused(400) \in ResponseType /\ Refused(500) \in ResponseType
  /\ NoResponse \in ResponseType
BY DEF Accepted, Refused, NoResponse, ResponseType

\* A reply leaves requests at known steps with known responses.
LEMMA ReplyType ==
  ASSUME TypeOK, NEW r \in Requests, NEW a \in ResponseType, Reply(r, a)
  PROVE  /\ resp' \in [Requests -> ResponseType]
         /\ pc' \in [Requests -> Step]
BY DEF TypeOK, Reply, Goto, Step

\* A document found under a key is answered with its status.
LEMMA HolderType ==
  ASSUME TypeOK, NEW r \in Requests, NEW d \in Holders(r)
  PROVE  /\ d \in Requests /\ row[d] \in {"pending", "ready"}
         /\ Accepted(d, row[d]) \in ResponseType
BY AnswerType DEF Holders, Live

\* The cache is keyed by tenants and keys: requests without a key bypass it.
LEMMA ScopedKeyType ==
  ASSUME TypeOK, NEW r \in Requests, HasKey(r)
  PROVE  ScopedKey(r) \in Scope /\ req[r].server \in Servers
BY DEF TypeOK, RequestType, HasKey, ScopedKey, Scope

\* The bound on failing calls is kept.
LEMMA FaultType ==
  ASSUME TypeOK, Fault
  PROVE  faults' \in 0..MaxFaults
BY IdempotencyAssumption DEF TypeOK, Fault

\* A request only reaches the step that fills the cache when it has a key.
StoresKeyed == \A r \in Requests : pc[r] = "store" => HasKey(r)

\* Every upload step keeps the state typed.
LEMMA UploadType ==
  ASSUME TypeOK, StoresKeyed, NEW r \in Requests,
         \/ Start(r) \/ Lookup(r) \/ Put(r) \/ NewDocument(r) \/ DeleteOrphan(r)
         \/ Winner(r) \/ Enqueue(r) \/ Store(r)
  PROVE  TypeOK'
<1>1. CASE Start(r)
  <2>1. CASE Replays(r) /\ resp' = [resp EXCEPT ![r] = Entry(r)] /\ Goto(r, "done")
    <3>1. Entry(r) \in ResponseType
      BY <2>1, ScopedKeyType DEF TypeOK, Replays, Cached, Entry
    <3> QED BY <1>1, <2>1, <3>1 DEF TypeOK, Start, Goto, Step
  <2>2. CASE Goto(r, "lookup") /\ UNCHANGED resp
    BY <1>1, <2>2 DEF TypeOK, Start, Goto, Step
  <2> QED BY <1>1, <2>1, <2>2 DEF Start
<1>2. CASE Lookup(r)
  <2>1. resp' \in [Requests -> ResponseType] /\ pc' \in [Requests -> Step]
    <3>1. ASSUME NEW d \in Holders(r), Reply(r, Accepted(d, row[d]))
          PROVE  resp' \in [Requests -> ResponseType] /\ pc' \in [Requests -> Step]
      BY <3>1, HolderType, ReplyType
    <3>2. CASE Reply(r, Refused(500)) \/ Reply(r, Refused(400))
      BY <3>2, AnswerType, ReplyType
    <3>3. CASE Goto(r, "put") /\ UNCHANGED resp
      BY <3>3 DEF TypeOK, Goto, Step
    <3> QED BY <1>2, <3>1, <3>2, <3>3 DEF Lookup
  <2>2. faults' \in 0..MaxFaults
    BY <1>2, FaultType DEF Lookup, TypeOK
  <2> QED BY <1>2, <2>1, <2>2 DEF Lookup, TypeOK
<1>3. CASE Put(r)
  <2>1. resp' \in [Requests -> ResponseType] /\ pc' \in [Requests -> Step]
    BY <1>3, AnswerType, ReplyType DEF Put, Goto, Step, TypeOK
  <2>2. source' \in [Requests -> BOOLEAN]
    BY <1>3 DEF Put, TypeOK
  <2>3. faults' \in 0..MaxFaults
    BY <1>3, FaultType DEF Put, TypeOK
  <2> QED BY <1>3, <2>1, <2>2, <2>3 DEF Put, TypeOK
<1>4. CASE NewDocument(r)
  <2>1. resp' \in [Requests -> ResponseType] /\ pc' \in [Requests -> Step]
    BY <1>4, AnswerType, ReplyType DEF NewDocument, Goto, Step, TypeOK
  <2>2. row' \in [Requests -> Status]
    BY <1>4 DEF NewDocument, TypeOK, Status
  <2>3. faults' \in 0..MaxFaults
    BY <1>4, FaultType DEF NewDocument, TypeOK
  <2> QED BY <1>4, <2>1, <2>2, <2>3 DEF NewDocument, TypeOK
<1>5. CASE DeleteOrphan(r)
  <2>1. pc' \in [Requests -> Step]
    BY <1>5 DEF DeleteOrphan, Goto, Step, TypeOK
  <2>2. source' \in [Requests -> BOOLEAN] /\ raced' \in SUBSET Requests
    BY <1>5 DEF DeleteOrphan, TypeOK
  <2>3. faults' \in 0..MaxFaults
    BY <1>5, FaultType DEF DeleteOrphan, TypeOK
  <2> QED BY <1>5, <2>1, <2>2, <2>3 DEF DeleteOrphan, TypeOK
<1>6. CASE Winner(r)
  <2>1. resp' \in [Requests -> ResponseType] /\ pc' \in [Requests -> Step]
    <3>1. ASSUME NEW d \in Holders(r), Reply(r, Accepted(d, row[d]))
          PROVE  resp' \in [Requests -> ResponseType] /\ pc' \in [Requests -> Step]
      BY <3>1, HolderType, ReplyType
    <3>2. CASE Reply(r, Refused(500))
      BY <3>2, AnswerType, ReplyType
    <3> QED BY <1>6, <3>1, <3>2 DEF Winner
  <2>2. faults' \in 0..MaxFaults
    BY <1>6, FaultType DEF Winner, TypeOK
  <2> QED BY <1>6, <2>1, <2>2 DEF Winner, TypeOK
<1>7. CASE Enqueue(r)
  <2>1. resp' \in [Requests -> ResponseType] /\ pc' \in [Requests -> Step]
    BY <1>7, AnswerType, ReplyType DEF Enqueue
  <2>2. job' \in [Requests -> BOOLEAN]
    BY <1>7 DEF Enqueue, TypeOK
  <2>3. faults' \in 0..MaxFaults
    BY <1>7, FaultType DEF Enqueue, TypeOK
  <2> QED BY <1>7, <2>1, <2>2, <2>3 DEF Enqueue, TypeOK
<1>8. CASE Store(r)
  <2>1. ScopedKey(r) \in Scope /\ req[r].server \in Servers
    BY <1>8, ScopedKeyType DEF Store, StoresKeyed
  <2>2. cache' \in [Servers -> [Scope -> ResponseType]]
    BY <1>8, <2>1 DEF Store, TypeOK
  <2> QED BY <1>8, <2>2 DEF Store, TypeOK, Goto, Step
<1> QED BY <1>1, <1>2, <1>3, <1>4, <1>5, <1>6, <1>7, <1>8

\* So do the worker, a client's delete and the expiry of a cached response.
LEMMA OutsideType ==
  ASSUME TypeOK,
         \/ \E d \in Requests : Ingest(d) \/ Delete(d)
         \/ \E s \in Servers, k \in Scope : Expire(s, k)
  PROVE  TypeOK'
<1>1. ASSUME NEW d \in Requests, Ingest(d)
      PROVE  TypeOK'
  BY <1>1 DEF Ingest, TypeOK, Status
<1>2. ASSUME NEW d \in Requests, Delete(d)
      PROVE  TypeOK'
  BY <1>2 DEF Delete, TypeOK, Status
<1>3. ASSUME NEW s \in Servers, NEW k \in Scope, Expire(s, k)
      PROVE  TypeOK'
  <2>1. cache' \in [Servers -> [Scope -> ResponseType]]
    BY <1>3, AnswerType DEF Expire, TypeOK
  <2> QED BY <1>3, <2>1 DEF Expire, TypeOK
<1> QED BY <1>1, <1>2, <1>3

-----------------------------------------------------------------------------
(***************************************************************************)
(* The inductive invariant.  A row appears together with the promise of    *)
(* its job; an answer, and every cached copy of one, names a row that      *)
(* appeared under the tenant and key it answers.                           *)
(***************************************************************************)
\* The request that minted d enqueued its job, is about to, or was refused.
JobPromised(d) == job[d] \/ pc[d] = "enqueue" \/ resp[d].code = 500

\* Nothing has been answered before the handler is through.
NoEarlyAnswer ==
  \A r \in Requests : pc[r] \notin {"store", "done"} => resp[r].code = 0

\* The row is inserted on the way to the queue.
RowsBegun ==
  \A d \in Requests :
    /\ pc[d] = "enqueue" => row[d] # "absent"
    /\ row[d] # "absent" => pc[d] \in {"enqueue", "store", "done"} /\ JobPromised(d)

\* An accepted answer names an inserted row of that tenant and key.
AnswersFit ==
  \A r \in Requests :
    resp[r].code = 202 => SameKey(r, resp[r].doc) /\ row[resp[r].doc] # "absent"

\* So does every cached answer, whoever asks with that tenant and key later.
CachedAnswersFit ==
  \A s \in Servers : \A o \in Orgs : \A k \in Keys :
    LET a == cache[s][<<o, k>>] IN
      a.code = 202 => /\ req[a.doc].org = o /\ req[a.doc].key = k
                      /\ row[a.doc] # "absent"

\* A source without a row belongs to an upload under way, to a loser whose
\* cleanup failed or to an upload that was refused.
SourcesAccounted ==
  \A r \in Requests :
    source[r] /\ row[r] = "absent" =>
      pc[r] \in {"insert", "cleanup"} \/ r \in raced \/ resp[r].code = 500

IdempotencyInv ==
  /\ TypeOK
  /\ StoresKeyed
  /\ NoEarlyAnswer
  /\ RowsBegun
  /\ AnswersFit
  /\ CachedAnswersFit
  /\ SourcesAccounted
  /\ OneDocumentPerKey

\* A request that has no row yet may be answered, as long as the answer fits
\* it and a source left behind is accounted for.
LEMMA ReplyKeeps ==
  ASSUME IdempotencyInv, TypeOK', NEW r \in Requests,
         pc[r] \in {"lookup", "put", "insert", "winner"},
         NEW a \in ResponseType, Reply(r, a),
         a.code = 202 => SameKey(r, a.doc) /\ row[a.doc] # "absent",
         source[r] => a.code = 500 \/ r \in raced,
         UNCHANGED <<req, row, source, job, cache, raced>>
  PROVE  IdempotencyInv'
<1> USE DEF IdempotencyInv
<1>0. row[r] = "absent"
  BY DEF RowsBegun, TypeOK
<1>1. /\ resp' \in [Requests -> ResponseType]
      /\ resp'[r] = a /\ \A t \in Requests \ {r} : resp'[t] = resp[t]
      /\ pc'[r] = (IF Cached(r) THEN "store" ELSE "done")
      /\ \A t \in Requests \ {r} : pc'[t] = pc[t]
  BY DEF Reply, Goto, TypeOK
<1>2. StoresKeyed'
  BY <1>1 DEF StoresKeyed, HasKey, Cached
<1>3. NoEarlyAnswer'
  BY <1>1 DEF NoEarlyAnswer
<1>4. RowsBegun'
  BY <1>0, <1>1 DEF RowsBegun, JobPromised
<1>5. AnswersFit'
  BY <1>1 DEF AnswersFit, SameKey
<1>6. CachedAnswersFit'
  BY DEF CachedAnswersFit
<1>7. SourcesAccounted'
  BY <1>1 DEF SourcesAccounted
<1>8. OneDocumentPerKey'
  BY DEF OneDocumentPerKey, HasKey, SameKey, Live
<1> QED BY <1>2, <1>3, <1>4, <1>5, <1>6, <1>7, <1>8

\* A request that moves on before it is answered, without inserting its row,
\* disturbs only what is said of its source.
LEMMA MoveKeeps ==
  ASSUME IdempotencyInv, TypeOK', NEW r \in Requests,
         pc[r] \in {"start", "lookup", "put", "insert", "cleanup"},
         NEW step \in {"lookup", "put", "insert", "cleanup", "winner"}, Goto(r, step),
         UNCHANGED <<req, resp, row, job, cache>>,
         \A t \in Requests \ {r} : source'[t] = source[t] /\ (t \in raced' <=> t \in raced),
         source'[r] => step \in {"insert", "cleanup"} \/ r \in raced'
  PROVE  IdempotencyInv'
<1> USE DEF IdempotencyInv
<1>0. row[r] = "absent"
  BY DEF RowsBegun, TypeOK
<1>1. pc'[r] = step /\ \A t \in Requests \ {r} : pc'[t] = pc[t]
  BY DEF Goto, TypeOK
<1>2. StoresKeyed'
  BY <1>1 DEF StoresKeyed, HasKey
<1>3. NoEarlyAnswer'
  BY <1>1 DEF NoEarlyAnswer
<1>4. RowsBegun'
  BY <1>0, <1>1 DEF RowsBegun, JobPromised
<1>5. AnswersFit' /\ CachedAnswersFit'
  BY DEF AnswersFit, CachedAnswersFit, SameKey
<1>6. SourcesAccounted'
  BY <1>1 DEF SourcesAccounted
<1>7. OneDocumentPerKey'
  BY DEF OneDocumentPerKey, HasKey, SameKey, Live
<1> QED BY <1>2, <1>3, <1>4, <1>5, <1>6, <1>7

\* The document found under a key fits whoever looked it up.
LEMMA HolderFits ==
  ASSUME TypeOK, NEW r \in Requests, NEW d \in Holders(r)
  PROVE  LET a == Accepted(d, row[d]) IN
           /\ a \in ResponseType
           /\ a.code = 202 => SameKey(r, a.doc) /\ row[a.doc] # "absent"
BY HolderType DEF Holders, Live, Accepted

\* A source without a row, before its upload is answered, is a known one.
LEMMA SourceBeforeAnswer ==
  ASSUME IdempotencyInv, NEW r \in Requests,
         pc[r] \in {"start", "lookup", "put", "winner"}, source[r]
  PROVE  r \in raced
BY DEF IdempotencyInv, RowsBegun, SourcesAccounted, NoEarlyAnswer, TypeOK

\* Idempotency: a replayed entry fits the request, since it is found under
\* the request's own tenant and key.
LEMMA StartKeeps ==
  ASSUME IdempotencyInv, TypeOK', NEW r \in Requests, Start(r)
  PROVE  IdempotencyInv'
<1> USE DEF IdempotencyInv
<1>1. CASE Replays(r) /\ resp' = [resp EXCEPT ![r] = Entry(r)] /\ Goto(r, "done")
  <2>1. /\ req[r].server \in Servers /\ req[r].org \in Orgs /\ req[r].key \in Keys
        /\ Entry(r) = cache[req[r].server][<<req[r].org, req[r].key>>]
    BY <1>1 DEF Replays, Cached, HasKey, Entry, ScopedKey, TypeOK, RequestType
  <2>2. Entry(r).code = 202 =>
          SameKey(r, Entry(r).doc) /\ row[Entry(r).doc] # "absent"
    BY <2>1 DEF CachedAnswersFit, SameKey
  <2>3. row[r] = "absent" /\ (source[r] => r \in raced)
    BY <1>1, SourceBeforeAnswer DEF Start, RowsBegun, TypeOK
  <2>4. /\ resp'[r] = Entry(r) /\ \A t \in Requests \ {r} : resp'[t] = resp[t]
        /\ pc'[r] = "done" /\ \A t \in Requests \ {r} : pc'[t] = pc[t]
        /\ UNCHANGED <<req, row, source, job, cache, raced>>
    BY <1>1 DEF Start, Goto, TypeOK
  <2>5. StoresKeyed' /\ NoEarlyAnswer'
    BY <2>4 DEF StoresKeyed, NoEarlyAnswer, HasKey
  <2>6. RowsBegun'
    BY <2>3, <2>4 DEF RowsBegun, JobPromised
  <2>7. AnswersFit'
    BY <2>2, <2>4 DEF AnswersFit, SameKey
  <2>8. CachedAnswersFit'
    BY <2>4 DEF CachedAnswersFit
  <2>9. SourcesAccounted'
    BY <2>3, <2>4 DEF SourcesAccounted
  <2>10. OneDocumentPerKey'
    BY <2>4 DEF OneDocumentPerKey, HasKey, SameKey, Live
  <2> QED BY <2>5, <2>6, <2>7, <2>8, <2>9, <2>10
<1>2. CASE Goto(r, "lookup") /\ UNCHANGED resp
  BY <1>2, MoveKeeps, SourceBeforeAnswer DEF Start
<1> QED BY <1>1, <1>2 DEF Start

\* The lookup by key.
LEMMA LookupKeeps ==
  ASSUME IdempotencyInv, TypeOK', NEW r \in Requests, Lookup(r)
  PROVE  IdempotencyInv'
<1>0. TypeOK /\ pc[r] = "lookup" /\ UNCHANGED <<req, row, source, job, cache, raced>>
  BY DEF Lookup, IdempotencyInv
<1>1. ASSUME NEW d \in Holders(r), Reply(r, Accepted(d, row[d]))
      PROVE  IdempotencyInv'
  BY <1>0, <1>1, HolderFits, ReplyKeeps, SourceBeforeAnswer
<1>2. ASSUME NEW c \in {400, 500}, Reply(r, Refused(c))
      PROVE  IdempotencyInv'
  <2>1. Refused(c) \in ResponseType /\ Refused(c).code # 202
    BY AnswerType DEF Refused
  <2> QED BY <1>0, <1>2, <2>1, ReplyKeeps, SourceBeforeAnswer
<1>3. CASE Goto(r, "put") /\ UNCHANGED resp
  BY <1>0, <1>3, MoveKeeps, SourceBeforeAnswer
<1> QED BY <1>1, <1>2, <1>3 DEF Lookup

\* The source is stored, or the upload refused.
LEMMA PutKeeps ==
  ASSUME IdempotencyInv, TypeOK', NEW r \in Requests, Put(r)
  PROVE  IdempotencyInv'
<1>0. TypeOK /\ pc[r] = "put" /\ UNCHANGED <<req, row, job, cache, raced>>
  BY DEF Put, IdempotencyInv
<1>1. CASE source' = [source EXCEPT ![r] = TRUE] /\ Goto(r, "insert") /\ UNCHANGED resp
  <2>1. \A t \in Requests \ {r} : source'[t] = source[t]
    BY <1>0, <1>1 DEF TypeOK
  <2> QED BY <1>0, <1>1, <2>1, MoveKeeps
<1>2. CASE Reply(r, Refused(500)) /\ UNCHANGED source
  <2>1. Refused(500) \in ResponseType /\ Refused(500).code = 500
    BY AnswerType DEF Refused
  <2> QED BY <1>0, <1>2, <2>1, ReplyKeeps
<1> QED BY <1>1, <1>2 DEF Put

\* The insert: with no live holder the row is the first of its key.
LEMMA NewDocumentKeeps ==
  ASSUME IdempotencyInv, TypeOK', NEW r \in Requests, NewDocument(r)
  PROVE  IdempotencyInv'
<1>0. TypeOK /\ pc[r] = "insert" /\ UNCHANGED <<req, source, job, cache, raced>>
  BY DEF NewDocument, IdempotencyInv
<1>1. CASE /\ Holders(r) = {} /\ row' = [row EXCEPT ![r] = "pending"]
           /\ Goto(r, "enqueue") /\ UNCHANGED resp
  <2> USE DEF IdempotencyInv
  <2>1. /\ pc'[r] = "enqueue" /\ \A t \in Requests \ {r} : pc'[t] = pc[t]
        /\ row'[r] = "pending" /\ \A t \in Requests \ {r} : row'[t] = row[t]
    BY <1>0, <1>1 DEF Goto, TypeOK
  <2>2. \A d \in Requests : row[d] # "absent" => row'[d] # "absent"
    BY <2>1
  <2>3. StoresKeyed' /\ NoEarlyAnswer'
    BY <1>0, <1>1, <2>1 DEF StoresKeyed, NoEarlyAnswer, HasKey
  <2>4. RowsBegun'
    BY <1>0, <1>1, <2>1 DEF RowsBegun, JobPromised
  <2>5. AnswersFit'
    <3>1. \A t \in Requests : resp[t].code = 202 => resp[t].doc \in Requests
      BY <1>0 DEF TypeOK, ResponseType
    <3> QED BY <1>0, <1>1, <2>2, <3>1 DEF AnswersFit, SameKey
  <2>6. CachedAnswersFit'
    <3>1. \A s \in Servers : \A o \in Orgs : \A k \in Keys :
            cache[s][<<o, k>>].code = 202 => cache[s][<<o, k>>].doc \in Requests
      BY <1>0 DEF TypeOK, ResponseType, Scope
    <3> QED BY <1>0, <1>1, <2>2, <3>1 DEF CachedAnswersFit
  <2>7. SourcesAccounted'
    BY <1>0, <1>1, <2>1 DEF SourcesAccounted
  <2>8. OneDocumentPerKey'
    <3>1. \A d \in Requests \ {r} : HasKey(r) /\ SameKey(r, d) => ~Live(d)
      BY <1>1 DEF Holders
    <3> QED BY <1>0, <2>1, <3>1 DEF OneDocumentPerKey, HasKey, SameKey, Live
  <2> QED BY <2>3, <2>4, <2>5, <2>6, <2>7, <2>8
<1>2. CASE Goto(r, "cleanup") /\ UNCHANGED <<resp, row>>
  BY <1>0, <1>2, MoveKeeps
<1>3. CASE Reply(r, Refused(500)) /\ UNCHANGED row
  <2>1. Refused(500) \in ResponseType /\ Refused(500).code = 500
    BY AnswerType DEF Refused
  <2> QED BY <1>0, <1>3, <2>1, ReplyKeeps
<1> QED BY <1>1, <1>2, <1>3 DEF NewDocument

\* The loser drops its source, or is known to have failed to.
LEMMA DeleteOrphanKeeps ==
  ASSUME IdempotencyInv, TypeOK', NEW r \in Requests, DeleteOrphan(r)
  PROVE  IdempotencyInv'
<1>0. TypeOK /\ pc[r] = "cleanup" /\ Goto(r, "winner") /\ UNCHANGED <<req, resp, row, job, cache>>
  BY DEF DeleteOrphan, IdempotencyInv
<1>1. CASE source' = [source EXCEPT ![r] = FALSE] /\ UNCHANGED raced
  <2>1. source'[r] = FALSE /\ \A t \in Requests \ {r} : source'[t] = source[t]
    BY <1>0, <1>1 DEF TypeOK
  <2> QED BY <1>0, <1>1, <2>1, MoveKeeps
<1>2. CASE raced' = raced \cup {r} /\ UNCHANGED source
  BY <1>0, <1>2, MoveKeeps
<1> QED BY <1>1, <1>2 DEF DeleteOrphan

\* The loser answers with the winner.
LEMMA WinnerKeeps ==
  ASSUME IdempotencyInv, TypeOK', NEW r \in Requests, Winner(r)
  PROVE  IdempotencyInv'
<1>0. TypeOK /\ pc[r] = "winner" /\ UNCHANGED <<req, row, source, job, cache, raced>>
  BY DEF Winner, IdempotencyInv
<1>1. ASSUME NEW d \in Holders(r), Reply(r, Accepted(d, row[d]))
      PROVE  IdempotencyInv'
  BY <1>0, <1>1, HolderFits, ReplyKeeps, SourceBeforeAnswer
<1>2. CASE Reply(r, Refused(500))
  <2>1. Refused(500) \in ResponseType /\ Refused(500).code = 500
    BY AnswerType DEF Refused
  <2> QED BY <1>0, <1>2, <2>1, ReplyKeeps
<1> QED BY <1>1, <1>2 DEF Winner

\* The creator of the row answers with it once the job is in the queue.
LEMMA EnqueueKeeps ==
  ASSUME IdempotencyInv, TypeOK', NEW r \in Requests, Enqueue(r)
  PROVE  IdempotencyInv'
<1> USE DEF IdempotencyInv
<1>0. PICK a \in {Accepted(r, "pending"), Refused(500)} :
        /\ Reply(r, a)
        /\ a = Accepted(r, "pending") => job' = [job EXCEPT ![r] = TRUE]
        /\ a = Refused(500) => job' = job
  <2>1. Accepted(r, "pending") # Refused(500)
    BY DEF Accepted, Refused
  <2> QED BY <2>1 DEF Enqueue
<1>1. /\ resp'[r] = a /\ \A t \in Requests \ {r} : resp'[t] = resp[t]
      /\ pc'[r] = (IF Cached(r) THEN "store" ELSE "done")
      /\ \A t \in Requests \ {r} : pc'[t] = pc[t]
      /\ UNCHANGED <<req, row, source, cache, raced>>
  BY <1>0 DEF Enqueue, Reply, Goto, TypeOK
<1>2. (a.code = 202 /\ a.doc = r /\ job'[r]) \/ a.code = 500
  BY <1>0 DEF Accepted, Refused, TypeOK
<1>3. \A t \in Requests : job[t] => job'[t]
  BY <1>0 DEF TypeOK
<1>4. pc[r] = "enqueue" /\ row[r] # "absent"
  BY DEF Enqueue, RowsBegun
<1>5. StoresKeyed' /\ NoEarlyAnswer'
  BY <1>1 DEF StoresKeyed, NoEarlyAnswer, HasKey, Cached
<1>6. RowsBegun'
  BY <1>1, <1>2, <1>3 DEF RowsBegun, JobPromised
<1>7. AnswersFit'
  BY <1>1, <1>2, <1>4 DEF AnswersFit, SameKey
<1>8. CachedAnswersFit'
  BY <1>1 DEF CachedAnswersFit
<1>9. SourcesAccounted'
  BY <1>1, <1>4 DEF SourcesAccounted
<1>10. OneDocumentPerKey'
  BY <1>1 DEF OneDocumentPerKey, HasKey, SameKey, Live
<1> QED BY <1>5, <1>6, <1>7, <1>8, <1>9, <1>10

\* cache.set files the answer under the request's own tenant and key.
LEMMA StoreKeeps ==
  ASSUME IdempotencyInv, TypeOK', NEW r \in Requests, Store(r)
  PROVE  IdempotencyInv'
<1> USE DEF IdempotencyInv
<1>1. /\ pc[r] = "store" /\ pc'[r] = "done" /\ \A t \in Requests \ {r} : pc'[t] = pc[t]
      /\ UNCHANGED <<req, resp, row, source, job, raced>>
  BY DEF Store, Goto, TypeOK
<1>2. CachedAnswersFit'
  <2>1. ScopedKey(r) \in Scope /\ req[r].server \in Servers
    BY <1>1, ScopedKeyType DEF StoresKeyed
  <2>2. ASSUME NEW s \in Servers, NEW o \in Orgs, NEW k \in Keys
        PROVE  \/ cache'[s][<<o, k>>] = cache[s][<<o, k>>]
               \/ /\ cache'[s][<<o, k>>] = resp[r]
                  /\ o = req[r].org /\ k = req[r].key
    BY <2>1 DEF Store, TypeOK, Scope, ScopedKey
  <2> QED BY <1>1, <2>2 DEF CachedAnswersFit, AnswersFit, SameKey
<1>3. StoresKeyed' /\ NoEarlyAnswer'
  BY <1>1 DEF StoresKeyed, NoEarlyAnswer, HasKey
<1>4. RowsBegun'
  BY <1>1 DEF RowsBegun, JobPromised
<1>5. AnswersFit' /\ SourcesAccounted'
  BY <1>1 DEF AnswersFit, SourcesAccounted, SameKey
<1>6. OneDocumentPerKey'
  BY <1>1 DEF OneDocumentPerKey, HasKey, SameKey, Live
<1> QED BY <1>2, <1>3, <1>4, <1>5, <1>6

\* The worker and a client's delete: a row that has appeared never becomes
\* absent again, and no document comes back to life.
LEMMA RowChangeKeeps ==
  ASSUME IdempotencyInv, TypeOK', NEW d \in Requests, Ingest(d) \/ Delete(d)
  PROVE  IdempotencyInv'
<1> USE DEF IdempotencyInv
<1>1. /\ \A t \in Requests : Live(t)' => Live(t)
      /\ \A t \in Requests : row'[t] = "absent" <=> row[t] = "absent"
      /\ \A t \in Requests : source'[t] => source[t]
      /\ UNCHANGED <<req, pc, resp, job, cache, raced>>
  BY DEF Ingest, Delete, TypeOK, Live
<1>2. StoresKeyed' /\ NoEarlyAnswer'
  BY <1>1 DEF StoresKeyed, NoEarlyAnswer, HasKey
<1>3. RowsBegun'
  BY <1>1 DEF RowsBegun, JobPromised
<1>4. AnswersFit'
  <2>1. \A t \in Requests : resp[t].code = 202 => resp[t].doc \in Requests
    BY DEF TypeOK, ResponseType
  <2> QED BY <1>1, <2>1 DEF AnswersFit, SameKey
<1>5. CachedAnswersFit'
  <2>1. \A s \in Servers : \A o \in Orgs : \A k \in Keys :
          cache[s][<<o, k>>].code = 202 => cache[s][<<o, k>>].doc \in Requests
    <3>1. \A s \in Servers : \A o \in Orgs : \A k \in Keys : cache[s][<<o, k>>] \in ResponseType
      BY DEF TypeOK, Scope
    <3>2. \A a \in ResponseType : a.code = 202 => a.doc \in Requests
      BY DEF ResponseType
    <3> QED BY <3>1, <3>2
  <2> QED BY <1>1, <2>1 DEF CachedAnswersFit
<1>6. SourcesAccounted'
  BY <1>1 DEF SourcesAccounted
<1>7. OneDocumentPerKey'
  BY <1>1 DEF OneDocumentPerKey, HasKey, SameKey
<1> QED BY <1>2, <1>3, <1>4, <1>5, <1>6, <1>7

\* An entry that expires names nothing.
LEMMA ExpireKeeps ==
  ASSUME IdempotencyInv, TypeOK', NEW s \in Servers, NEW k \in Scope, Expire(s, k)
  PROVE  IdempotencyInv'
<1> USE DEF IdempotencyInv
<1>1. UNCHANGED <<req, pc, resp, row, source, job, raced>>
  BY DEF Expire
<1>2. CachedAnswersFit'
  <2>1. ASSUME NEW t \in Servers, NEW o \in Orgs, NEW j \in Keys
        PROVE  \/ cache'[t][<<o, j>>] = cache[t][<<o, j>>]
               \/ cache'[t][<<o, j>>].code = 0
    BY DEF Expire, TypeOK, Scope, NoResponse
  <2> QED BY <1>1, <2>1 DEF CachedAnswersFit
<1>3. StoresKeyed' /\ NoEarlyAnswer' /\ RowsBegun' /\ AnswersFit' /\ SourcesAccounted'
  BY <1>1 DEF StoresKeyed, NoEarlyAnswer, RowsBegun, JobPromised, AnswersFit,
              SourcesAccounted, HasKey, SameKey
<1>4. OneDocumentPerKey'
  BY <1>1 DEF OneDocumentPerKey, HasKey, SameKey, Live
<1> QED BY <1>2, <1>3, <1>4

-----------------------------------------------------------------------------
(***************************************************************************)
(* The theorems.                                                           *)
(***************************************************************************)
\* The invariant holds of every reachable state: IdempotencyInv is inductive.
THEOREM IdempotencyInvariant == Spec => []IdempotencyInv
<1>1. Init => IdempotencyInv
  <2> SUFFICES ASSUME Init PROVE IdempotencyInv
    OBVIOUS
  <2>1. TypeOK
    BY AnswerType, IdempotencyAssumption DEF Init, TypeOK, Step, Status
  <2>2. StoresKeyed /\ NoEarlyAnswer /\ RowsBegun /\ SourcesAccounted /\ AnswersFit
    BY DEF Init, StoresKeyed, NoEarlyAnswer, RowsBegun, SourcesAccounted, AnswersFit, NoResponse
  <2>3. CachedAnswersFit
    BY DEF Init, CachedAnswersFit, NoResponse, Scope
  <2>4. OneDocumentPerKey
    BY DEF Init, OneDocumentPerKey, Live
  <2> QED BY <2>1, <2>2, <2>3, <2>4 DEF IdempotencyInv
<1>2. IdempotencyInv /\ [Next]_vars => IdempotencyInv'
  <2> SUFFICES ASSUME IdempotencyInv, [Next]_vars PROVE IdempotencyInv'
    OBVIOUS
  <2>1. ASSUME NEW r \in Requests,
               \/ Start(r) \/ Lookup(r) \/ Put(r) \/ NewDocument(r) \/ DeleteOrphan(r)
               \/ Winner(r) \/ Enqueue(r) \/ Store(r)
        PROVE  IdempotencyInv'
    <3>1. TypeOK'
      BY <2>1, UploadType DEF IdempotencyInv
    <3> QED BY <2>1, <3>1, StartKeeps, LookupKeeps, PutKeeps, NewDocumentKeeps,
               DeleteOrphanKeeps, WinnerKeeps, EnqueueKeeps, StoreKeeps
  <2>2. ASSUME NEW r \in Requests, Ingest(r) \/ Delete(r)
        PROVE  IdempotencyInv'
    BY <2>2, OutsideType, RowChangeKeeps DEF IdempotencyInv
  <2>3. ASSUME NEW s \in Servers, NEW k \in Scope, Expire(s, k)
        PROVE  IdempotencyInv'
    BY <2>3, OutsideType, ExpireKeeps DEF IdempotencyInv
  <2>4. CASE UNCHANGED vars
    BY <2>4 DEF vars, IdempotencyInv, TypeOK, StoresKeyed, NoEarlyAnswer, RowsBegun,
               JobPromised, AnswersFit, CachedAnswersFit, SourcesAccounted,
               OneDocumentPerKey, HasKey, SameKey, Live
  <2> QED BY <2>1, <2>2, <2>3, <2>4 DEF Next
<1> QED BY <1>1, <1>2, PTL DEF Spec

\* Whatever the requests, faults and expiries, the state is well typed.
THEOREM TypeCorrect == Spec => []TypeOK
BY IdempotencyInvariant, PTL DEF IdempotencyInv

\* However uploads of one tenant and key race, at most one live document
\* comes of them: the unique index decides, the lookup only saves work.
THEOREM OneDocument == Spec => []OneDocumentPerKey
BY IdempotencyInvariant, PTL DEF IdempotencyInv

\* Accepted answers under one key agree on the document, unless one of the
\* documents named has been deleted.
THEOREM AnswersAgree == Spec => []SameAnswer
<1>1. IdempotencyInv => SameAnswer
  <2> SUFFICES ASSUME IdempotencyInv, NEW r \in Requests, NEW t \in Requests,
                      resp[r].code = 202, resp[t].code = 202,
                      HasKey(r), SameKey(r, t),
                      row[resp[r].doc] # "deleted", row[resp[t].doc] # "deleted"
               PROVE  resp[r].doc = resp[t].doc
    BY DEF SameAnswer
  <2> DEFINE d == resp[r].doc
             e == resp[t].doc
  <2>1. d \in Requests /\ e \in Requests
    BY DEF IdempotencyInv, TypeOK, ResponseType
  <2>2. Live(d) /\ Live(e)
    BY <2>1 DEF IdempotencyInv, AnswersFit, TypeOK, Status, Live
  <2>3. HasKey(d) /\ SameKey(d, e)
    BY <2>1 DEF IdempotencyInv, AnswersFit, SameKey, HasKey
  <2> QED BY <2>1, <2>2, <2>3 DEF IdempotencyInv, OneDocumentPerKey
<1> QED BY <1>1, IdempotencyInvariant, PTL

\* No answer, fresh or replayed from a cache, names another tenant's document.
THEOREM TenantsIsolated == Spec => []TenantIsolation
<1>1. IdempotencyInv => TenantIsolation
  BY DEF IdempotencyInv, AnswersFit, SameKey, TenantIsolation
<1> QED BY <1>1, IdempotencyInvariant, PTL

\* The loser of an insert race leaves no source object behind, unless its
\* cleanup failed.
THEOREM NoOrphanSource == Spec => []LoserLeavesNoSource
<1>1. IdempotencyInv => LoserLeavesNoSource
  BY DEF IdempotencyInv, SourcesAccounted, LoserLeavesNoSource
<1> QED BY <1>1, IdempotencyInvariant, PTL

\* Whoever is told of a document can count on its job, unless the upload
\* that created it was refused.
THEOREM AcceptedIsQueued == Spec => []AcceptedHasJob
<1>1. IdempotencyInv => AcceptedHasJob
  <2>1. ASSUME IdempotencyInv, NEW r \in Requests, resp[r].code = 202
        PROVE  JobPromised(resp[r].doc)
    <3>1. resp[r].doc \in Requests
      BY <2>1 DEF IdempotencyInv, TypeOK, ResponseType
    <3> QED BY <2>1, <3>1 DEF IdempotencyInv, AnswersFit, RowsBegun
  <2> QED BY <2>1 DEF AcceptedHasJob, JobPromised
<1> QED BY <1>1, IdempotencyInvariant, PTL
====
