-------------------------- MODULE IdempotentIngest --------------------------
(***************************************************************************)
(* Uploads that carry an Idempotency-Key: the response cache in front of   *)
(* the REST handler, one per server process, and the two ingest handlers   *)
(* (HandleIngestDocument and the Connect CreateDocument) behind it, which  *)
(* look the key up, store the source, insert the row under a unique index  *)
(* on (org, key) and enqueue the job.  Requests run concurrently; a step   *)
(* is one call to the cache, the database, storage or the queue.           *)
(*                                                                         *)
(* A request is also the id of the document it mints.                      *)
(***************************************************************************)
EXTENDS Naturals, FiniteSets

CONSTANTS
  Requests,    \* uploads, and the document ids minted for them
  Orgs,        \* tenants
  Keys,        \* opaque client-chosen Idempotency-Key values
  NoKey,       \* the header is absent
  Servers,     \* server processes, each with its own response cache
  MaxFaults    \* bound: database, storage and queue calls that fail

ASSUME IdempotencyAssumption ==
  /\ NoKey \notin Keys
  /\ MaxFaults \in Nat

RequestType ==
  [org: Orgs, key: Keys \cup {NoKey}, server: Servers, rest: BOOLEAN]

Status == {"absent", "pending", "ready", "deleted"}
Step == {"start", "lookup", "put", "insert", "cleanup", "winner", "enqueue", "store", "done"}

NoResponse == [code |-> 0, doc |-> "none", status |-> "absent"]
Accepted(d, s) == [code |-> 202, doc |-> d, status |-> s]
Refused(code) == [code |-> code, doc |-> "none", status |-> "absent"]
ResponseType ==
  [code: {0, 400, 500}, doc: {"none"}, status: {"absent"}]
    \cup [code: {202}, doc: Requests, status: {"pending", "ready"}]

VARIABLES
  req,      \* the requests: tenant, key, server, REST or Connect
  pc,       \* next step of a request
  resp,     \* the response a request has got
  row,      \* documents.status of the document a request mints
  source,   \* is its source object in storage?
  job,      \* was its ingest job enqueued?
  cache,    \* idempotencyCache of each server: scoped key -> response
  raced,    \* requests whose orphan source could not be deleted
  faults    \* calls that have failed

vars == <<req, pc, resp, row, source, job, cache, raced, faults>>

Scope == Orgs \X Keys

TypeOK ==
  /\ req \in [Requests -> RequestType]
  /\ pc \in [Requests -> Step]
  /\ resp \in [Requests -> ResponseType]
  /\ row \in [Requests -> Status]
  /\ source \in [Requests -> BOOLEAN]
  /\ job \in [Requests -> BOOLEAN]
  /\ cache \in [Servers -> [Scope -> ResponseType]]
  /\ raced \in SUBSET Requests
  /\ faults \in 0..MaxFaults

Init ==
  /\ req \in [Requests -> RequestType]
  /\ pc = [r \in Requests |-> "start"]
  /\ resp = [r \in Requests |-> NoResponse]
  /\ row = [r \in Requests |-> "absent"]
  /\ source = [r \in Requests |-> FALSE]
  /\ job = [r \in Requests |-> FALSE]
  /\ cache = [s \in Servers |-> [k \in Scope |-> NoResponse]]
  /\ raced = {}
  /\ faults = 0

-----------------------------------------------------------------------------
HasKey(r) == req[r].key # NoKey

\* Mutant: entries are shared by tenants that chose the same key.
RawKey(r) == <<CHOOSE o \in Orgs : TRUE, req[r].key>>

\* The cache key: method and path are the same for every upload.
ScopedKey(r) == <<req[r].org, req[r].key>>

\* The middleware covers POST /v1/documents with a key, not the RPCs.
Cached(r) == req[r].rest /\ HasKey(r)

Entry(r) == cache[req[r].server][ScopedKey(r)]
Replays(r) == Cached(r) /\ Entry(r).code # 0

Live(d) == row[d] \in {"pending", "ready"}
SameKey(r, d) == req[r].org = req[d].org /\ req[r].key = req[d].key

\* GetDocumentByIdempotencyKey: the live documents of the org under the key.
Holders(r) == {d \in Requests : HasKey(r) /\ SameKey(r, d) /\ Live(d)}

Goto(r, step) == pc' = [pc EXCEPT ![r] = step]
Fault == faults < MaxFaults /\ faults' = faults + 1

\* The handler has written its response; the middleware still has to store it.
Reply(r, response) ==
  /\ resp' = [resp EXCEPT ![r] = response]
  /\ Goto(r, IF Cached(r) THEN "store" ELSE "done")

-----------------------------------------------------------------------------
\* Idempotency: an entry is replayed, otherwise the handler is invoked.
Start(r) ==
  /\ pc[r] = "start"
  /\ \/ /\ Replays(r)
        /\ resp' = [resp EXCEPT ![r] = Entry(r)]
        /\ Goto(r, "done")
     \/ /\ ~Replays(r)
        /\ Goto(r, "lookup")
        /\ UNCHANGED resp
  /\ UNCHANGED <<req, row, source, job, cache, raced, faults>>

\* The lookup by key, then the body: a malformed one is refused before
\* anything is stored.
Lookup(r) ==
  /\ pc[r] = "lookup"
  /\ \/ /\ Holders(r) # {}
        /\ \E d \in Holders(r) : Reply(r, Accepted(d, row[d]))
        /\ UNCHANGED faults
     \/ /\ HasKey(r) /\ Fault
        /\ Reply(r, Refused(500))
     \/ /\ Holders(r) = {}
        /\ Reply(r, Refused(400))
        /\ UNCHANGED faults
     \/ /\ Holders(r) = {}
        /\ Goto(r, "put")
        /\ UNCHANGED <<resp, faults>>
  /\ UNCHANGED <<req, row, source, job, cache, raced>>

Put(r) ==
  /\ pc[r] = "put"
  /\ \/ /\ source' = [source EXCEPT ![r] = TRUE]
        /\ Goto(r, "insert")
        /\ UNCHANGED <<resp, faults>>
     \/ /\ Fault
        /\ Reply(r, Refused(500))
        /\ UNCHANGED source
  /\ UNCHANGED <<req, row, job, cache, raced>>

\* Mutant: no unique index on (org_id, idempotency_key).
NewDocumentUnchecked(r) ==
  /\ pc[r] = "insert"
  /\ row' = [row EXCEPT ![r] = "pending"]
  /\ Goto(r, "enqueue")
  /\ UNCHANGED <<req, resp, source, job, cache, raced, faults>>

\* The insert; the unique index turns a second live row for the key away.
NewDocument(r) ==
  /\ pc[r] = "insert"
  /\ \/ /\ Holders(r) = {}
        /\ row' = [row EXCEPT ![r] = "pending"]
        /\ Goto(r, "enqueue")
        /\ UNCHANGED <<resp, faults>>
     \/ /\ Holders(r) # {}
        /\ Goto(r, "cleanup")
        /\ UNCHANGED <<resp, row, faults>>
     \/ /\ Fault
        /\ Reply(r, Refused(500))
        /\ UNCHANGED row
  /\ UNCHANGED <<req, source, job, cache, raced>>

\* Mutant: the loser of the race keeps the source it wrote.
DeleteOrphanSkipped(r) ==
  /\ pc[r] = "cleanup"
  /\ Goto(r, "winner")
  /\ UNCHANGED <<req, resp, row, source, job, cache, raced, faults>>

\* ErrConflict: drop the orphan source; a failed delete is only logged.
DeleteOrphan(r) ==
  /\ pc[r] = "cleanup"
  /\ \/ /\ source' = [source EXCEPT ![r] = FALSE]
        /\ UNCHANGED <<raced, faults>>
     \/ /\ Fault
        /\ raced' = raced \cup {r}
        /\ UNCHANGED source
  /\ Goto(r, "winner")
  /\ UNCHANGED <<req, resp, row, job, cache>>

\* Mutant: the loser answers with the id it minted itself.
WinnerIsMe(r) ==
  /\ pc[r] = "winner"
  /\ Reply(r, Accepted(r, "pending"))
  /\ UNCHANGED <<req, row, source, job, cache, raced, faults>>

\* ... and answer with the winner, if it is still there to be found.
Winner(r) ==
  /\ pc[r] = "winner"
  /\ \/ /\ \E d \in Holders(r) : Reply(r, Accepted(d, row[d]))
        /\ UNCHANGED faults
     \/ /\ Holders(r) = {}
        /\ Reply(r, Refused(500))
        /\ UNCHANGED faults
     \/ /\ Fault
        /\ Reply(r, Refused(500))
  /\ UNCHANGED <<req, row, source, job, cache, raced>>

\* Mutant: the error of Enqueue is logged and the upload accepted anyway.
EnqueueErrorIgnored(r) ==
  /\ pc[r] = "enqueue"
  /\ \/ job' = [job EXCEPT ![r] = TRUE] /\ UNCHANGED faults
     \/ Fault /\ UNCHANGED job
  /\ Reply(r, Accepted(r, "pending"))
  /\ UNCHANGED <<req, row, source, cache, raced>>

\* The job; when it cannot be enqueued the row and the source stay behind.
Enqueue(r) ==
  /\ pc[r] = "enqueue"
  /\ \/ /\ job' = [job EXCEPT ![r] = TRUE]
        /\ Reply(r, Accepted(r, "pending"))
        /\ UNCHANGED faults
     \/ /\ Fault
        /\ Reply(r, Refused(500))
        /\ UNCHANGED job
  /\ UNCHANGED <<req, row, source, cache, raced>>

\* cache.set: whatever the status code.
Store(r) ==
  /\ pc[r] = "store"
  /\ cache' = [cache EXCEPT ![req[r].server][ScopedKey(r)] = resp[r]]
  /\ Goto(r, "done")
  /\ UNCHANGED <<req, resp, row, source, job, raced, faults>>

\* The TTL of an entry passes (get and reap drop it) or the process restarts.
Expire(s, k) ==
  /\ cache[s][k].code # 0
  /\ cache' = [cache EXCEPT ![s][k] = NoResponse]
  /\ UNCHANGED <<req, pc, resp, row, source, job, raced, faults>>

\* The worker finishes a document's job; a client deletes a document.
Ingest(d) ==
  /\ job[d] /\ row[d] = "pending"
  /\ row' = [row EXCEPT ![d] = "ready"]
  /\ UNCHANGED <<req, pc, resp, source, job, cache, raced, faults>>

Delete(d) ==
  /\ Live(d)
  /\ row' = [row EXCEPT ![d] = "deleted"]
  /\ source' = [source EXCEPT ![d] = FALSE]
  /\ UNCHANGED <<req, pc, resp, job, cache, raced, faults>>

Next ==
  \/ \E r \in Requests :
       \/ Start(r) \/ Lookup(r) \/ Put(r) \/ NewDocument(r) \/ DeleteOrphan(r)
       \/ Winner(r) \/ Enqueue(r) \/ Store(r) \/ Ingest(r) \/ Delete(r)
  \/ \E s \in Servers, k \in Scope : Expire(s, k)

Spec == Init /\ [][Next]_vars

-----------------------------------------------------------------------------
\* However the uploads of one tenant with one key race, on whichever servers
\* and protocols, at most one live document comes of them.
OneDocumentPerKey ==
  \A d, e \in Requests :
    HasKey(d) /\ SameKey(d, e) /\ Live(d) /\ Live(e) => d = e

\* Every accepted answer under one key names the same document, unless that
\* document has been deleted since.
SameAnswer ==
  \A r, t \in Requests :
    /\ resp[r].code = 202 /\ resp[t].code = 202
    /\ HasKey(r) /\ SameKey(r, t)
    => \/ resp[r].doc = resp[t].doc
       \/ row[resp[r].doc] = "deleted" \/ row[resp[t].doc] = "deleted"

\* An answer, fresh or replayed, never names another tenant's document.
TenantIsolation ==
  \A r \in Requests : resp[r].code = 202 => req[resp[r].doc].org = req[r].org

\* The loser of an insert race leaves no source object behind, unless the
\* cleanup itself failed.
LoserLeavesNoSource ==
  \A r \in Requests :
    /\ pc[r] \in {"store", "done"} /\ resp[r].code = 202
    /\ row[r] = "absent" /\ r \notin raced
    => ~source[r]

\* Whoever is told that a document is accepted can count on its job, unless
\* the request that created it was itself refused: then the row stays behind
\* without a job and every retry under the key is handed that document.
AcceptedHasJob ==
  \A r \in Requests :
    resp[r].code = 202 =>
      LET d == resp[r].doc IN
        job[d] \/ pc[d] = "enqueue" \/ resp[d].code = 500
====
