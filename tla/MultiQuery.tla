----------------------------- MODULE MultiQuery -----------------------------
(***************************************************************************)
(* One question put to several documents side by side: MultiDoc.Query,     *)
(* MultiDoc.QueryStream, and the sections a store answer is made from.  A  *)
(* document that fails does not fail the others.                           *)
(***************************************************************************)
EXTENDS Ordering, SequencesExt

CONSTANTS
  MQRequests,   \* [kind, docs (a sequence), max (sections)]
  MQPicks,      \* what a document may give a store answer: sequences of section lengths
  MQParallel,   \* MaxParallelCalls, storeMapConcurrency
  MQBuffer,     \* capacity of the stream's channel
  MQBudget, MQCap,  \* storeContentBudget, storeSectionCharsCap
  MQFaults      \* documents that may fail

\* The handlers refuse a request that names no document; a section without
\* text is not picked.
ASSUME MQAssumption ==
  /\ \A r \in MQRequests : /\ r \in [kind : {"multi", "stream", "store"}, docs : Seq(Nat), max : Int]
                            /\ r.docs # <<>>
  /\ \A p \in MQPicks : p \in Seq(Nat \ {0})
  /\ MQParallel \in Nat \ {0} /\ MQBuffer \in Nat \ {0} /\ MQFaults \in Nat
  /\ MQBudget \in Nat \ {0} /\ MQCap \in Nat \ {0}

VARIABLES
  mqReq,
  mqWorker,   \* per place in docs: wait, run, send, done, gone
  mqEvents,   \* per place: events its worker still has to send
  mqFound,    \* document -> what it gave
  mqErrs,     \* documents reported as failed
  mqChan,     \* events in the channel: [at, type]
  mqSeen,     \* per place: events the handler has written
  mqGone,
  mqOut       \* pending, ok, error, or the evidence of a store answer

mqVars == <<mqReq, mqWorker, mqEvents, mqFound, mqErrs, mqChan, mqSeen, mqGone, mqOut>>

MQBlank ==
  /\ mqWorker = [i \in DOMAIN mqReq.docs |-> "wait"]
  /\ mqEvents = [i \in DOMAIN mqReq.docs |-> <<>>] /\ mqSeen = [i \in DOMAIN mqReq.docs |-> <<>>]
  /\ mqFound = <<>> /\ mqErrs = {} /\ mqChan = <<>> /\ mqGone = FALSE
  /\ mqOut = [status |-> "pending", flat |-> <<>>]
MQInit == mqReq \in MQRequests /\ MQBlank
MQIdle == mqReq = [kind |-> "none", docs |-> <<>>, max |-> 0] /\ MQBlank

Running == {i \in DOMAIN mqWorker : mqWorker[i] \in {"run", "send"}}
Stays == <<mqReq, mqGone, mqOut>>

\* A slot of the semaphore; a single document needs none.
TakeSlot(i) ==
  /\ mqWorker[i] = "wait" /\ Cardinality(Running) < MQParallel
  /\ mqWorker' = [mqWorker EXCEPT ![i] = "run"]
  /\ UNCHANGED <<Stays, mqEvents, mqFound, mqErrs, mqChan, mqSeen>>

\* The client has gone while the document waited: it is in no list.
SkipDocument(i) ==
  /\ mqWorker[i] = "wait" /\ mqGone
  /\ mqWorker' = [mqWorker EXCEPT ![i] = "gone"]
  /\ UNCHANGED <<Stays, mqEvents, mqFound, mqErrs, mqChan, mqSeen>>

\* The map of results has one entry per document, the last one given.
Gives(d, what) ==
  mqFound' = [e \in DOMAIN mqFound \cup {d} |-> IF e = d THEN what ELSE mqFound[e]]

queryOneDoc(i) ==
  /\ mqReq.kind = "multi" /\ mqWorker[i] = "run"
  /\ Gives(mqReq.docs[i], <<1>>)
  /\ mqWorker' = [mqWorker EXCEPT ![i] = "done"]
  /\ UNCHANGED <<Stays, mqEvents, mqErrs, mqChan, mqSeen>>

\* The model picks sections of the document; their text is read at once.
selectSections(i) == \E picks \in MQPicks :
  /\ mqReq.kind = "store" /\ mqWorker[i] = "run"
  /\ Gives(mqReq.docs[i], picks)
  /\ mqWorker' = [mqWorker EXCEPT ![i] = "done"]
  /\ UNCHANGED <<Stays, mqEvents, mqErrs, mqChan, mqSeen>>

\* Reported by Query; a store answer leaves the document out.
DocumentFails(i) ==
  /\ mqReq.kind \in {"multi", "store"} /\ mqWorker[i] = "run"
  /\ mqGone \/ Cardinality(mqErrs) < MQFaults
  /\ mqErrs' = mqErrs \cup {mqReq.docs[i]}
  /\ mqWorker' = [mqWorker EXCEPT ![i] = "done"]
  /\ UNCHANGED <<Stays, mqEvents, mqFound, mqChan, mqSeen>>

-----------------------------------------------------------------------------
\* The document's own stream, or the error of loading it, to be sent on.
SelectStream(i) ==
  /\ mqReq.kind = "stream" /\ mqWorker[i] = "run"
  /\ \/ mqEvents' = [mqEvents EXCEPT ![i] = <<"started", "completed">>] /\ UNCHANGED mqErrs
     \/ /\ Cardinality(mqErrs) < MQFaults
        /\ mqEvents' = [mqEvents EXCEPT ![i] = <<"error">>]
        /\ mqErrs' = mqErrs \cup {mqReq.docs[i]}
  /\ mqWorker' = [mqWorker EXCEPT ![i] = "send"]
  /\ UNCHANGED <<Stays, mqFound, mqChan, mqSeen>>

\* The send waits for room in the channel, or for the client to go.
SendEvent(i) ==
  /\ mqWorker[i] = "send" /\ Len(mqChan) < MQBuffer
  /\ mqChan' = Append(mqChan, [at |-> i, type |-> Head(mqEvents[i])])
  /\ mqEvents' = [mqEvents EXCEPT ![i] = Tail(@)]
  /\ mqWorker' = [mqWorker EXCEPT ![i] = IF Len(mqEvents[i]) = 1 THEN "done" ELSE "send"]
  /\ UNCHANGED <<Stays, mqFound, mqErrs, mqSeen>>

DropEvents(i) ==
  /\ mqWorker[i] = "send" /\ mqGone
  /\ mqWorker' = [mqWorker EXCEPT ![i] = "gone"] /\ mqEvents' = [mqEvents EXCEPT ![i] = <<>>]
  /\ UNCHANGED <<Stays, mqFound, mqErrs, mqChan, mqSeen>>

HandleQueryStreamMulti ==
  /\ mqChan # <<>>
  /\ mqSeen' = [mqSeen EXCEPT ![Head(mqChan).at] = Append(@, Head(mqChan).type)]
  /\ mqChan' = Tail(mqChan)
  /\ UNCHANGED <<Stays, mqWorker, mqEvents, mqFound, mqErrs>>

-----------------------------------------------------------------------------
\* Mutant: a section is only cut to its own cap.
CapOnly(len, spent) == Smaller(len, MQCap)

CutTo(len, spent) == Smaller(Smaller(len, MQCap), MQBudget - spent)

\* What the documents gave, in the order they were named: the place of the
\* document, and the length of the section.
Offered(req, found) ==
  LET of(i) == IF req.docs[i] \in DOMAIN found
               THEN [k \in DOMAIN found[req.docs[i]] |-> [at |-> i, len |-> found[req.docs[i]][k]]]
               ELSE <<>>
      upTo[n \in 0..Len(req.docs)] == IF n = 0 THEN <<>> ELSE upTo[n - 1] \o of(n)
  IN  upTo[Len(req.docs)]

\* What the first n sections take of the budget.
Spending(sections) ==
  LET upTo[n \in 0..Len(sections)] ==
        IF n = 0 THEN 0 ELSE upTo[n - 1] + CutTo(sections[n].len, upTo[n - 1])
  IN  upTo

\* Sections are taken from the front while the number and the budget last,
\* cut to the section cap and to what is left: [at, len]; a section's index
\* is its place here.
selectRelevant(req, found) ==
  LET all == Offered(req, found)
      spent == Spending(all)
  IN  [k \in {n \in DOMAIN all : (req.max > 0 => n <= req.max) /\ spent[n - 1] < MQBudget} |->
         [at |-> all[k].at, len |-> CutTo(all[k].len, spent[k - 1])]]

\* Everything failed is an error; so is the failure of the only document.
GatherDocuments ==
  /\ mqOut.status = "pending" /\ \A i \in DOMAIN mqWorker : mqWorker[i] \in {"done", "gone"}
  /\ mqOut' = IF mqReq.kind = "multi" /\ DOMAIN mqFound = {} /\ mqErrs # {}
              THEN [mqOut EXCEPT !.status = "error"]
              ELSE [status |-> "ok", flat |-> IF mqReq.kind = "store" THEN selectRelevant(mqReq, mqFound) ELSE <<>>]
  /\ UNCHANGED <<mqReq, mqWorker, mqEvents, mqFound, mqErrs, mqChan, mqSeen, mqGone>>

MQClientGone ==
  /\ ~mqGone /\ mqOut.status = "pending" /\ mqGone' = TRUE
  /\ UNCHANGED <<mqReq, mqWorker, mqEvents, mqFound, mqErrs, mqChan, mqSeen, mqOut>>

MQStep ==
  \/ GatherDocuments \/ HandleQueryStreamMulti
  \/ \E i \in DOMAIN mqWorker :
       TakeSlot(i) \/ SkipDocument(i) \/ queryOneDoc(i) \/ selectSections(i) \/ DocumentFails(i)
       \/ SelectStream(i) \/ SendEvent(i) \/ DropEvents(i)
MQNext == MQStep \/ MQClientGone

MQEnded == mqOut.status # "pending" /\ mqChan = <<>>

-----------------------------------------------------------------------------
\* While the client stays, every document named is answered for: its result
\* or its error in a query, its terminal event as the last one in a stream
\* however the workers' sends interleave in the full channel; a query fails
\* only when no document succeeded.
DocumentsAnsweredFor ==
  /\ MQEnded /\ ~mqGone /\ mqReq.kind = "multi" =>
       /\ ToSet(mqReq.docs) = DOMAIN mqFound \cup mqErrs
       /\ mqOut.status = "error" <=> DOMAIN mqFound = {}
  /\ MQEnded /\ ~mqGone /\ mqReq.kind = "stream" =>
       \A i \in DOMAIN mqSeen : mqSeen[i] \in {<<"started", "completed">>, <<"error">>}
  /\ Cardinality(Running) <= MQParallel

\* The length of all sections.
Total(flat) ==
  LET upTo[n \in 0..Len(flat)] == IF n = 0 THEN 0 ELSE upTo[n - 1] + flat[n].len
  IN  upTo[Len(flat)]

\* The evidence of a store answer fits the generator's prompt: within the
\* budget and the number asked for, no empty section, in the order the
\* documents were named (a document named twice comes twice); a document that
\* gave sections is left out only when the budget or the number ran out.
StoreEvidenceFits ==
  MQEnded /\ mqReq.kind = "store" =>
    LET flat == mqOut.flat
        full == Total(flat) = MQBudget \/ (mqReq.max > 0 /\ Len(flat) = mqReq.max)
    IN  /\ Total(flat) <= MQBudget /\ (mqReq.max > 0 => Len(flat) <= mqReq.max)
        /\ \A k \in DOMAIN flat : flat[k].at \in DOMAIN mqReq.docs /\ flat[k].len \in 1..MQCap
        /\ \A j, k \in DOMAIN flat : j < k => flat[j].at <= flat[k].at
        /\ \A i \in DOMAIN mqReq.docs :
             mqReq.docs[i] \in DOMAIN mqFound /\ mqFound[mqReq.docs[i]] # <<>> =>
               full \/ \E k \in DOMAIN flat : flat[k].at = i

\* A question to several documents answers for each of them, and a store
\* answer is made from evidence that fits its prompt.
StoreAnswersSound == DocumentsAnsweredFor /\ StoreEvidenceFits
=============================================================================
