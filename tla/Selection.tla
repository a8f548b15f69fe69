----------------------------- MODULE Selection -----------------------------
(***************************************************************************)
(* Selecting sections of one document by showing a model its outline:      *)
(* SinglePass (the whole outline in one call), ChunkedTree (the outline    *)
(* split into slices that fit the context, asked in parallel) and their    *)
(* streaming forms, which report through a bounded channel that drops what *)
(* does not fit.                                                           *)
(*                                                                         *)
(* A document tree is [kids, cost]: the children of every section in order *)
(* and the tokens of its outline line; section 1 is the root.  What the    *)
(* model replies is arbitrary.                                             *)
(***************************************************************************)
EXTENDS Integers, FiniteSets, Sequences, SequencesExt

CONSTANTS
  SelRequests,   \* requests: [tree, budget |-> [max, reserved], kind, stream]
  SelReplies,    \* picks a model may return: sequences of [id, conf]
  SelParallel,   \* ContextBudget.MaxParallelCalls
  SelRetries,    \* defaultSelectionRetries
  SelBuffer,     \* capacity of the event channel
  NoConf         \* a pick without a confidence

ConfOne == 2     \* confidences are in halves

ASSUME SelectionAssumption ==
  /\ SelParallel \in Nat \ {0} /\ SelRetries \in Nat /\ SelBuffer \in Nat \ {0}
  /\ \A r \in SelRequests : r.tree.cost \in [DOMAIN r.tree.kids -> Nat] /\ r.kind \in {"single", "chunked"}

VARIABLES
  selReq,      \* the request
  slices,      \* sections shown in each call
  worker,      \* per slice: wait, run, emit, done, failed
  tries,       \* per slice: replies that did not parse
  answer,      \* per slice: [ids, conf] the reply came to
  pending,     \* per slice: events still to emit
  chan,        \* events in the channel
  seen,        \* what the handler has received: [last type, section ids]
  dropped,     \* an event found the channel full
  selGone,     \* the client's context has ended
  selOut       \* the outcome

selVars == <<selReq, slices, worker, tries, answer, pending, chan, seen, dropped, selGone, selOut>>
selStreamVars == <<chan, seen, dropped>>

SelPending == [status |-> "pending", ids |-> <<>>]
NoAnswer == [ids |-> <<>>, conf |-> <<>>]
NothingSeen == [last |-> "none", ids |-> {}]

SelIdle ==
  /\ selReq = <<>> /\ slices = <<>> /\ worker = <<>> /\ tries = <<>> /\ answer = <<>>
  /\ pending = <<>> /\ chan = <<>> /\ seen = NothingSeen
  /\ dropped = FALSE /\ selGone = FALSE /\ selOut = SelPending

SelInit ==
  /\ selReq \in SelRequests
  /\ slices = <<>> /\ worker = <<>> /\ tries = <<>> /\ answer = <<>>
  /\ pending = <<>> /\ chan = <<>> /\ seen = NothingSeen
  /\ dropped = FALSE /\ selGone = FALSE /\ selOut = SelPending

-----------------------------------------------------------------------------
(***************************************************************************)
(* The outline and its slices.                                             *)
(***************************************************************************)

\* The sections at and beneath each section, in walk order.
flatten(t) ==
  LET under[n \in DOMAIN t.kids] ==
        <<n>> \o FlattenSeq([k \in DOMAIN t.kids[n] |-> under[t.kids[n][k]]])
  IN  under

BuildView(t) == flatten(t)[1]

measure(t, secs) == FoldLeft(LAMBDA sum, s : sum + t.cost[s], 0, secs)

Available(b) == IF b.max > b.reserved THEN b.max - b.reserved ELSE 0

\* What a slice may cost; 0 when nothing bounds it.
SliceLimit(b) == IF Available(b) > 0 THEN Available(b) ELSE b.max

\* Children are packed under their parent's line while they fit; one that
\* cannot fit a slice of its own is split in turn.
splitNode(t, avail) ==
  LET flush(acc) == IF acc.cur = <<>> THEN acc.out ELSE Append(acc.out, acc.cur)
      split[n \in DOMAIN t.kids] ==
        LET pack(acc, c) ==
              LET sub == flatten(t)[c]
                  cost == measure(t, sub)
              IN  IF cost > avail
                  THEN [out |-> flush(acc) \o split[c], cur |-> <<>>, used |-> 0]
                  ELSE IF acc.used + cost > avail /\ acc.cur # <<>>
                  THEN [out |-> flush(acc), cur |-> sub, used |-> cost]
                  ELSE [acc EXCEPT !.cur = @ \o sub, !.used = @ + cost]
        IN  flush(FoldLeft(pack, [out |-> <<>>, cur |-> <<n>>, used |-> t.cost[n]], t.kids[n]))
  IN  split[1]

Slices(t, b) ==
  LET avail == SliceLimit(b)
      whole == BuildView(t)
  IN  IF avail <= 0 \/ measure(t, whole) <= avail THEN <<whole>> ELSE splitNode(t, avail)

-----------------------------------------------------------------------------
(***************************************************************************)
(* Reading a reply.                                                        *)
(***************************************************************************)
clamp(c) == IF c < 0 THEN 0 ELSE IF c > ConfOne THEN ConfOne ELSE c

FirstPicks(picks) ==
  SelectSeq([k \in DOMAIN picks |-> [pick |-> picks[k], at |-> k]],
            LAMBDA e : \A j \in 1..(e.at - 1) : picks[j].id # e.pick.id)

ParseSelection(picks) ==
  LET kept == FirstPicks(picks)
      scored == {k \in DOMAIN kept : kept[k].pick.conf # NoConf}
  IN  [ids |-> [k \in DOMAIN kept |-> kept[k].pick.id],
       conf |-> [id \in {kept[k].pick.id : k \in scored} |->
                   clamp(kept[CHOOSE k \in scored : kept[k].pick.id = id].pick.conf)]]


\* Mutant: ids the slice does not hold are kept.
KeepIDs(ids, secs) == ids

FilterKnownIDs(ids, secs) == SelectSeq(ids, LAMBDA id : id \in ToSet(secs))

filterConfidences(conf, keep) == [id \in DOMAIN conf \cap ToSet(keep) |-> conf[id]]

\* Merge orders the union of the slices' ids, so which slice answered first
\* does not show.
UnionMerge(found) ==
  LET union == UNION {ToSet(found[i].ids) : i \in DOMAIN found}
  IN  [k \in 1..Cardinality(union) |->
         CHOOSE id \in union : Cardinality({x \in union : x < id}) = k - 1]

MergedConfidence(found, id) ==
  LET scores == {found[i].conf[id] : i \in {j \in DOMAIN found : id \in DOMAIN found[j].conf}}
  IN  CHOOSE c \in scores : \A d \in scores : d <= c

-----------------------------------------------------------------------------
Event(type, id) == [type |-> type, id |-> id]

emit(e) ==
  IF ~selReq.stream THEN UNCHANGED selStreamVars
  ELSE /\ chan' = IF Len(chan) < SelBuffer THEN Append(chan, e) ELSE chan
       /\ dropped' = (dropped \/ Len(chan) >= SelBuffer)
       /\ UNCHANGED seen

Split ==
  /\ slices = <<>> /\ selOut.status = "pending"
  /\ LET s == IF selReq.kind = "single" THEN <<BuildView(selReq.tree)>>
              ELSE Slices(selReq.tree, selReq.budget)
     IN  /\ slices' = s
         /\ worker' = [i \in DOMAIN s |-> "wait"]
         /\ tries' = [i \in DOMAIN s |-> 0]
         /\ answer' = [i \in DOMAIN s |-> NoAnswer]
         /\ pending' = [i \in DOMAIN s |-> <<>>]
  /\ emit(Event("started", 0))
  /\ UNCHANGED <<selReq, selGone, selOut>>

\* The tokenizer asks the provider, and may fail.
SplitFails ==
  /\ slices = <<>> /\ selOut.status = "pending" /\ selReq.kind = "chunked"
  /\ SliceLimit(selReq.budget) > 0
  /\ selOut' = [SelPending EXCEPT !.status = IF selReq.stream THEN "closed" ELSE "error"]
  /\ emit(Event("error", 0))
  /\ UNCHANGED <<selReq, slices, worker, tries, answer, pending, selGone>>

\* errgroup: the first slice to fail ends the context of the others.
GroupDone == selGone \/ \E i \in DOMAIN worker : worker[i] = "failed"

Acquire(i) ==
  /\ worker[i] = "wait"
  /\ Cardinality({j \in DOMAIN worker : worker[j] \in {"run", "emit"}}) < SelParallel
  /\ worker' = [worker EXCEPT ![i] = "run"]
  /\ emit(Event("slice_started", i))
  /\ UNCHANGED <<selReq, slices, tries, answer, pending, selGone, selOut>>

GiveUp(i) ==
  /\ worker[i] = "wait" /\ selReq.kind = "chunked" /\ GroupDone
  /\ worker' = [worker EXCEPT ![i] = "failed"]
  /\ UNCHANGED <<selReq, slices, tries, answer, pending, chan, seen, dropped, selGone, selOut>>

CallFails(i) ==
  /\ worker[i] = "run"
  /\ worker' = [worker EXCEPT ![i] = "failed"]
  /\ UNCHANGED <<selReq, slices, tries, answer, pending, chan, seen, dropped, selGone, selOut>>

\* The slice has its answer: a stream reports every id, then the slice.
Answered(i, found) ==
  /\ answer' = [answer EXCEPT ![i] = found]
  /\ IF selReq.stream
     THEN /\ worker' = [worker EXCEPT ![i] = "emit"]
          /\ pending' = [pending EXCEPT ![i] =
               [k \in DOMAIN found.ids |-> Event("section_selected", found.ids[k])]
               \o <<Event("slice_completed", i)>>]
     ELSE worker' = [worker EXCEPT ![i] = "done"] /\ UNCHANGED pending

Unparsable(i) ==
  /\ worker[i] = "run"
  /\ tries' = [tries EXCEPT ![i] = @ + 1]
  /\ IF tries[i] < SelRetries THEN UNCHANGED <<worker, answer, pending>>
     ELSE Answered(i, NoAnswer)
  /\ UNCHANGED <<selReq, slices, chan, seen, dropped, selGone, selOut>>

Reply(i) == \E picks \in SelReplies :
  /\ worker[i] = "run"
  /\ LET parsed == ParseSelection(picks)
         ids == FilterKnownIDs(parsed.ids, slices[i])
     IN  Answered(i, [ids |-> ids, conf |-> filterConfidences(parsed.conf, ids)])
  /\ UNCHANGED <<selReq, slices, tries, chan, seen, dropped, selGone, selOut>>

EmitNext(i) ==
  /\ worker[i] = "emit"
  /\ emit(Head(pending[i]))
  /\ pending' = [pending EXCEPT ![i] = Tail(@)]
  /\ worker' = [worker EXCEPT ![i] = IF Len(pending[i]) = 1 THEN "done" ELSE "emit"]
  /\ UNCHANGED <<selReq, slices, tries, answer, selGone, selOut>>

Merge ==
  /\ slices # <<>> /\ selOut.status = "pending"
  /\ \A i \in DOMAIN worker : worker[i] \in {"done", "failed"}
  /\ LET failed == \E i \in DOMAIN worker : worker[i] = "failed"
         ids == IF selReq.kind = "single" THEN answer[1].ids ELSE UnionMerge(answer)
         conf == [id \in {x \in ToSet(ids) : \E i \in DOMAIN answer : x \in DOMAIN answer[i].conf}
                   |-> MergedConfidence(answer, id)]
     IN  /\ selOut' = IF selReq.stream THEN [SelPending EXCEPT !.status = "closed"]
                      ELSE IF failed THEN [SelPending EXCEPT !.status = "error"]
                      ELSE [status |-> "ok", ids |-> ids, conf |-> conf]
         /\ emit(Event(IF failed THEN "error" ELSE "completed", 0))
  /\ UNCHANGED <<selReq, slices, worker, tries, answer, pending, selGone>>

\* The streaming handler takes the next event and writes it to the client.
Receive ==
  /\ chan # <<>>
  /\ seen' = [last |-> Head(chan).type,
              ids |-> seen.ids \cup IF Head(chan).type = "section_selected" THEN {Head(chan).id} ELSE {}]
  /\ chan' = Tail(chan)
  /\ UNCHANGED <<selReq, slices, worker, tries, answer, pending, dropped, selGone, selOut>>

ClientGone ==
  /\ ~selGone /\ selOut.status = "pending"
  /\ selGone' = TRUE
  /\ UNCHANGED <<selReq, slices, worker, tries, answer, pending, chan, seen, dropped, selOut>>

SelStep ==
  \/ Split \/ SplitFails \/ Merge \/ Receive
  \/ \E i \in DOMAIN worker : Acquire(i) \/ GiveUp(i) \/ CallFails(i)
                              \/ Unparsable(i) \/ Reply(i) \/ EmitNext(i)
SelNext == SelStep \/ ClientGone

SelEnded == selOut.status # "pending" /\ chan = <<>>

-----------------------------------------------------------------------------
\* Every section of the document is shown to the model in exactly one slice,
\* and a slice exceeds the context only when it is a single section that does
\* (DefaultSplitter.Split): a section no slice shows can never be selected.
SlicesCoverTree ==
  slices # <<>> =>
    LET all == FlattenSeq(slices)
        avail == SliceLimit(selReq.budget)
    IN  /\ ToSet(all) = DOMAIN selReq.tree.kids /\ Len(all) = Cardinality(ToSet(all))
        /\ selReq.kind = "chunked" /\ avail > 0 =>
             \A i \in DOMAIN slices : Len(slices[i]) = 1 \/ measure(selReq.tree, slices[i]) <= avail

\* A selection that succeeds is the union of what every slice's reply named,
\* without repeats, whatever order the replies came in; a slice that failed
\* fails the selection rather than dropping its part of the document.
SelectionIsUnion ==
  selOut.status = "ok" =>
    /\ \A i \in DOMAIN worker : worker[i] = "done"
    /\ ToSet(selOut.ids) = UNION {ToSet(answer[i].ids) : i \in DOMAIN answer}
    /\ Len(selOut.ids) = Cardinality(ToSet(selOut.ids))
    /\ \A i \in DOMAIN answer : ToSet(answer[i].ids) \subseteq ToSet(slices[i])
    /\ \A i \in DOMAIN answer : \A id \in DOMAIN answer[i].conf : selOut.conf[id] >= answer[i].conf[id]

\* A stream that was closed and drained without losing an event to the full
\* channel ends in its terminal event, and one that ends completed reported
\* exactly the sections the slices selected.
StreamFaithful ==
  selReq # <<>> /\ selOut.status = "closed" /\ chan = <<>> /\ ~dropped =>
    /\ seen.last \in {"completed", "error"}
    /\ seen.last = "completed" => seen.ids = UNION {ToSet(answer[i].ids) : i \in DOMAIN answer}
=============================================================================
