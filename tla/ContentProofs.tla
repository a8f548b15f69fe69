---------------------------- MODULE ContentProofs ---------------------------
(***************************************************************************)
(* What the row of a document tells about its ingest, proved for every     *)
(* payload, any number of deliveries, crashes and lost writes.             *)
(***************************************************************************)
EXTENDS Content, TLAPS

PhaseSet == {"detect", "extract", "resolve", "split"}
TopSet == {"parse", "save", "summaries", "contents", "pages"}
StageStates == {"pending", "running"} \cup Closed

\* The order of the stages, and that of the phases, as a relation.
Precedes(s, t) ==
  \/ s = "parse" /\ t \in {"save", "summaries", "contents", "pages"}
  \/ s = "save" /\ t \in {"summaries", "contents", "pages"}
  \/ s = "summaries" /\ t \in {"contents", "pages"}
  \/ s = "contents" /\ t = "pages"
PhasePrecedes(s, t) ==
  \/ s = "detect" /\ t \in {"extract", "resolve", "split"}
  \/ s = "extract" /\ t \in {"resolve", "split"}
  \/ s = "resolve" /\ t = "split"

-----------------------------------------------------------------------------
(***************************************************************************)
(* The plan and the order.                                                 *)
(***************************************************************************)

\* Every plan reads and saves; it has all phases of the contents or none.
LEMMA PlanStages ==
  ASSUME NEW job
  PROVE  /\ {"queued", "parse", "save"} \subseteq planFor(job)
         /\ planFor(job) \subseteq {"queued"} \cup TopSet \cup PhaseSet
         /\ "contents" \in planFor(job) => PhaseSet \subseteq planFor(job)
         /\ \A s \in PhaseSet : s \in planFor(job) => "contents" \in planFor(job)
BY DEF planFor, TopSet, PhaseSet

\* The places of the stages in the order.
LEMMA OrderPlaces ==
  /\ DOMAIN Order = 1..5
  /\ Order[1] = "parse" /\ Order[2] = "save" /\ Order[3] = "summaries" /\ Order[4] = "contents" /\ Order[5] = "pages"
BY DEF Order

\* The places of the phases in theirs.
LEMMA PhasePlaces ==
  /\ DOMAIN Phases = 1..4
  /\ Phases[1] = "detect" /\ Phases[2] = "extract" /\ Phases[3] = "resolve" /\ Phases[4] = "split"
BY DEF Phases

\* The order as the relation.
LEMMA OrderPrecedes ==
  ASSUME NEW i \in DOMAIN Order, NEW j \in DOMAIN Order, i < j
  PROVE  Precedes(Order[i], Order[j])
<1>1. i \in 1..5 /\ j \in 1..5
  BY OrderPlaces
<1>2. (i = 1 /\ j \in 2..5) \/ (i = 2 /\ j \in 3..5) \/ (i = 3 /\ j \in 4..5) \/ (i = 4 /\ j = 5)
  BY <1>1
<1> QED BY <1>2, OrderPlaces DEF Precedes

\* The order of the phases as the relation.
LEMMA PhasesPrecede ==
  ASSUME NEW i \in DOMAIN Phases, NEW j \in DOMAIN Phases, i < j
  PROVE  PhasePrecedes(Phases[i], Phases[j])
<1>1. i \in 1..4 /\ j \in 1..4
  BY PhasePlaces
<1>2. (i = 1 /\ j \in 2..4) \/ (i = 2 /\ j \in 3..4) \/ (i = 3 /\ j = 4)
  BY <1>1
<1> QED BY <1>2, PhasePlaces DEF PhasePrecedes

\* PossibleList, said of the stages and not of their places.
Possible(list) ==
  /\ \A s \in TopSet, t \in TopSet :
       Precedes(s, t) /\ {s, t} \subseteq DOMAIN list /\ list[t] # "pending" =>
         list[s] \in Closed /\ (s \in {"parse", "save"} => list[s] # "failed")
  /\ \A s \in PhaseSet, t \in PhaseSet :
       PhasePrecedes(s, t) /\ t \in DOMAIN list /\ list[t] # "pending" => list[s] = "done"
  /\ \A s \in PhaseSet : s \in DOMAIN list =>
       /\ list[s] # "pending" => list["contents"] \in {"running", "done", "failed"}
       /\ list["contents"] = "done" => list[s] = "done"

\* The two agree.
LEMMA PossibleIsList == ASSUME NEW list, Possible(list) PROVE PossibleList(list)
<1>1. ASSUME NEW i \in DOMAIN Order PROVE Order[i] \in TopSet
  BY OrderPlaces DEF TopSet
<1>2. ASSUME NEW i \in DOMAIN Phases PROVE Phases[i] \in PhaseSet
  BY PhasePlaces DEF PhaseSet
<1>3. ASSUME NEW i \in DOMAIN Order, NEW j \in DOMAIN Order, i < j, Order[i] \in DOMAIN list,
             Order[j] \in DOMAIN list, list[Order[j]] # "pending"
      PROVE  list[Order[i]] \in Closed /\ (Order[i] \in {"parse", "save"} => list[Order[i]] # "failed")
  BY <1>1, <1>3, OrderPrecedes DEF Possible
<1>4. ASSUME NEW i \in DOMAIN Phases, NEW j \in DOMAIN Phases, i < j,
             Phases[j] \in DOMAIN list, list[Phases[j]] # "pending"
      PROVE  list[Phases[i]] = "done"
  BY <1>2, <1>4, PhasesPrecede DEF Possible
<1>5. ASSUME NEW i \in DOMAIN Phases, Phases[i] \in DOMAIN list
      PROVE  /\ list[Phases[i]] # "pending" => list["contents"] \in {"running", "done", "failed"}
             /\ list["contents"] = "done" => list[Phases[i]] = "done"
  BY <1>2, <1>5 DEF Possible
<1> QED BY <1>3, <1>4, <1>5 DEF PossibleList

\* After a stage comes the next one of the plan, or the document is ready.
LEMMA NextStage ==
  ASSUME NEW s \in {"parse", "save", "summaries", "contents"}
  PROVE  \/ /\ AfterStage(s) = At("ready", "start")
            /\ \A t \in {"parse", "save", "summaries", "contents"} : Precedes(s, t) => t \notin planFor(prgJob)
         \/ \E t \in {"parse", "save", "summaries", "contents"} :
              /\ AfterStage(s) = At(t, "start") /\ t \in planFor(prgJob) /\ Precedes(s, t)
              /\ \A u \in {"parse", "save", "summaries", "contents"} : Precedes(s, u) /\ Precedes(u, t) => u \notin planFor(prgJob)
<1> DEFINE rest == {k \in DOMAIN Working : Working[k] \in planFor(prgJob) /\ \A j \in DOMAIN Working : Working[j] = s => j < k}
           least == CHOOSE k \in rest : \A j \in rest : k <= j
<1>1. /\ DOMAIN Working = 1..4
      /\ Working[1] = "parse" /\ Working[2] = "save" /\ Working[3] = "summaries" /\ Working[4] = "contents"
  BY DEF Working
<1>2. AfterStage(s) = IF rest = {} THEN At("ready", "start") ELSE At(Working[least], "start")
  BY DEF AfterStage
<1>3. PICK p \in 1..4 : Working[p] = s
  BY <1>1
<1>4. ASSUME NEW j \in 1..4, Working[j] = s PROVE j = p
  BY <1>1, <1>3, <1>4
<1>5. rest = {k \in 1..4 : Working[k] \in planFor(prgJob) /\ p < k}
  BY <1>1, <1>3, <1>4
<1>6. ASSUME NEW j \in 1..4, NEW k \in 1..4 PROVE Precedes(Working[j], Working[k]) <=> j < k
  <2>1. j \in {1, 2, 3, 4} /\ k \in {1, 2, 3, 4}
    OBVIOUS
  <2> QED BY <1>1, <2>1 DEF Precedes
<1>7. CASE rest = {}
  BY <1>1, <1>2, <1>3, <1>5, <1>6, <1>7
<1>8. CASE rest # {}
  <2>1. \E k \in rest : \A j \in rest : k <= j
    <3>1. rest \subseteq {1, 2, 3, 4}
      BY <1>5
    <3> HIDE DEF rest
    <3>2. \/ 1 \in rest \/ (1 \notin rest /\ 2 \in rest) \/ ({1, 2} \cap rest = {} /\ 3 \in rest)
          \/ ({1, 2, 3} \cap rest = {} /\ 4 \in rest)
      BY <1>8, <3>1
    <3> QED BY <3>1, <3>2
  <2>2. least \in rest /\ \A j \in rest : least <= j
    BY <2>1
  <2> HIDE DEF least
  <2>3. least \in 1..4 /\ Working[least] \in planFor(prgJob) /\ p < least
    BY <1>5, <2>2
  <2>4. ASSUME NEW k \in 1..4, p < k, k < least PROVE Working[k] \notin planFor(prgJob)
    BY <1>5, <2>2, <2>3, <2>4
  <2> QED BY <1>1, <1>2, <1>3, <1>6, <1>8, <2>3, <2>4
<1> QED BY <1>7, <1>8

\* After a phase comes the next, and the contents end after the last.
LEMMA NextPhase ==
  /\ AfterPhase("detect") = At("extract", "start") /\ AfterPhase("extract") = At("resolve", "start")
  /\ AfterPhase("resolve") = At("split", "start") /\ AfterPhase("split") = At("contents", "end")
<1>1. ASSUME NEW n \in 1..3
      PROVE (CHOOSE k \in DOMAIN Phases : Phases[k] = Phases[n]) = n
  <2>1. \A k \in DOMAIN Phases : Phases[k] = Phases[n] => k = n
    BY PhasePlaces
  <2> QED BY <2>1, PhasePlaces
<1>2. /\ (CHOOSE k \in DOMAIN Phases : Phases[k] = "detect") = 1
      /\ (CHOOSE k \in DOMAIN Phases : Phases[k] = "extract") = 2
      /\ (CHOOSE k \in DOMAIN Phases : Phases[k] = "resolve") = 3
  BY <1>1, PhasePlaces
<1> QED BY <1>2, PhasePlaces DEF AfterPhase


-----------------------------------------------------------------------------
(***************************************************************************)
(* The list of a delivery, where the delivery is.                          *)
(***************************************************************************)
Plan == planFor(prgJob)
WorkSet == {"parse", "save", "summaries", "contents"}

\* Every stage of the plan has a state, and the queue is never running.
ListType(plan, list) ==
  /\ list = [s \in DOMAIN list |-> list[s]] /\ DOMAIN list = plan
  /\ \A s \in plan : list[s] \in StageStates
  /\ list["queued"] \in {"pending", "done"}

\* All stages before s are over and none of them ended the run.
ClosedTo(plan, list, s) == \A t \in TopSet \cap plan : Precedes(t, s) =>
  list[t] \in Closed /\ (t \in {"parse", "save"} => list[t] # "failed")
FreshFrom(plan, list, s) == \A t \in TopSet \cap plan : Precedes(s, t) => list[t] = "pending"
PhasesFresh(plan, list) == \A t \in PhaseSet \cap plan : list[t] = "pending"

\* What the phases tell of the contents, and the contents of the phases.
PhasesFit(plan, list) ==
  /\ \A s \in PhaseSet, t \in PhaseSet :
       PhasePrecedes(s, t) /\ t \in plan /\ list[t] # "pending" => list[s] = "done"
  /\ \A s \in PhaseSet \cap plan :
       /\ list[s] # "pending" => list["contents"] \in {"running", "done", "failed"}
       /\ list["contents"] = "done" => list[s] = "done"
PhasesOver(plan, list) ==
  PhasesFit(plan, list) /\ \A s \in PhaseSet \cap plan : list[s] = "running" => s = "extract" /\ list["contents"] = "failed"

AtWork(plan, list, at) ==
  \E s \in WorkSet \cap plan :
    /\ ClosedTo(plan, list, s) /\ FreshFrom(plan, list, s) /\ (s = "contents" \/ Precedes(s, "contents"))
    /\ \/ at = At(s, "start") /\ list[s] = "pending" /\ PhasesFresh(plan, list)
       \/ at = At(s, "end") /\ list[s] = "running" /\ s # "contents" /\ PhasesFresh(plan, list)
       \/ at = At(s, "end") /\ list[s] = "running" /\ s = "contents" /\ \A t \in PhaseSet : list[t] = "done"

AtPhase(plan, list, at) ==
  \E s \in PhaseSet :
    /\ "contents" \in plan /\ list["contents"] = "running" /\ ClosedTo(plan, list, "contents") /\ FreshFrom(plan, list, "contents")
    /\ \A t \in PhaseSet : PhasePrecedes(t, s) => list[t] = "done"
    /\ \A t \in PhaseSet : PhasePrecedes(s, t) => list[t] = "pending"
    /\ \/ at = At(s, "start") /\ list[s] = "pending"
       \/ at = At(s, "end") /\ list[s] \in {"pending", "running"}

AtReady(plan, list, at) ==
  /\ ClosedTo(plan, list, "pages") /\ PhasesOver(plan, list)
  /\ \/ at = At("ready", "start") /\ ("pages" \in plan => list["pages"] = "pending")
     \/ at = At("pages", "start") /\ "pages" \in plan /\ list["pages"] = "pending"
     \/ at = At("pages", "end") /\ "pages" \in plan /\ list["pages"] = "running"

AtQueue(plan, list, at) == at = At("queued", "start") /\ \A s \in plan : list[s] = "pending"

\* A list that fits the place its delivery is at.
Fitting(plan, list, at) ==
  /\ ListType(plan, list)
  /\ \/ AtQueue(plan, list, at) \/ AtWork(plan, list, at) \/ AtPhase(plan, list, at) \/ AtReady(plan, list, at)
     \/ at = Ended /\ Possible(list)
Delivered(d) ==
  /\ Fitting(Plan, prgList[d], prgAt[d])
  /\ prgAt[d] = Ended /\ d \notin prgCrashed => NothingRuns(prgList[d])

PrgInv ==
  /\ prgAt = [d \in PrgDeliverySet |-> prgAt[d]] /\ prgList = [d \in PrgDeliverySet |-> prgList[d]]
  /\ prgDirty \subseteq PrgDeliverySet /\ prgLost \in Nat
  /\ \A d \in PrgDeliverySet : prgAt[d] = NotBegun \/ Delivered(d)
  /\ \A d \in prgDirty : prgAt[d] # NotBegun
  /\ prgStored # <<>> =>
       /\ Possible(prgStored)
       /\ prgCrashed = {} /\ prgLost = 0 =>
            \E e \in PrgDeliverySet : prgAt[e] # NotBegun /\ (e \in prgDirty \/ prgStored = prgList[e])

\* Wherever a delivery is, its list is a possible one.
LEMMA FittingPossible ==
  ASSUME NEW list, NEW at, Fitting(Plan, list, at)
  PROVE  Possible(list)
<1>1. DOMAIN list = Plan
  BY DEF Fitting, ListType
<1>2. SUFFICES ASSUME AtQueue(Plan, list, at) \/ AtWork(Plan, list, at) \/ AtPhase(Plan, list, at) \/ AtReady(Plan, list, at)
               PROVE  Possible(list)
  BY DEF Fitting
<1>3. PhaseSet \subseteq Plan \/ PhaseSet \cap Plan = {}
  BY PlanStages DEF Plan
<1>4. PhaseSet \cap Plan # {} => "contents" \in Plan
  BY PlanStages DEF Plan
<1>5. CASE AtQueue(Plan, list, at)
  BY <1>1, <1>3, <1>4, <1>5 DEF AtQueue, Possible
<1>6. CASE AtWork(Plan, list, at)
  <2>1. PICK s \in WorkSet \cap Plan :
          /\ ClosedTo(Plan, list, s) /\ FreshFrom(Plan, list, s)
          /\ PhasesFresh(Plan, list) \/ (s = "contents" /\ list[s] = "running" /\ \A t \in PhaseSet : list[t] = "done")
          /\ list[s] = "pending" \/ list[s] = "running"
    BY <1>6 DEF AtWork
  <2>2. \A t \in TopSet : t = s \/ Precedes(t, s) \/ Precedes(s, t)
    BY DEF TopSet, WorkSet, Precedes
  <2>3. \A t, u \in TopSet : Precedes(t, u) /\ Precedes(u, s) => Precedes(t, s)
    BY DEF TopSet, WorkSet, Precedes
  <2>4. \A t, u \in TopSet : Precedes(t, u) /\ {t, u} \subseteq Plan /\ list[u] # "pending" =>
           list[t] \in Closed /\ (t \in {"parse", "save"} => list[t] # "failed")
    BY <2>1, <2>2, <2>3 DEF ClosedTo, FreshFrom
  <2>5. \A t, u \in PhaseSet : PhasePrecedes(t, u) /\ u \in Plan /\ list[u] # "pending" => list[t] = "done"
    BY <1>3, <2>1 DEF PhasesFresh
  <2>6. \A t \in PhaseSet : t \in Plan =>
           /\ list[t] # "pending" => list["contents"] \in {"running", "done", "failed"}
           /\ list["contents"] = "done" => list[t] = "done"
    <3>1. ASSUME list["contents"] = "done", "contents" \in Plan PROVE FALSE
      <4>1. s # "contents" => Precedes(s, "contents")
        BY DEF WorkSet, Precedes
      <4> QED BY <2>1, <3>1, <4>1 DEF FreshFrom, TopSet
    <3> QED BY <1>4, <2>1, <3>1 DEF PhasesFresh
  <2> QED BY <1>1, <2>4, <2>5, <2>6 DEF Possible
<1>7. CASE AtPhase(Plan, list, at)
  <2>1. PICK s \in PhaseSet :
          /\ "contents" \in Plan /\ list["contents"] = "running" /\ ClosedTo(Plan, list, "contents") /\ FreshFrom(Plan, list, "contents")
          /\ \A t \in PhaseSet : PhasePrecedes(t, s) => list[t] = "done"
          /\ \A t \in PhaseSet : PhasePrecedes(s, t) => list[t] = "pending"
    BY <1>7 DEF AtPhase
  <2>2. \A t \in TopSet : t = "contents" \/ Precedes(t, "contents") \/ Precedes("contents", t)
    BY DEF TopSet, Precedes
  <2>3. \A t, u \in TopSet : Precedes(t, u) /\ Precedes(u, "contents") => Precedes(t, "contents")
    BY DEF TopSet, Precedes
  <2>4. \A t, u \in TopSet : Precedes(t, u) /\ {t, u} \subseteq Plan /\ list[u] # "pending" =>
           list[t] \in Closed /\ (t \in {"parse", "save"} => list[t] # "failed")
    BY <2>1, <2>2, <2>3 DEF ClosedTo, FreshFrom
  <2>5. \A t, u \in PhaseSet : PhasePrecedes(t, u) => (u = s \/ PhasePrecedes(s, u) \/ (PhasePrecedes(u, s) /\ PhasePrecedes(t, s)))
    BY DEF PhaseSet, PhasePrecedes
  <2>6. \A t, u \in PhaseSet : PhasePrecedes(t, u) /\ u \in Plan /\ list[u] # "pending" => list[t] = "done"
    BY <2>1, <2>5
  <2> QED BY <1>1, <2>1, <2>4, <2>6 DEF Possible
<1>8. CASE AtReady(Plan, list, at)
  <2>1. ClosedTo(Plan, list, "pages") /\ PhasesFit(Plan, list)
    BY <1>8 DEF AtReady, PhasesOver
  <2>2. \A t, u \in TopSet : Precedes(t, u) => Precedes(t, "pages")
    BY DEF TopSet, Precedes
  <2> QED BY <1>1, <2>1, <2>2 DEF Possible, PhasesFit, ClosedTo
<1> QED BY <1>2, <1>5, <1>6, <1>7, <1>8


\* Where a delivery is tells its stage and whether it begins or ends it.
LEMMA AtFields ==
  /\ \A s, do : At(s, do).stage = s /\ At(s, do).do = do
  /\ \A s, do, t, x : At(s, do) = At(t, x) => s = t /\ do = x
  /\ Ended.stage = "none" /\ NotBegun.stage = "none" /\ Ended.do = "end" /\ NotBegun.do = "begin"
BY DEF At, Ended, NotBegun

\* A delivery that is at a stage of the pipeline.
LEMMA PlacedWork ==
  ASSUME NEW plan, NEW list, NEW s \in WorkSet, NEW do, Fitting(plan, list, At(s, do))
  PROVE  /\ s \in plan /\ ListType(plan, list) /\ ClosedTo(plan, list, s) /\ FreshFrom(plan, list, s)
         /\ do = "start" => list[s] = "pending" /\ PhasesFresh(plan, list)
         /\ do # "start" => list[s] = "running" /\ (s # "contents" => PhasesFresh(plan, list))
                                               /\ (s = "contents" => \A t \in PhaseSet : list[t] = "done")
<1> DEFINE at == At(s, do)
<1>1. at.stage = s /\ at.do = do
  BY AtFields
<1> HIDE DEF at
<1>2. s \notin {"queued", "ready", "pages", "none"} /\ s \notin PhaseSet
  BY DEF WorkSet, PhaseSet
<1>3. Fitting(plan, list, at)
  BY DEF at
<1>4. ~AtQueue(plan, list, at) /\ ~AtPhase(plan, list, at) /\ ~AtReady(plan, list, at) /\ at # Ended
  BY <1>1, <1>2, AtFields DEF AtQueue, AtPhase, AtReady
<1>5. AtWork(plan, list, at) /\ ListType(plan, list)
  BY <1>3, <1>4 DEF Fitting
<1>6. PICK t \in WorkSet \cap plan :
    /\ ClosedTo(plan, list, t) /\ FreshFrom(plan, list, t)
    /\ \/ at = At(t, "start") /\ list[t] = "pending" /\ PhasesFresh(plan, list)
       \/ at = At(t, "end") /\ list[t] = "running" /\ t # "contents" /\ PhasesFresh(plan, list)
       \/ at = At(t, "end") /\ list[t] = "running" /\ t = "contents" /\ \A u \in PhaseSet : list[u] = "done"
  BY <1>5 DEF AtWork
<1>7. s = t /\ (do = "start" \/ do = "end")
  BY <1>1, <1>6, AtFields
<1>8. do = "start" => at # At(t, "end")
  BY <1>1, AtFields
<1>9. do # "start" => at # At(t, "start")
  BY <1>1, AtFields
<1> QED BY <1>5, <1>6, <1>7, <1>8, <1>9

\* A delivery that is at a phase of the contents.
LEMMA PlacedPhase ==
  ASSUME NEW plan, NEW list, NEW s \in PhaseSet, NEW do, Fitting(plan, list, At(s, do))
  PROVE  /\ ListType(plan, list) /\ "contents" \in plan /\ list["contents"] = "running"
         /\ ClosedTo(plan, list, "contents") /\ FreshFrom(plan, list, "contents")
         /\ \A t \in PhaseSet : PhasePrecedes(t, s) => list[t] = "done"
         /\ \A t \in PhaseSet : PhasePrecedes(s, t) => list[t] = "pending"
         /\ do = "start" => list[s] = "pending"
         /\ do # "start" => list[s] \in {"pending", "running"}
<1> DEFINE at == At(s, do)
<1>1. at.stage = s /\ at.do = do
  BY AtFields
<1> HIDE DEF at
<1>2. s \notin {"queued", "ready", "pages", "none"} /\ s \notin WorkSet
  BY DEF WorkSet, PhaseSet
<1>3. Fitting(plan, list, at)
  BY DEF at
<1>4. ~AtQueue(plan, list, at) /\ ~AtWork(plan, list, at) /\ ~AtReady(plan, list, at) /\ at # Ended
  BY <1>1, <1>2, AtFields DEF AtQueue, AtWork, AtReady
<1>5. AtPhase(plan, list, at) /\ ListType(plan, list)
  BY <1>3, <1>4 DEF Fitting
<1> QED BY <1>1, <1>5, AtFields DEF AtPhase

\* A delivery whose document is about to be ready or is warmed up.
LEMMA PlacedReady ==
  ASSUME NEW plan, NEW list, NEW s \in {"ready", "pages"}, NEW do, Fitting(plan, list, At(s, do))
  PROVE  /\ ListType(plan, list) /\ ClosedTo(plan, list, "pages") /\ PhasesOver(plan, list)
         /\ s = "pages" => "pages" \in plan
         /\ do = "start" /\ "pages" \in plan => list["pages"] = "pending"
         /\ do # "start" => list["pages"] = "running"
<1> DEFINE at == At(s, do)
<1>1. at.stage = s /\ at.do = do
  BY AtFields
<1> HIDE DEF at
<1>2. s \notin {"queued", "none"} /\ s \notin WorkSet /\ s \notin PhaseSet
  BY DEF WorkSet, PhaseSet
<1>3. Fitting(plan, list, at)
  BY DEF at
<1>4. ~AtQueue(plan, list, at) /\ ~AtWork(plan, list, at) /\ ~AtPhase(plan, list, at) /\ at # Ended
  BY <1>1, <1>2, AtFields DEF AtQueue, AtWork, AtPhase
<1>5. AtReady(plan, list, at) /\ ListType(plan, list)
  BY <1>3, <1>4 DEF Fitting
<1> QED BY <1>1, <1>5, AtFields DEF AtReady

\* A delivery that waits for the length of its time in the queue.
LEMMA PlacedQueue ==
  ASSUME NEW plan, NEW list, NEW do, Fitting(plan, list, At("queued", do))
  PROVE  ListType(plan, list) /\ \A s \in plan : list[s] = "pending"
<1> DEFINE at == At("queued", do)
<1>1. at.stage = "queued"
  BY AtFields
<1> HIDE DEF at
<1>3. Fitting(plan, list, at)
  BY DEF at
<1>4. ~AtReady(plan, list, at) /\ ~AtWork(plan, list, at) /\ ~AtPhase(plan, list, at) /\ at # Ended
  BY <1>1, AtFields DEF AtReady, AtWork, AtPhase, WorkSet, PhaseSet
<1> QED BY <1>3, <1>4 DEF Fitting, AtQueue


-----------------------------------------------------------------------------
(***************************************************************************)
(* What an update does to the list.                                        *)
(***************************************************************************)

\* One stage changes, the others stay.
LEMMA Updated ==
  ASSUME NEW plan, NEW list, ListType(plan, list), NEW s \in plan, NEW v \in StageStates,
         "queued" \in plan, s = "queued" => v = "done"
  PROVE  LET new == [list EXCEPT ![s] = v]
         IN  /\ ListType(plan, new) /\ new[s] = v
             /\ \A t \in plan : t # s => new[t] = list[t]
             /\ DOMAIN new = plan
<1> DEFINE new == [list EXCEPT ![s] = v]
<1>1. DOMAIN list = plan
  BY DEF ListType
<1>2. /\ DOMAIN new = plan /\ new[s] = v /\ new = [t \in DOMAIN new |-> new[t]]
      /\ \A t \in plan : t # s => new[t] = list[t]
  BY <1>1
<1> HIDE DEF new
<1>3. \A t \in plan : new[t] \in StageStates
  BY <1>2 DEF ListType
<1>4. new["queued"] \in {"pending", "done"}
  <2>1. CASE s = "queued"
    BY <1>2, <2>1
  <2>2. CASE s # "queued"
    BY <1>2, <2>2 DEF ListType
  <2> QED BY <2>1, <2>2
<1>5. ListType(plan, new)
  BY <1>2, <1>3, <1>4 DEF ListType
<1> QED BY <1>2, <1>5 DEF new

\* The same for a stage that is not the queue.
LEMMA UpdatedStage ==
  ASSUME NEW list, ListType(Plan, list), NEW s \in Plan \cap TopSet, NEW v \in StageStates
  PROVE  LET new == [list EXCEPT ![s] = v]
         IN  /\ ListType(Plan, new) /\ new[s] = v /\ DOMAIN new = Plan
             /\ \A t \in Plan : t # s => new[t] = list[t]
<1>1. s # "queued" /\ "queued" \in Plan
  BY PlanStages DEF Plan, TopSet
<1> QED BY <1>1, Updated

\* A stage of the pipeline is over: the next one of the plan has its list.
LEMMA WorkOver ==
  ASSUME NEW list, ListType(Plan, list), NEW s \in WorkSet \cap Plan, NEW v \in Closed,
         s \in {"parse", "save"} => v # "failed",
         ClosedTo(Plan, list, s), FreshFrom(Plan, list, s),
         s # "contents" => PhasesFresh(Plan, list),
         s = "contents" => PhasesOver(Plan, [list EXCEPT ![s] = v])
  PROVE  Fitting(Plan, [list EXCEPT ![s] = v], AfterStage(s))
<1> DEFINE new == [list EXCEPT ![s] = v]
<1>1. v \in StageStates /\ s # "queued" /\ s \in Plan
  BY DEF StageStates, WorkSet
<1>2. /\ ListType(Plan, new) /\ new[s] = v /\ DOMAIN new = Plan
      /\ \A t \in Plan : t # s => new[t] = list[t]
  BY <1>1, Updated, PlanStages DEF Plan
<1>3. \A t \in TopSet \cap Plan : t = s \/ Precedes(t, s) =>
         new[t] \in Closed /\ (t \in {"parse", "save"} => new[t] # "failed")
  BY <1>2 DEF ClosedTo
<1>4. \A t \in TopSet \cap Plan : Precedes(s, t) => new[t] = "pending" /\ t # s
  BY <1>2 DEF FreshFrom, Precedes
<1>5. s # "contents" => PhasesFresh(Plan, new)
  <2>1. \A t \in PhaseSet : t # s
    BY DEF PhaseSet, WorkSet
  <2> QED BY <1>2, <2>1 DEF PhasesFresh
<1>6. s = "contents" => PhasesOver(Plan, new)
  OBVIOUS
<1> HIDE DEF new
<1>7. ASSUME NEW t \in WorkSet, AfterStage(s) = At(t, "start"), t \in Plan, Precedes(s, t),
             \A u \in WorkSet : Precedes(s, u) /\ Precedes(u, t) => u \notin Plan
      PROVE  Fitting(Plan, new, AfterStage(s))
  <2>1. s # "contents" /\ t \in TopSet /\ (t = "contents" \/ Precedes(t, "contents"))
    BY <1>7 DEF WorkSet, Precedes, TopSet
  <2>2. \A u \in TopSet : Precedes(u, t) => u \in WorkSet /\ (u = s \/ Precedes(u, s) \/ Precedes(s, u))
    BY <1>7 DEF WorkSet, TopSet, Precedes
  <2>3. ClosedTo(Plan, new, t)
    BY <1>3, <1>7, <2>2 DEF ClosedTo
  <2>4. \A u \in TopSet : Precedes(t, u) => Precedes(s, u)
    BY <1>7 DEF WorkSet, TopSet, Precedes
  <2>5. FreshFrom(Plan, new, t) /\ new[t] = "pending"
    BY <1>4, <1>7, <2>1, <2>4 DEF FreshFrom
  <2>6. AtWork(Plan, new, At(t, "start"))
    BY <1>5, <1>7, <2>1, <2>3, <2>5 DEF AtWork
  <2> QED BY <1>2, <1>7, <2>6 DEF Fitting
<1>8. ASSUME AfterStage(s) = At("ready", "start"), \A t \in WorkSet : Precedes(s, t) => t \notin Plan
      PROVE  Fitting(Plan, new, AfterStage(s))
  <2>1. \A t \in TopSet : Precedes(t, "pages") => t \in WorkSet /\ (t = s \/ Precedes(t, s) \/ Precedes(s, t))
    BY DEF WorkSet, TopSet, Precedes
  <2>2. ClosedTo(Plan, new, "pages")
    BY <1>3, <1>8, <2>1 DEF ClosedTo
  <2>3. "pages" \in Plan => new["pages"] = "pending"
    BY <1>4 DEF TopSet, WorkSet, Precedes
  <2>4. PhasesOver(Plan, new)
    <3>1. CASE s = "contents"
      BY <1>6, <3>1
    <3>2. CASE s # "contents"
      <4>1. "contents" \notin Plan
        BY <1>8, <3>2 DEF WorkSet, Precedes
      <4>2. \A t \in PhaseSet : t \notin Plan
        BY <4>1, PlanStages DEF Plan
      <4> QED BY <4>2 DEF PhasesOver, PhasesFit
    <3> QED BY <3>1, <3>2
  <2>5. AtReady(Plan, new, At("ready", "start"))
    BY <2>2, <2>3, <2>4 DEF AtReady
  <2> QED BY <1>2, <1>8, <2>5 DEF Fitting
<1>9. Fitting(Plan, new, AfterStage(s))
  <2>1. s \in {"parse", "save", "summaries", "contents"}
    BY DEF WorkSet
  <2> QED BY <1>7, <1>8, <2>1, NextStage DEF WorkSet, Plan
<1> QED BY <1>9 DEF new

\* A stage of the pipeline begins; the contents begin with their first phase.
LEMMA WorkBegins ==
  ASSUME NEW list, NEW s \in WorkSet, Fitting(Plan, list, At(s, "start"))
  PROVE  Fitting(Plan, [list EXCEPT ![s] = "running"], IF s = "contents" THEN At("detect", "start") ELSE At(s, "end"))
<1> DEFINE new == [list EXCEPT ![s] = "running"]
<1>1. /\ s \in Plan /\ ListType(Plan, list) /\ ClosedTo(Plan, list, s) /\ FreshFrom(Plan, list, s)
      /\ list[s] = "pending" /\ PhasesFresh(Plan, list)
  BY PlacedWork
<1>2. "running" \in StageStates /\ s # "queued"
  BY DEF StageStates, WorkSet
<1>3. /\ ListType(Plan, new) /\ new[s] = "running"
      /\ \A t \in Plan : t # s => new[t] = list[t]
  BY <1>1, <1>2, Updated, PlanStages DEF Plan
<1> HIDE DEF new
<1>4. ClosedTo(Plan, new, s) /\ FreshFrom(Plan, new, s) /\ PhasesFresh(Plan, new)
  <2>1. \A t \in TopSet : Precedes(t, s) \/ Precedes(s, t) => t # s
    BY DEF Precedes
  <2>2. \A t \in PhaseSet : t # s
    BY DEF PhaseSet, WorkSet
  <2> QED BY <1>1, <1>3, <2>1, <2>2 DEF ClosedTo, FreshFrom, PhasesFresh
<1>5. s = "contents" \/ Precedes(s, "contents")
  BY DEF WorkSet, Precedes
<1>6. CASE s # "contents"
  <2>1. AtWork(Plan, new, At(s, "end"))
    BY <1>1, <1>3, <1>4, <1>5, <1>6 DEF AtWork
  <2> QED BY <1>3, <1>6, <2>1 DEF Fitting, new
<1>7. CASE s = "contents"
  <2>1. PhaseSet \subseteq Plan
    BY <1>1, <1>7, PlanStages DEF Plan
  <2>2. \A t \in PhaseSet : new[t] = "pending"
    BY <1>4, <2>1 DEF PhasesFresh
  <2>3. \A t \in PhaseSet : ~PhasePrecedes(t, "detect")
    BY DEF PhasePrecedes
  <2>4. AtPhase(Plan, new, At("detect", "start"))
    <3>1. "detect" \in PhaseSet
      BY DEF PhaseSet
    <3> QED BY <1>1, <1>3, <1>4, <1>7, <2>2, <2>3, <3>1 DEF AtPhase
  <2> QED BY <1>3, <1>7, <2>4 DEF Fitting, new
<1> QED BY <1>6, <1>7

\* A stage of the pipeline ends well.
LEMMA WorkEnds ==
  ASSUME NEW list, NEW s \in WorkSet, Fitting(Plan, list, At(s, "end"))
  PROVE  Fitting(Plan, [list EXCEPT ![s] = "done"], AfterStage(s))
<1> DEFINE new == [list EXCEPT ![s] = "done"]
<1>1. /\ s \in Plan /\ ListType(Plan, list) /\ ClosedTo(Plan, list, s) /\ FreshFrom(Plan, list, s)
      /\ (s # "contents" => PhasesFresh(Plan, list))
      /\ (s = "contents" => \A t \in PhaseSet : list[t] = "done")
  <2>1. "end" # "start"
    OBVIOUS
  <2> QED BY <2>1, PlacedWork, Zenon
<1>2. "done" \in Closed /\ "done" \in StageStates /\ s # "queued"
  BY DEF StageStates, WorkSet, Closed
<1>0. "queued" \in Plan
  BY PlanStages DEF Plan
<1>3. new[s] = "done" /\ \A t \in Plan : t # s => new[t] = list[t]
  BY <1>0, <1>1, <1>2, Updated
<1>4. s = "contents" => PhasesOver(Plan, new)
  <2> HAVE s = "contents"
  <2>1. PhaseSet \subseteq Plan
    BY <1>1, PlanStages DEF Plan
  <2>2. \A t \in PhaseSet : t # s
    BY DEF PhaseSet
  <2>3. \A t \in PhaseSet : new[t] = "done"
    BY <1>1, <1>3, <2>1, <2>2
  <2> HIDE DEF new
  <2> QED BY <1>3, <2>3 DEF PhasesOver, PhasesFit
<1> QED BY <1>1, <1>2, <1>4, WorkOver


\* A phase begins or is over; nothing else of the list changes.
LEMMA PhaseMoves ==
  ASSUME NEW list, NEW s \in PhaseSet, NEW do, Fitting(Plan, list, At(s, do)), NEW v \in StageStates
  PROVE  LET new == [list EXCEPT ![s] = v]
         IN  /\ ListType(Plan, new) /\ "contents" \in Plan /\ new["contents"] = "running" /\ new[s] = v
             /\ ClosedTo(Plan, new, "contents") /\ FreshFrom(Plan, new, "contents")
             /\ \A t \in PhaseSet : PhasePrecedes(t, s) => new[t] = "done"
             /\ \A t \in PhaseSet : PhasePrecedes(s, t) => new[t] = "pending"
<1> DEFINE new == [list EXCEPT ![s] = v]
<1>1. /\ ListType(Plan, list) /\ "contents" \in Plan /\ list["contents"] = "running"
      /\ ClosedTo(Plan, list, "contents") /\ FreshFrom(Plan, list, "contents")
      /\ \A t \in PhaseSet : PhasePrecedes(t, s) => list[t] = "done"
      /\ \A t \in PhaseSet : PhasePrecedes(s, t) => list[t] = "pending"
  BY PlacedPhase
<1>2. "queued" \in Plan /\ s # "queued" /\ PhaseSet \subseteq Plan
  BY <1>1, PlanStages DEF Plan, PhaseSet
<1>3. ListType(Plan, new) /\ new[s] = v /\ \A t \in Plan : t # s => new[t] = list[t]
  BY <1>1, <1>2, Updated
<1> HIDE DEF new
<1>4. \A t \in TopSet : t # s
  BY DEF TopSet, PhaseSet
<1>5. "contents" \in TopSet /\ \A t \in PhaseSet : PhasePrecedes(t, s) \/ PhasePrecedes(s, t) => t # s
  BY DEF TopSet, PhasePrecedes
<1>6. new["contents"] = "running" /\ ClosedTo(Plan, new, "contents") /\ FreshFrom(Plan, new, "contents")
  BY <1>1, <1>3, <1>4, <1>5 DEF ClosedTo, FreshFrom
<1>7. /\ \A t \in PhaseSet : PhasePrecedes(t, s) => new[t] = "done"
      /\ \A t \in PhaseSet : PhasePrecedes(s, t) => new[t] = "pending"
  BY <1>1, <1>2, <1>3, <1>5
<1> QED BY <1>1, <1>3, <1>6, <1>7 DEF new

\* A phase begins.
LEMMA PhaseBegins ==
  ASSUME NEW list, NEW s \in PhaseSet, Fitting(Plan, list, At(s, "start"))
  PROVE  Fitting(Plan, [list EXCEPT ![s] = "running"], At(s, "end"))
<1> DEFINE new == [list EXCEPT ![s] = "running"]
<1>1. "running" \in StageStates
  BY DEF StageStates
<1>2. /\ ListType(Plan, new) /\ "contents" \in Plan /\ new["contents"] = "running" /\ new[s] = "running"
      /\ ClosedTo(Plan, new, "contents") /\ FreshFrom(Plan, new, "contents")
      /\ \A t \in PhaseSet : PhasePrecedes(t, s) => new[t] = "done"
      /\ \A t \in PhaseSet : PhasePrecedes(s, t) => new[t] = "pending"
  BY <1>1, PhaseMoves
<1> HIDE DEF new
<1>3. AtPhase(Plan, new, At(s, "end"))
  BY <1>2 DEF AtPhase
<1>4. Fitting(Plan, new, At(s, "end"))
  BY <1>2, <1>3 DEF Fitting
<1> QED BY <1>4 DEF new

\* A phase ends: the next one is due, after the last the end of the contents.
LEMMA PhaseEnds ==
  ASSUME NEW list, NEW s \in PhaseSet, Fitting(Plan, list, At(s, "end"))
  PROVE  Fitting(Plan, [list EXCEPT ![s] = "done"], AfterPhase(s))
<1> DEFINE new == [list EXCEPT ![s] = "done"]
<1>1. "done" \in StageStates
  BY DEF StageStates, Closed
<1>2. /\ ListType(Plan, new) /\ "contents" \in Plan /\ new["contents"] = "running" /\ new[s] = "done"
      /\ ClosedTo(Plan, new, "contents") /\ FreshFrom(Plan, new, "contents")
      /\ \A t \in PhaseSet : PhasePrecedes(t, s) => new[t] = "done"
      /\ \A t \in PhaseSet : PhasePrecedes(s, t) => new[t] = "pending"
  BY <1>1, PhaseMoves
<1> HIDE DEF new
<1>3. ASSUME NEW n \in PhaseSet, PhasePrecedes(s, n), \A t \in PhaseSet : PhasePrecedes(t, n) => t = s \/ PhasePrecedes(t, s),
             \A t \in PhaseSet : PhasePrecedes(n, t) => PhasePrecedes(s, t)
      PROVE  Fitting(Plan, new, At(n, "start"))
  <2>1. AtPhase(Plan, new, At(n, "start"))
    BY <1>2, <1>3 DEF AtPhase
  <2> QED BY <1>2, <2>1 DEF Fitting
<1>4. CASE s = "detect"
  BY <1>3, <1>4, NextPhase DEF PhaseSet, PhasePrecedes, new
<1>5. CASE s = "extract"
  BY <1>3, <1>5, NextPhase DEF PhaseSet, PhasePrecedes, new
<1>6. CASE s = "resolve"
  BY <1>3, <1>6, NextPhase DEF PhaseSet, PhasePrecedes, new
<1>7. CASE s = "split"
  <2>1. \A t \in PhaseSet : new[t] = "done"
    BY <1>2, <1>7 DEF PhaseSet, PhasePrecedes
  <2>2. AtWork(Plan, new, At("contents", "end"))
    BY <1>2, <2>1 DEF AtWork, WorkSet
  <2>3. Fitting(Plan, new, At("contents", "end"))
    BY <1>2, <2>2 DEF Fitting
  <2> QED BY <1>7, <2>3, NextPhase DEF new
<1> QED BY <1>4, <1>5, <1>6, <1>7 DEF PhaseSet

\* The entries could not be read: the contents failed.
LEMMA ContentsFail ==
  ASSUME NEW list, Fitting(Plan, list, At("extract", "end"))
  PROVE  Fitting(Plan, [list EXCEPT !["contents"] = "failed"], AfterStage("contents"))
<1> DEFINE new == [list EXCEPT !["contents"] = "failed"]
<1>1. /\ ListType(Plan, list) /\ "contents" \in Plan
      /\ ClosedTo(Plan, list, "contents") /\ FreshFrom(Plan, list, "contents")
      /\ list["detect"] = "done" /\ list["extract"] \in {"pending", "running"}
      /\ list["resolve"] = "pending" /\ list["split"] = "pending"
  <2>1. "extract" \in PhaseSet /\ "end" # "start" /\ {"detect", "resolve", "split"} \subseteq PhaseSet
    BY DEF PhaseSet
  <2>2. PhasePrecedes("detect", "extract") /\ PhasePrecedes("extract", "resolve") /\ PhasePrecedes("extract", "split")
    BY DEF PhasePrecedes
  <2> QED BY <2>1, <2>2, PlacedPhase
<1>2. "failed" \in Closed /\ "failed" \in StageStates /\ "contents" \in WorkSet /\ "queued" \in Plan
  BY PlanStages DEF StageStates, WorkSet, Closed, Plan
<1>3. new["contents"] = "failed" /\ \A t \in Plan : t # "contents" => new[t] = list[t]
  <2>1. "contents" \in Plan \cap TopSet
    BY <1>1 DEF TopSet
  <2> QED BY <1>1, <1>2, <2>1, UpdatedStage
<1>4. PhaseSet \subseteq Plan
  BY <1>1, PlanStages DEF Plan
<1> HIDE DEF new
<1>5. /\ new["detect"] = "done" /\ new["extract"] \in {"pending", "running"}
      /\ new["resolve"] = "pending" /\ new["split"] = "pending"
  BY <1>1, <1>3, <1>4 DEF PhaseSet
<1>6. PhasesOver(Plan, new)
  BY <1>3, <1>5 DEF PhasesOver, PhasesFit, PhaseSet, PhasePrecedes
<1> QED BY <1>1, <1>2, <1>6, WorkOver DEF new

\* A document without pages to read has no contents.
LEMMA ContentsSkipped ==
  ASSUME NEW list, Fitting(Plan, list, At("contents", "start"))
  PROVE  Fitting(Plan, [list EXCEPT !["contents"] = "skipped"], AfterStage("contents"))
<1> DEFINE new == [list EXCEPT !["contents"] = "skipped"]
<1>1. /\ ListType(Plan, list) /\ "contents" \in Plan /\ "contents" \in WorkSet
      /\ ClosedTo(Plan, list, "contents") /\ FreshFrom(Plan, list, "contents") /\ PhasesFresh(Plan, list)
  BY PlacedWork DEF WorkSet
<1>2. "skipped" \in Closed /\ "skipped" \in StageStates /\ "queued" \in Plan
  BY PlanStages DEF StageStates, Closed, Plan
<1>3. new["contents"] = "skipped" /\ \A t \in Plan : t # "contents" => new[t] = list[t]
  <2>1. "contents" \in Plan \cap TopSet
    BY <1>1 DEF TopSet
  <2> QED BY <1>1, <1>2, <2>1, UpdatedStage
<1>4. PhaseSet \subseteq Plan /\ \A t \in PhaseSet : t # "contents"
  BY <1>1, PlanStages DEF Plan, PhaseSet
<1> HIDE DEF new
<1>5. \A t \in PhaseSet : new[t] = "pending"
  BY <1>1, <1>3, <1>4 DEF PhasesFresh
<1>6. PhasesOver(Plan, new)
  BY <1>3, <1>5 DEF PhasesOver, PhasesFit
<1> QED BY <1>1, <1>2, <1>6, WorkOver DEF new

\* Nothing to place: placing is over before it began, and splitting is due.
LEMMA PlacingSkipped ==
  ASSUME NEW list, Fitting(Plan, list, At("resolve", "start"))
  PROVE  Fitting(Plan, [list EXCEPT !["resolve"] = "done"], At("split", "end"))
<1> DEFINE new == [list EXCEPT !["resolve"] = "done"]
<1>1. "done" \in StageStates /\ "resolve" \in PhaseSet /\ "split" \in PhaseSet
  BY DEF StageStates, Closed, PhaseSet
<1>2. /\ ListType(Plan, new) /\ "contents" \in Plan /\ new["contents"] = "running" /\ new["resolve"] = "done"
      /\ ClosedTo(Plan, new, "contents") /\ FreshFrom(Plan, new, "contents")
      /\ \A t \in PhaseSet : PhasePrecedes(t, "resolve") => new[t] = "done"
      /\ \A t \in PhaseSet : PhasePrecedes("resolve", t) => new[t] = "pending"
  BY <1>1, PhaseMoves
<1> HIDE DEF new
<1>3. /\ \A t \in PhaseSet : PhasePrecedes(t, "split") => t = "resolve" \/ PhasePrecedes(t, "resolve")
      /\ \A t \in PhaseSet : ~PhasePrecedes("split", t)
      /\ PhasePrecedes("resolve", "split")
  BY DEF PhasePrecedes
<1>4. AtPhase(Plan, new, At("split", "end"))
  BY <1>1, <1>2, <1>3 DEF AtPhase
<1>5. Fitting(Plan, new, At("split", "end"))
  BY <1>2, <1>4 DEF Fitting
<1> QED BY <1>5 DEF new


\* Reading or saving fails: the run is over, and the rest never began.
LEMMA RunFails ==
  ASSUME NEW list, NEW s \in {"parse", "save"}, Fitting(Plan, list, At(s, "end"))
  PROVE  LET new == [list EXCEPT ![s] = "failed"]
         IN  ListType(Plan, new) /\ Possible(new) /\ NothingRuns(new)
<1> DEFINE new == [list EXCEPT ![s] = "failed"]
<1>1. /\ s \in Plan /\ ListType(Plan, list) /\ ClosedTo(Plan, list, s) /\ FreshFrom(Plan, list, s)
      /\ PhasesFresh(Plan, list)
  <2>1. "end" # "start" /\ s \in WorkSet /\ s # "contents"
    BY DEF WorkSet
  <2> QED BY <2>1, PlacedWork
<1>2. "failed" \in StageStates /\ "queued" \in Plan /\ s # "queued"
  BY PlanStages DEF StageStates, Closed, Plan
<1>3. ListType(Plan, new) /\ new[s] = "failed" /\ DOMAIN new = Plan /\ \A t \in Plan : t # s => new[t] = list[t]
  BY <1>1, <1>2, Updated
<1> HIDE DEF new
<1>4. ClosedTo(Plan, new, s) /\ FreshFrom(Plan, new, s) /\ PhasesFresh(Plan, new)
  <2>1. \A t \in TopSet : Precedes(t, s) \/ Precedes(s, t) => t # s
    BY DEF Precedes
  <2>2. \A t \in PhaseSet : t # s
    BY DEF PhaseSet
  <2> QED BY <1>1, <1>3, <2>1, <2>2 DEF ClosedTo, FreshFrom, PhasesFresh
<1>5. \A t \in TopSet : t = s \/ Precedes(t, s) \/ Precedes(s, t)
  BY DEF TopSet, Precedes
<1>6. PhaseSet \subseteq Plan \/ PhaseSet \cap Plan = {}
  BY PlanStages DEF Plan
<1>7. \A t \in PhaseSet : t \in Plan => "contents" \in Plan
  BY PlanStages DEF Plan
<1>8. "contents" \in Plan => new["contents"] = "pending"
  BY <1>4 DEF FreshFrom, TopSet, Precedes
<1>9. Possible(new)
  <2>1. \A t, u \in TopSet : Precedes(t, u) /\ Precedes(u, s) => Precedes(t, s)
    BY DEF Precedes
  <2>2. \A t, u \in TopSet : Precedes(t, u) /\ {t, u} \subseteq Plan /\ new[u] # "pending" =>
           new[t] \in Closed /\ (t \in {"parse", "save"} => new[t] # "failed")
    BY <1>4, <1>5, <2>1 DEF ClosedTo, FreshFrom
  <2> QED BY <1>3, <1>4, <1>6, <1>7, <1>8, <2>2 DEF Possible, PhasesFresh
<1>10. NothingRuns(new)
  <2>1. \A t \in Plan : t = "queued" \/ t \in TopSet \/ t \in PhaseSet
    BY PlanStages DEF Plan
  <2>2. \A t \in Plan : new[t] # "running"
    BY <1>3, <1>4, <1>5, <2>1 DEF ListType, ClosedTo, FreshFrom, PhasesFresh, Closed
  <2> QED BY <1>3, <2>2 DEF NothingRuns
<1> QED BY <1>3, <1>9, <1>10 DEF new

\* The status cannot be written between two stages: nothing is running.
LEMMA StatusStops ==
  ASSUME NEW list, NEW s \in {"parse", "summaries", "ready"}, Fitting(Plan, list, At(s, "start"))
  PROVE  NothingRuns(list)
<1>1. \A t \in Plan : t = "queued" \/ t \in TopSet \/ t \in PhaseSet
  BY PlanStages DEF Plan
<1>2. CASE s # "ready"
  <2>1. s \in WorkSet /\ ListType(Plan, list) /\ ClosedTo(Plan, list, s) /\ FreshFrom(Plan, list, s)
        /\ list[s] = "pending" /\ PhasesFresh(Plan, list)
    BY <1>2, PlacedWork DEF WorkSet
  <2>2. \A t \in TopSet : t = s \/ Precedes(t, s) \/ Precedes(s, t)
    BY <1>2 DEF TopSet, Precedes
  <2>3. \A t \in Plan : list[t] # "running"
    BY <1>1, <2>1, <2>2 DEF ListType, ClosedTo, FreshFrom, PhasesFresh, Closed
  <2> QED BY <2>1, <2>3 DEF NothingRuns, ListType
<1>3. CASE s = "ready"
  <2>1. ListType(Plan, list) /\ ClosedTo(Plan, list, "pages") /\ PhasesOver(Plan, list)
        /\ ("pages" \in Plan => list["pages"] = "pending")
    BY <1>3, PlacedReady
  <2>2. \A t \in TopSet : t = "pages" \/ Precedes(t, "pages")
    BY DEF TopSet, Precedes
  <2>3. \A t \in TopSet \cap Plan : list[t] # "running"
    BY <2>1, <2>2 DEF ClosedTo, Closed
  <2>4. list["queued"] # "running"
    BY <2>1 DEF ListType
  <2> QED BY <1>1, <2>1, <2>3, <2>4 DEF NothingRuns, ListType, PhasesOver
<1> QED BY <1>2, <1>3

\* The warm-up begins.
LEMMA PagesBegin ==
  ASSUME NEW list, Fitting(Plan, list, At("pages", "start"))
  PROVE  Fitting(Plan, [list EXCEPT !["pages"] = "running"], At("pages", "end"))
<1> DEFINE new == [list EXCEPT !["pages"] = "running"]
<1>1. ListType(Plan, list) /\ ClosedTo(Plan, list, "pages") /\ PhasesOver(Plan, list) /\ "pages" \in Plan
  BY PlacedReady
<1>2. "running" \in StageStates /\ "queued" \in Plan
  BY PlanStages DEF StageStates, Plan
<1>3. ListType(Plan, new) /\ new["pages"] = "running" /\ \A t \in Plan : t # "pages" => new[t] = list[t]
  <2>1. "pages" \in Plan \cap TopSet
    BY <1>1 DEF TopSet
  <2> QED BY <1>1, <1>2, <2>1, UpdatedStage
<1> HIDE DEF new
<1>4. /\ \A t \in TopSet : Precedes(t, "pages") => t # "pages"
      /\ \A t \in PhaseSet : t # "pages"
      /\ \A t \in PhaseSet : t \in Plan => PhaseSet \subseteq Plan /\ "contents" \in Plan
  BY PlanStages DEF TopSet, PhaseSet, Precedes, Plan
<1>5. ClosedTo(Plan, new, "pages")
  BY <1>1, <1>3, <1>4 DEF ClosedTo
<1>6. \A t \in PhaseSet : t \in Plan => \A u \in PhaseSet : new[u] = list[u] /\ new["contents"] = list["contents"]
  BY <1>3, <1>4
<1>7. PhasesOver(Plan, new)
  BY <1>1, <1>3, <1>4, <1>6 DEF PhasesOver, PhasesFit
<1>8. AtReady(Plan, new, At("pages", "end"))
  BY <1>1, <1>3, <1>5, <1>7 DEF AtReady
<1> QED BY <1>3, <1>8 DEF Fitting, new

\* The warm-up is over, however it ended.
LEMMA PagesEnd ==
  ASSUME NEW list, Fitting(Plan, list, At("pages", "end")), NEW v \in Closed
  PROVE  LET new == [list EXCEPT !["pages"] = v]
         IN  ListType(Plan, new) /\ Possible(new) /\ NothingRuns(new)
<1> DEFINE new == [list EXCEPT !["pages"] = v]
<1>1. ListType(Plan, list) /\ ClosedTo(Plan, list, "pages") /\ PhasesOver(Plan, list) /\ "pages" \in Plan
  BY PlacedReady
<1>2. v \in StageStates /\ "queued" \in Plan
  BY PlanStages DEF StageStates, Plan
<1>3. ListType(Plan, new) /\ new["pages"] = v /\ DOMAIN new = Plan /\ \A t \in Plan : t # "pages" => new[t] = list[t]
  <2>1. "pages" \in Plan \cap TopSet
    BY <1>1 DEF TopSet
  <2> QED BY <1>1, <1>2, <2>1, UpdatedStage
<1> HIDE DEF new
<1>4. /\ \A t \in TopSet : t = "pages" \/ Precedes(t, "pages")
      /\ \A t, u \in TopSet : Precedes(t, u) => Precedes(t, "pages")
      /\ \A t \in TopSet : Precedes(t, "pages") => t # "pages"
      /\ \A t \in PhaseSet : t # "pages"
      /\ \A t \in PhaseSet : t \in Plan => PhaseSet \subseteq Plan /\ "contents" \in Plan
  BY PlanStages DEF TopSet, PhaseSet, Precedes, Plan
<1>5. ClosedTo(Plan, new, "pages")
  BY <1>1, <1>3, <1>4 DEF ClosedTo
<1>6. \A t \in PhaseSet : t \in Plan => \A u \in PhaseSet : new[u] = list[u] /\ new["contents"] = list["contents"]
  BY <1>3, <1>4
<1>7. PhasesOver(Plan, new)
  BY <1>1, <1>3, <1>4, <1>6 DEF PhasesOver, PhasesFit
<1>8. Possible(new)
  BY <1>3, <1>4, <1>5, <1>7 DEF Possible, PhasesOver, PhasesFit, ClosedTo
<1>9. NothingRuns(new)
  <2>1. \A t \in Plan : t = "queued" \/ t \in TopSet \/ t \in PhaseSet
    BY PlanStages DEF Plan
  <2>2. \A t \in TopSet \cap Plan : new[t] # "running"
    BY <1>3, <1>4, <1>5 DEF ClosedTo, Closed
  <2>3. new["queued"] # "running"
    BY <1>3 DEF ListType
  <2> QED BY <1>3, <1>7, <2>1, <2>2, <2>3 DEF NothingRuns, PhasesOver
<1> QED BY <1>3, <1>8, <1>9 DEF new


-----------------------------------------------------------------------------
(***************************************************************************)
(* The deliveries and the row.                                             *)
(***************************************************************************)

\* An update that leaves a list that fits keeps the invariant.
LEMMA UpdateKeeps ==
  ASSUME PrgInv, NEW d \in PrgDeliverySet, NEW s, NEW v, NEW next, update(d, s, v, next),
         prgAt[d] # NotBegun, next # NotBegun,
         Fitting(Plan, [prgList[d] EXCEPT ![s] = v], next),
         next = Ended => NothingRuns([prgList[d] EXCEPT ![s] = v])
  PROVE  PrgInv'
<1>1. /\ prgList' = [prgList EXCEPT ![d] = [prgList[d] EXCEPT ![s] = v]]
      /\ prgDirty' = prgDirty \cup {d} /\ prgAt' = [prgAt EXCEPT ![d] = next]
      /\ UNCHANGED <<prgJob, prgStored, prgCrashed, prgLost>>
  BY DEF update
<1>2. /\ prgAt'[d] = next /\ prgList'[d] = [prgList[d] EXCEPT ![s] = v]
      /\ \A e \in PrgDeliverySet \ {d} : prgAt'[e] = prgAt[e] /\ prgList'[e] = prgList[e]
      /\ prgAt' = [e \in PrgDeliverySet |-> prgAt'[e]] /\ prgList' = [e \in PrgDeliverySet |-> prgList'[e]]
  BY <1>1 DEF PrgInv
<1>3. Plan' = Plan
  BY <1>1 DEF Plan
<1>4. Delivered(d)'
  BY <1>1, <1>2, <1>3 DEF Delivered
<1>5. ASSUME NEW e \in PrgDeliverySet \ {d} PROVE (prgAt[e] = NotBegun \/ Delivered(e))'
  BY <1>1, <1>2, <1>3 DEF PrgInv, Delivered
<1>6. ASSUME prgStored # <<>>, prgCrashed = {}, prgLost = 0
      PROVE  \E e \in PrgDeliverySet : prgAt'[e] # NotBegun /\ (e \in prgDirty' \/ prgStored = prgList'[e])
  BY <1>1, <1>2
<1>7. \A e \in prgDirty' : prgAt'[e] # NotBegun
  BY <1>1, <1>2 DEF PrgInv
<1> QED BY <1>1, <1>2, <1>4, <1>5, <1>6, <1>7 DEF PrgInv

\* So does going on without an update.
LEMMA GoToKeeps ==
  ASSUME PrgInv, NEW d \in PrgDeliverySet, NEW next, GoTo(d, next), prgAt[d] # NotBegun, next # NotBegun,
         Fitting(Plan, prgList[d], next), next = Ended => NothingRuns(prgList[d])
  PROVE  PrgInv'
<1>1. prgAt' = [prgAt EXCEPT ![d] = next] /\ UNCHANGED <<prgJob, prgList, prgDirty, prgStored, prgCrashed, prgLost>>
  BY DEF GoTo
<1>2. /\ prgAt'[d] = next /\ \A e \in PrgDeliverySet \ {d} : prgAt'[e] = prgAt[e]
      /\ prgAt' = [e \in PrgDeliverySet |-> prgAt'[e]]
  BY <1>1 DEF PrgInv
<1>3. Plan' = Plan
  BY <1>1 DEF Plan
<1>4. Delivered(d)'
  BY <1>1, <1>2, <1>3 DEF Delivered
<1>5. ASSUME NEW e \in PrgDeliverySet \ {d} PROVE (prgAt[e] = NotBegun \/ Delivered(e))'
  BY <1>1, <1>2, <1>3 DEF PrgInv, Delivered
<1>6. \A e \in PrgDeliverySet : prgAt[e] # NotBegun => prgAt'[e] # NotBegun
  BY <1>2
<1> QED BY <1>1, <1>2, <1>4, <1>5, <1>6 DEF PrgInv

\* A delivery that is somewhere has a list that fits.
LEMMA BegunFits ==
  ASSUME PrgInv, NEW d \in PrgDeliverySet, NEW s, NEW do, prgAt[d] = At(s, do), s # "none"
  PROVE  prgAt[d] # NotBegun /\ Fitting(Plan, prgList[d], At(s, do))
<1>1. prgAt[d] # NotBegun
  BY AtFields
<1> QED BY <1>1 DEF PrgInv, Delivered

\* A place of a stage is neither the beginning nor the end.
LEMMA SomeStage ==
  ASSUME NEW s, NEW do, s # "none"
  PROVE  At(s, do) # NotBegun /\ At(s, do) # Ended
BY AtFields

\* After a stage or a phase there is something to do.
LEMMA AfterIsStage ==
  /\ \A s \in WorkSet : AfterStage(s) # NotBegun /\ AfterStage(s) # Ended
  /\ \A s \in PhaseSet : AfterPhase(s) # NotBegun /\ AfterPhase(s) # Ended
<1>1. ASSUME NEW s \in WorkSet PROVE AfterStage(s) # NotBegun /\ AfterStage(s) # Ended
  <2>1. \E t : t # "none" /\ AfterStage(s) = At(t, "start")
    BY NextStage DEF WorkSet
  <2> QED BY <2>1, SomeStage
<1>2. ASSUME NEW s \in PhaseSet PROVE AfterPhase(s) # NotBegun /\ AfterPhase(s) # Ended
  BY NextPhase, SomeStage DEF PhaseSet
<1> QED BY <1>1, <1>2

\* Every stage of a plan is the queue, one of the pipeline, a phase or the warm-up.
LEMMA StageKinds ==
  ASSUME NEW s \in Plan, s # "queued"
  PROVE  s \in WorkSet \/ s \in PhaseSet \/ s = "pages"
BY PlanStages DEF Plan, TopSet, WorkSet

\* A stage begins.
LEMMA StartKeeps ==
  ASSUME PrgInv, NEW d \in PrgDeliverySet, Start(d)
  PROVE  PrgInv'
<1> DEFINE next(s) == IF s = "contents" THEN At("detect", "start") ELSE At(s, "end")
<1>1. PICK s \in Plan : s # "queued" /\ prgAt[d] = At(s, "start") /\ update(d, s, "running", next(s))
  BY DEF Start, StageOf, Plan
<1>2. s \in WorkSet \/ s \in PhaseSet \/ s = "pages"
  BY <1>1, StageKinds
<1>3. s # "none"
  BY <1>2 DEF WorkSet, PhaseSet
<1>4. prgAt[d] # NotBegun /\ Fitting(Plan, prgList[d], At(s, "start"))
  BY <1>1, <1>3, BegunFits
<1>5. next(s) # NotBegun /\ next(s) # Ended
  BY <1>3, SomeStage
<1>6. Fitting(Plan, [prgList[d] EXCEPT ![s] = "running"], next(s))
  <2>1. CASE s \in WorkSet
    BY <1>4, <2>1, WorkBegins
  <2>2. CASE s \in PhaseSet
    <3>1. s # "contents"
      BY <2>2 DEF PhaseSet
    <3> QED BY <1>4, <2>2, <3>1, PhaseBegins
  <2>3. CASE s = "pages"
    BY <1>4, <2>3, PagesBegin
  <2> QED BY <1>2, <2>1, <2>2, <2>3
<1> HIDE DEF next
<1> QED BY <1>1, <1>4, <1>5, <1>6, UpdateKeeps

\* A stage ends well.
LEMMA DoneKeeps ==
  ASSUME PrgInv, NEW d \in PrgDeliverySet, Done(d)
  PROVE  PrgInv'
<1> DEFINE next(s) == IF s \in {"detect", "extract", "resolve", "split"} THEN AfterPhase(s)
                      ELSE IF s = "pages" THEN Ended ELSE AfterStage(s)
           new(s) == [prgList[d] EXCEPT ![s] = "done"]
<1>1. PICK s \in Plan : s # "queued" /\ prgAt[d] = At(s, "end") /\ update(d, s, "done", next(s))
  BY DEF Done, StageOf, Plan
<1>2. s \in WorkSet \/ s \in PhaseSet \/ s = "pages"
  BY <1>1, StageKinds
<1>3. s # "none"
  BY <1>2 DEF WorkSet, PhaseSet
<1>4. prgAt[d] # NotBegun /\ Fitting(Plan, prgList[d], At(s, "end"))
  BY <1>1, <1>3, BegunFits
<1>5. /\ next(s) # NotBegun /\ Fitting(Plan, new(s), next(s))
      /\ next(s) = Ended => NothingRuns(new(s))
  <2>1. CASE s \in WorkSet
    <3>1. next(s) = AfterStage(s)
      BY <2>1 DEF WorkSet
    <3> QED BY <1>4, <2>1, <3>1, WorkEnds, AfterIsStage
  <2>2. CASE s \in PhaseSet
    <3>1. next(s) = AfterPhase(s)
      BY <2>2 DEF PhaseSet
    <3> QED BY <1>4, <2>2, <3>1, PhaseEnds, AfterIsStage
  <2>3. CASE s = "pages"
    <3>1. next(s) = Ended /\ Ended # NotBegun /\ "done" \in Closed
      BY <2>3, AtFields DEF Closed
    <3>2. ListType(Plan, new(s)) /\ Possible(new(s)) /\ NothingRuns(new(s))
      BY <1>4, <2>3, <3>1, PagesEnd
    <3> QED BY <3>1, <3>2 DEF Fitting
  <2> QED BY <1>2, <2>1, <2>2, <2>3
<1> HIDE DEF next
<1> QED BY <1>1, <1>4, <1>5, UpdateKeeps

\* Reading, saving or warming up fails.
LEMMA FailKeeps ==
  ASSUME PrgInv, NEW d \in PrgDeliverySet, Fail(d)
  PROVE  PrgInv'
<1>1. PICK s \in {"parse", "save", "pages"} : prgAt[d] = At(s, "end") /\ update(d, s, "failed", Ended)
  BY DEF Fail, StageOf
<1> DEFINE new == [prgList[d] EXCEPT ![s] = "failed"]
<1>2. s # "none"
  OBVIOUS
<1>3. prgAt[d] # NotBegun /\ Fitting(Plan, prgList[d], At(s, "end"))
  BY <1>1, <1>2, BegunFits
<1>4. ListType(Plan, new) /\ Possible(new) /\ NothingRuns(new)
  <2>1. CASE s = "pages"
    <3>1. "failed" \in Closed
      BY DEF Closed
    <3> QED BY <1>3, <2>1, <3>1, PagesEnd
  <2>2. CASE s # "pages"
    BY <1>3, <2>2, RunFails
  <2> QED BY <2>1, <2>2
<1>5. Fitting(Plan, new, Ended) /\ Ended # NotBegun
  BY <1>4, AtFields DEF Fitting
<1> QED BY <1>1, <1>3, <1>4, <1>5, UpdateKeeps


\* The contents fail, are skipped, or have nothing to place; no warm-up.
LEMMA ContentsKeep ==
  ASSUME PrgInv, NEW d \in PrgDeliverySet, BuildFailed(d) \/ SkipContents(d) \/ NothingToPlace(d) \/ SkipPages(d)
  PROVE  PrgInv'
<1>1. CASE BuildFailed(d)
  <2>1. prgAt[d] = At("extract", "end") /\ update(d, "contents", "failed", AfterStage("contents"))
    BY <1>1 DEF BuildFailed
  <2>2. prgAt[d] # NotBegun /\ Fitting(Plan, prgList[d], At("extract", "end"))
    BY <2>1, BegunFits
  <2>3. AfterStage("contents") # NotBegun /\ AfterStage("contents") # Ended
    BY AfterIsStage DEF WorkSet
  <2> QED BY <2>1, <2>2, <2>3, ContentsFail, UpdateKeeps
<1>2. CASE SkipContents(d)
  <2>1. prgAt[d] = At("contents", "start") /\ update(d, "contents", "skipped", AfterStage("contents"))
    BY <1>2 DEF SkipContents
  <2>2. prgAt[d] # NotBegun /\ Fitting(Plan, prgList[d], At("contents", "start"))
    BY <2>1, BegunFits
  <2>3. AfterStage("contents") # NotBegun /\ AfterStage("contents") # Ended
    BY AfterIsStage DEF WorkSet
  <2> QED BY <2>1, <2>2, <2>3, ContentsSkipped, UpdateKeeps
<1>3. CASE NothingToPlace(d)
  <2>1. prgAt[d] = At("resolve", "start") /\ update(d, "resolve", "done", At("split", "end"))
    BY <1>3 DEF NothingToPlace
  <2>2. prgAt[d] # NotBegun /\ Fitting(Plan, prgList[d], At("resolve", "start"))
    BY <2>1, BegunFits
  <2>3. At("split", "end") # NotBegun /\ At("split", "end") # Ended
    BY SomeStage
  <2> QED BY <2>1, <2>2, <2>3, PlacingSkipped, UpdateKeeps
<1>4. CASE SkipPages(d)
  <2>1. prgAt[d] = At("pages", "end") /\ update(d, "pages", "skipped", Ended)
    BY <1>4 DEF SkipPages
  <2>2. prgAt[d] # NotBegun /\ Fitting(Plan, prgList[d], At("pages", "end"))
    BY <2>1, BegunFits
  <2> DEFINE new == [prgList[d] EXCEPT !["pages"] = "skipped"]
  <2>3. ListType(Plan, new) /\ Possible(new) /\ NothingRuns(new)
    <3>1. "skipped" \in Closed
      BY DEF Closed
    <3> QED BY <2>2, <3>1, PagesEnd
  <2>4. Fitting(Plan, new, Ended) /\ Ended # NotBegun
    BY <2>3, AtFields DEF Fitting
  <2> QED BY <2>1, <2>2, <2>3, <2>4, UpdateKeeps
<1> QED BY <1>1, <1>2, <1>3, <1>4

\* The delivery begins to parse, with its time in the queue or without.
LEMMA QueueKeeps ==
  ASSUME PrgInv, NEW d \in PrgDeliverySet, QueuedSpan(d) \/ QueuedUnknown(d)
  PROVE  PrgInv'
<1> DEFINE list == prgList[d]
           new == [list EXCEPT !["queued"] = "done"]
<1>1. prgAt[d] = At("queued", "start")
  BY DEF QueuedSpan, QueuedUnknown
<1>2. prgAt[d] # NotBegun /\ Fitting(Plan, list, At("queued", "start"))
  BY <1>1, BegunFits
<1>3. ListType(Plan, list) /\ \A s \in Plan : list[s] = "pending"
  BY <1>2, PlacedQueue
<1>4. At("parse", "start") # NotBegun /\ At("parse", "start") # Ended
  BY SomeStage
<1>5. "parse" \in Plan /\ "queued" \in Plan /\ "parse" \in WorkSet /\ Precedes("parse", "contents") /\ "parse" # "queued"
  BY PlanStages DEF Plan, WorkSet, Precedes
<1>6. ASSUME NEW any, ListType(Plan, any), \A s \in Plan : s # "queued" => any[s] = "pending"
      PROVE  Fitting(Plan, any, At("parse", "start"))
  <2>1. "queued" \notin TopSet /\ "queued" \notin PhaseSet /\ \A t \in TopSet : ~Precedes(t, "parse")
    BY DEF TopSet, PhaseSet, Precedes
  <2>2. ClosedTo(Plan, any, "parse") /\ FreshFrom(Plan, any, "parse") /\ PhasesFresh(Plan, any)
    BY <1>6, <2>1 DEF ClosedTo, FreshFrom, PhasesFresh
  <2>3. AtWork(Plan, any, At("parse", "start"))
    BY <1>5, <1>6, <2>2 DEF AtWork
  <2> QED BY <1>6, <2>3 DEF Fitting
<1>7. CASE QueuedSpan(d)
  <2>1. "done" \in StageStates
    BY DEF StageStates, Closed
  <2>2. ListType(Plan, new) /\ \A s \in Plan : s # "queued" => new[s] = list[s]
    BY <1>3, <1>5, <2>1, Updated
  <2>3. Fitting(Plan, new, At("parse", "start"))
    BY <1>3, <1>6, <2>2
  <2>4. update(d, "queued", "done", At("parse", "start"))
    BY <1>7 DEF QueuedSpan
  <2> QED BY <1>2, <1>4, <2>3, <2>4, UpdateKeeps
<1>8. CASE QueuedUnknown(d)
  <2>1. GoTo(d, At("parse", "start"))
    BY <1>8 DEF QueuedUnknown
  <2>2. Fitting(Plan, list, At("parse", "start"))
    BY <1>3, <1>6
  <2> QED BY <1>2, <1>4, <2>1, <2>2, GoToKeeps
<1> QED BY <1>7, <1>8

\* The status is written, or it cannot be and the run is over.
LEMMA StatusKeeps ==
  ASSUME PrgInv, NEW d \in PrgDeliverySet, StatusFails(d) \/ BecomeReady(d)
  PROVE  PrgInv'
<1> DEFINE list == prgList[d]
<1>1. CASE StatusFails(d)
  <2>1. PICK s \in {"parse", "summaries", "ready"} : prgAt[d] = At(s, "start") /\ GoTo(d, Ended)
    BY <1>1 DEF StatusFails
  <2>2. prgAt[d] # NotBegun /\ Fitting(Plan, list, At(s, "start"))
    BY <2>1, BegunFits
  <2>3. NothingRuns(list) /\ Possible(list) /\ ListType(Plan, list)
    BY <2>2, StatusStops, FittingPossible DEF Fitting
  <2>4. Fitting(Plan, list, Ended) /\ Ended # NotBegun
    BY <2>3, AtFields DEF Fitting
  <2> QED BY <2>1, <2>2, <2>3, <2>4, GoToKeeps
<1>2. CASE BecomeReady(d)
  <2> DEFINE next == IF "pages" \in planFor(prgJob) THEN At("pages", "start") ELSE Ended
  <2>1. prgAt[d] = At("ready", "start") /\ GoTo(d, next)
    BY <1>2 DEF BecomeReady
  <2>2. prgAt[d] # NotBegun /\ Fitting(Plan, list, At("ready", "start"))
    BY <2>1, BegunFits
  <2>3. /\ ListType(Plan, list) /\ ClosedTo(Plan, list, "pages") /\ PhasesOver(Plan, list)
        /\ "pages" \in Plan => list["pages"] = "pending"
    BY <2>2, PlacedReady
  <2>4. NothingRuns(list) /\ Possible(list)
    BY <2>2, StatusStops, FittingPossible
  <2>5. CASE "pages" \in Plan
    <3>1. next = At("pages", "start") /\ next # NotBegun /\ next # Ended
      BY <2>5, SomeStage DEF Plan
    <3>2. AtReady(Plan, list, At("pages", "start"))
      BY <2>3, <2>5 DEF AtReady
    <3>3. Fitting(Plan, list, next)
      BY <2>3, <3>1, <3>2 DEF Fitting
    <3> QED BY <2>1, <2>2, <3>1, <3>3, GoToKeeps
  <2>6. CASE "pages" \notin Plan
    <3>1. next = Ended /\ Ended # NotBegun
      BY <2>6, AtFields DEF Plan
    <3>2. Fitting(Plan, list, next)
      BY <2>3, <2>4, <3>1 DEF Fitting
    <3> QED BY <2>1, <2>2, <2>4, <3>1, <3>2, GoToKeeps
  <2> QED BY <2>5, <2>6
<1> QED BY <1>1, <1>2

\* A delivery begins with everything pending.
LEMMA NewKeeps ==
  ASSUME PrgInv, NEW d \in PrgDeliverySet, NewProgress(d)
  PROVE  PrgInv'
<1> DEFINE fresh == [s \in Plan |-> "pending"]
<1>1. /\ prgList' = [prgList EXCEPT ![d] = fresh] /\ prgDirty' = prgDirty \cup {d}
      /\ prgAt' = [prgAt EXCEPT ![d] = At("queued", "start")]
      /\ UNCHANGED <<prgJob, prgStored, prgCrashed, prgLost>>
  BY DEF NewProgress, Plan
<1>2. At("queued", "start") # NotBegun /\ At("queued", "start") # Ended
  BY SomeStage
<1>3. Fitting(Plan, fresh, At("queued", "start"))
  <2>1. "queued" \in Plan /\ "pending" \in StageStates
    BY PlanStages DEF Plan, StageStates
  <2>2. ListType(Plan, fresh)
    BY <2>1 DEF ListType
  <2>3. AtQueue(Plan, fresh, At("queued", "start"))
    BY DEF AtQueue
  <2> QED BY <2>2, <2>3 DEF Fitting
<1> HIDE DEF fresh
<1>4. /\ prgAt'[d] = At("queued", "start") /\ prgList'[d] = fresh
      /\ \A e \in PrgDeliverySet \ {d} : prgAt'[e] = prgAt[e] /\ prgList'[e] = prgList[e]
      /\ prgAt' = [e \in PrgDeliverySet |-> prgAt'[e]] /\ prgList' = [e \in PrgDeliverySet |-> prgList'[e]]
  BY <1>1 DEF PrgInv
<1>5. Plan' = Plan
  BY <1>1 DEF Plan
<1>6. Delivered(d)'
  BY <1>2, <1>3, <1>4, <1>5 DEF Delivered
<1>7. ASSUME NEW e \in PrgDeliverySet \ {d} PROVE (prgAt[e] = NotBegun \/ Delivered(e))'
  BY <1>1, <1>4, <1>5 DEF PrgInv, Delivered
<1>8. ASSUME prgStored # <<>>, prgCrashed = {}, prgLost = 0
      PROVE  \E e \in PrgDeliverySet : prgAt'[e] # NotBegun /\ (e \in prgDirty' \/ prgStored = prgList'[e])
  BY <1>1, <1>2, <1>4
<1>9. \A e \in prgDirty' : prgAt'[e] # NotBegun
  BY <1>1, <1>2, <1>4 DEF PrgInv
<1> QED BY <1>1, <1>4, <1>6, <1>7, <1>8, <1>9 DEF PrgInv

\* The list is written, the write fails, or the worker dies.
LEMMA WriteKeeps ==
  ASSUME PrgInv, NEW d \in PrgDeliverySet, flush(d) \/ FlushFails(d) \/ Crash(d)
  PROVE  PrgInv'
<1>1. CASE flush(d)
  <2>1. /\ d \in prgDirty /\ prgDirty' = prgDirty \ {d} /\ prgStored' = prgList[d]
        /\ UNCHANGED <<prgJob, prgAt, prgList, prgCrashed, prgLost>>
    BY <1>1 DEF flush
  <2>2. prgAt[d] # NotBegun /\ Delivered(d)
    BY <2>1 DEF PrgInv
  <2>3. Possible(prgList[d])
    BY <2>2, FittingPossible DEF Delivered
  <2>4. ASSUME NEW e \in PrgDeliverySet PROVE (prgAt[e] = NotBegun \/ Delivered(e))'
    BY <2>1 DEF PrgInv, Delivered, Plan
  <2> QED BY <2>1, <2>2, <2>3, <2>4 DEF PrgInv
<1>2. CASE FlushFails(d)
  <2>1. /\ prgDirty' = prgDirty \ {d} /\ prgLost' = prgLost + 1
        /\ UNCHANGED <<prgJob, prgAt, prgList, prgStored, prgCrashed>>
    BY <1>2 DEF FlushFails
  <2>2. prgLost' \in Nat /\ prgLost' # 0
    BY <2>1 DEF PrgInv
  <2>3. ASSUME NEW e \in PrgDeliverySet PROVE (prgAt[e] = NotBegun \/ Delivered(e))'
    BY <2>1 DEF PrgInv, Delivered, Plan
  <2> QED BY <2>1, <2>2, <2>3 DEF PrgInv
<1>3. CASE Crash(d)
  <2>1. /\ prgAt[d] # NotBegun /\ prgCrashed' = prgCrashed \cup {d} /\ prgDirty' = prgDirty \ {d}
        /\ prgAt' = [prgAt EXCEPT ![d] = Ended] /\ UNCHANGED <<prgJob, prgList, prgStored, prgLost>>
    BY <1>3 DEF Crash
  <2>2. /\ prgAt'[d] = Ended /\ \A e \in PrgDeliverySet \ {d} : prgAt'[e] = prgAt[e]
        /\ prgAt' = [e \in PrgDeliverySet |-> prgAt'[e]] /\ Ended # NotBegun
    BY <2>1, AtFields DEF PrgInv
  <2>3. Plan' = Plan
    BY <2>1 DEF Plan
  <2>4. Fitting(Plan, prgList[d], Ended)
    <3>1. Fitting(Plan, prgList[d], prgAt[d])
      BY <2>1 DEF PrgInv, Delivered
    <3>2. Possible(prgList[d]) /\ ListType(Plan, prgList[d])
      BY <3>1, FittingPossible DEF Fitting
    <3> QED BY <3>2 DEF Fitting
  <2>5. Delivered(d)'
    BY <2>1, <2>2, <2>3, <2>4 DEF Delivered
  <2>6. ASSUME NEW e \in PrgDeliverySet \ {d} PROVE (prgAt[e] = NotBegun \/ Delivered(e))'
    BY <2>1, <2>2, <2>3 DEF PrgInv, Delivered
  <2>7. prgCrashed' # {}
    BY <2>1
  <2> QED BY <2>1, <2>2, <2>5, <2>6, <2>7 DEF PrgInv
<1> QED BY <1>1, <1>2, <1>3

\* Nothing has begun and nothing is written.
LEMMA PrgStart == ASSUME PrgBlank PROVE PrgInv
BY DEF PrgBlank, PrgInv

\* Every step keeps the invariant.
LEMMA PrgStep == ASSUME PrgInv, [PrgNext]_prgVars PROVE PrgInv'
<1>1. CASE UNCHANGED prgVars
  BY <1>1 DEF prgVars, PrgInv, Delivered, Plan
<1>2. CASE PrgNext
  BY <1>2, NewKeeps, QueueKeeps, StartKeeps, DoneKeeps, FailKeeps, ContentsKeep, StatusKeeps, WriteKeeps DEF PrgNext
<1> QED BY <1>1, <1>2

\* The row tells what the invariant says.
LEMMA PrgTells == ASSUME PrgInv PROVE ProgressTells
<1>1. SUFFICES ASSUME prgStored # <<>>
               PROVE  /\ PossibleList(prgStored)
                      /\ PrgEnded /\ prgCrashed = {} /\ prgLost = 0 => NothingRuns(prgStored)
  BY DEF ProgressTells
<1>2. PossibleList(prgStored)
  BY <1>1, PossibleIsList DEF PrgInv
<1>3. ASSUME PrgEnded, prgCrashed = {}, prgLost = 0 PROVE NothingRuns(prgStored)
  <2>1. PICK e \in PrgDeliverySet : prgAt[e] # NotBegun /\ (e \in prgDirty \/ prgStored = prgList[e])
    BY <1>1, <1>3 DEF PrgInv
  <2>2. prgStored = prgList[e] /\ prgAt[e] = Ended
    BY <1>3, <2>1 DEF PrgEnded
  <2> QED BY <1>3, <2>1, <2>2 DEF PrgInv, Delivered
<1> QED BY <1>2, <1>3

-----------------------------------------------------------------------------
\* What a reader of the row is told of an ingest is possible at every moment,
\* for every payload and any number of deliveries, crashes and lost writes;
\* and when all deliveries ended alive and were heard, nothing is running.
THEOREM ContentProgress == ContentSpec => []ProgressTells
<1>1. ContentInit => PrgInv
  BY PrgStart DEF ContentInit, PrgIdle, PrgInit
<1>2. PrgInv /\ [ContentNext]_contentVars => PrgInv'
  <2>1. [ContentNext]_contentVars => [PrgNext]_prgVars
    BY DEF ContentNext, contentVars, prgVars
  <2> QED BY <2>1, PrgStep
<1>3. PrgInv => ProgressTells
  BY PrgTells
<1> QED BY <1>1, <1>2, <1>3, PTL DEF ContentSpec
====
