------------------------- MODULE IngestStagesProofs -------------------------
(***************************************************************************)
(* Proofs about IngestStages, for any finite tree of sections, any slots,  *)
(* with or without HyDE and axes, and any number of deliveries and         *)
(* failures.                                                               *)
(***************************************************************************)
EXTENDS IngestStages, Integers, FiniteSetTheorems, WellFoundedInduction, TLAPS

-----------------------------------------------------------------------------
(***************************************************************************)
(* There is a deepest layer.                                               *)
(***************************************************************************)
\* The order of the naturals is a well-founded relation.
LEMMA NatOrder ==
  \E R : IsWellFoundedOn(R, Nat) /\ \A x, y \in Nat : x < y => <<x, y>> \in R
<1> DEFINE R == OpToRel(<, Nat)
<1>1. IsWellFoundedOn(R, Nat)
  BY NatLessThanWellFounded, Zenon
<1>2. \A x, y \in Nat : x < y => <<x, y>> \in R
  BY DEF OpToRel
<1> QED BY <1>1, <1>2, Zenon

\* A set of naturals has a least element.
LEMMA LeastNatural ==
  ASSUME NEW T \in SUBSET Nat, T # {}
  PROVE  \E x \in T : \A y \in T : x <= y
<1>1. PICK R : IsWellFoundedOn(R, Nat) /\ \A x, y \in Nat : x < y => <<x, y>> \in R
  BY NatOrder
<1>2. IsWellFoundedOn(R, Nat) /\ T \subseteq Nat
  BY <1>1
<1>3. PICK x \in T : \A y \in T : ~(<<y, x>> \in R)
  BY <1>2, WFMin, Zenon
<1>4. ASSUME NEW y \in T PROVE x <= y
  <2>1. ~(<<y, x>> \in R) /\ x \in Nat /\ y \in Nat
    BY <1>3
  <2>2. ~(y < x)
    BY <1>1, <2>1, Zenon
  <2> QED BY <2>1, <2>2
<1> QED BY <1>4

\* A finite non-empty set of sections has one of greatest depth: one with the
\* fewest sections below it.
LEMMA DeepestSection ==
  ASSUME Sections # {}
  PROVE  \E s \in Sections : \A t \in Sections : Depth[t] <= Depth[s]
<1> DEFINE Below(s) == {t \in Sections : Depth[t] > Depth[s]}
           Counts == {Cardinality(Below(s)) : s \in Sections}
<1>0. Depth \in [Sections -> Nat] /\ IsFiniteSet(Sections)
  BY StagesAssumption DEF StagesAssumption
<1>1. \A s \in Sections : IsFiniteSet(Below(s)) /\ Cardinality(Below(s)) \in Nat
  <2> SUFFICES ASSUME NEW s \in Sections
               PROVE  IsFiniteSet(Below(s)) /\ Cardinality(Below(s)) \in Nat
    OBVIOUS
  <2>1. Below(s) \in SUBSET Sections
    OBVIOUS
  <2> HIDE DEF Below
  <2> QED BY <1>0, <2>1, FS_Subset, FS_CardinalityType
<1>2. Counts \in SUBSET Nat /\ Counts # {}
  BY <1>1
<1>3. PICK c \in Counts : \A d \in Counts : c <= d
  <2> HIDE DEF Counts
  <2> QED BY <1>2, LeastNatural
<1>4. PICK s \in Sections : c = Cardinality(Below(s))
  BY <1>3
<1>5. ASSUME NEW t \in Sections, Depth[t] > Depth[s]
      PROVE  FALSE
  <2>1. Below(t) \in SUBSET Below(s) /\ t \in Below(s) /\ t \notin Below(t)
    BY <1>0, <1>5
  <2>2. Cardinality(Below(s)) <= Cardinality(Below(t))
    BY <1>3, <1>4
  <2> HIDE DEF Below
  <2>3. Cardinality(Below(t)) <= Cardinality(Below(s))
    BY <1>1, <2>1, FS_Subset
  <2>4. Cardinality(Below(s)) = Cardinality(Below(t))
    BY <1>1, <2>2, <2>3
  <2>5. Below(s) = Below(t)
    BY <1>1, <2>1, <2>4, FS_Subset
  <2> QED BY <2>1, <2>5
<1> QED BY <1>0, <1>5

\* MaxDepth is what its name says.
LEMMA MaxDepthIsMax ==
  MaxDepth \in Nat /\ \A s \in Sections : Depth[s] <= MaxDepth
<1>0. Depth \in [Sections -> Nat]
  BY StagesAssumption DEF StagesAssumption
<1>1. \E m \in {0} \cup {Depth[s] : s \in Sections} : \A s \in Sections : Depth[s] <= m
  BY DeepestSection
<1>2. /\ MaxDepth \in {0} \cup {Depth[s] : s \in Sections}
      /\ \A s \in Sections : Depth[s] <= MaxDepth
  BY <1>1 DEF MaxDepth
<1> QED BY <1>0, <1>2

-----------------------------------------------------------------------------
(***************************************************************************)
(* The inductive invariant of the slots: goroutines run one layer after    *)
(* the other, none outlives its stage, and the slots count those inside.   *)
(***************************************************************************)
Inside == {"slot", "llm", "write", "axes"}
Idle == {"none", "over"}
At(st, steps) == {s \in Sections : task[st][s] \in steps}

\* A stage that has not listed its sections has no goroutines; one that is
\* done has none left.
StageTasks ==
  \A st \in Stages : \A s \in Sections :
    /\ stage[st] = "list" => task[st][s] = "none"
    /\ stage[st] = "done" => task[st][s] \in Idle

\* summarize starts at the deepest layer; the layers above wait and those
\* below are over.
LayersInOrder ==
  /\ stage["summarize"] = "list" => layer = MaxDepth
  /\ stage["summarize"] = "run" =>
       \A s \in Sections :
         /\ Depth[s] < layer => task["summarize"][s] \in {"none", "queued"}
         /\ Depth[s] > layer => task["summarize"][s] \in Idle


StagesInv ==
  /\ TypeOK
  /\ held \in [Stages -> Nat]
  /\ StageTasks
  /\ LayersInOrder
  /\ SlotsBalance

-----------------------------------------------------------------------------
(***************************************************************************)
(* What the summaries of the present delivery are made from.               *)
(***************************************************************************)
\* While summarize runs, every summary was listed or is one it computed.
SummariesKnown ==
  /\ stage["summarize"] = "run" => summary \subseteq listed \cup computed
  /\ \A s \in Sections : task["summarize"][s] = "write" => s \in computed

\* A section at work knows every child that has a summary.
WorkersSeeChildren ==
  \A s \in Sections :
    task["summarize"][s] \in {"slot", "llm", "write"} =>
      Children(s) \cap summary \subseteq madeOf[s]

\* A summary of this delivery was written by a goroutine past its write.
MadeNow ==
  \A s \in Sections :
    madeIn[s] <= runs /\ (madeIn[s] = runs => task["summarize"][s] \in {"axes", "over"})

ChildrenInv == SummariesKnown /\ WorkersSeeChildren /\ MadeNow /\ ParentSeesChildren

\* Unless an error was collected, the document deleted or the context ended,
\* a section whose goroutine is past its write, or never had one, has its
\* summary, and its axes once the goroutine is over.
NoGapYet ==
  /\ stage["summarize"] # "list" /\ "summarize" \notin errs
  /\ alive /\ ~cancelled
  => \A s \in Sections :
       /\ task["summarize"][s] \in {"none", "axes", "over"} => s \in summary
       /\ task["summarize"][s] = "over" /\ SummaryAxesEnabled /\ madeIn[s] = runs => s \in axes

GapInv == NoGapYet /\ NoSilentGap

-----------------------------------------------------------------------------
(***************************************************************************)
(* Counting goroutines.                                                    *)
(***************************************************************************)
One(b) == IF b THEN 1 ELSE 0

\* Any set of goroutines of a stage can be counted.
LEMMA AtFinite ==
  ASSUME NEW S \in SUBSET Sections
  PROVE  IsFiniteSet(S) /\ Cardinality(S) \in Nat
BY StagesAssumption, FS_Subset, FS_CardinalityType DEF StagesAssumption

\* A goroutine that moves changes the steps of no other.
LEMMA GotoShape ==
  ASSUME TypeOK, NEW st \in Stages, NEW s \in Sections, NEW step \in TaskStep,
         Goto(st, s, step)
  PROVE  /\ task' \in [Stages -> Tasks]
         /\ task'[st][s] = step
         /\ \A u \in Stages : \A x \in Sections :
              u # st \/ x # s => task'[u][x] = task[u][x]
BY DEF TypeOK, Goto, Tasks

\* It is counted where it comes and no longer where it goes from.
LEMMA CountMove ==
  ASSUME TypeOK, NEW st \in Stages, NEW s \in Sections, NEW step \in TaskStep,
         Goto(st, s, step), NEW steps
  PROVE  /\ \A u \in Stages \ {st} : At(u, steps)' = At(u, steps)
         /\ Cardinality(At(st, steps)') =
              Cardinality(At(st, steps)) + One(step \in steps) - One(task[st][s] \in steps)
         /\ task[st][s] \in steps => Cardinality(At(st, steps)) >= 1
         /\ \A u \in Stages : Cardinality(At(u, steps)) \in Nat
<1> DEFINE A == At(st, steps)
           B == At(st, steps)'
<1>1. A \in SUBSET Sections /\ \A u \in Stages : At(u, steps) \in SUBSET Sections
  BY DEF At
<1>2. \A u \in Stages \ {st} : At(u, steps)' = At(u, steps)
  BY GotoShape DEF At
<1>3. /\ B = IF step \in steps THEN A \cup {s} ELSE A \ {s}
      /\ s \in A <=> task[st][s] \in steps
  BY GotoShape DEF At
<1> HIDE DEF A, B
<1>4. IsFiniteSet(A) /\ Cardinality(A) \in Nat
  BY <1>1, AtFinite
<1>5. Cardinality(B) = Cardinality(A) + One(step \in steps) - One(s \in A)
  <2>1. Cardinality(A \cup {s}) = IF s \in A THEN Cardinality(A) ELSE Cardinality(A) + 1
    BY <1>4, FS_AddElement
  <2>2. Cardinality(A \ {s}) = IF s \in A THEN Cardinality(A) - 1 ELSE Cardinality(A)
    BY <1>4, FS_RemoveElement
  <2> QED BY <1>3, <1>4, <2>1, <2>2 DEF One
<1>6. s \in A => Cardinality(A) >= 1
  <2>1. s \in A => Cardinality(A) # 0
    BY <1>4, FS_EmptySet
  <2> QED BY <1>4, <2>1
<1> QED BY <1>1, <1>2, <1>3, <1>5, <1>6, AtFinite DEF A, B

\* What SlotsBalance says, by stage.
LEMMA Balance ==
  SlotsBalance <=>
    /\ \A st \in Stages : held[st] = Cardinality(At(st, Inside))
    /\ inflight = Cardinality(At("summarize", {"llm"})) + Cardinality(At("hyde", {"llm"}))
BY DEF SlotsBalance, At, Inside

\* Everything the type invariant says but of goroutines and slots.
RestType ==
  /\ summary \subseteq Sections /\ axes \subseteq Sections /\ questions \subseteq Sections
  /\ madeIn \in [Sections -> 0..MaxRuns]
  /\ madeOf \in [Sections -> SUBSET Sections]
  /\ stage \in [Stages -> {"list", "run", "done"}]
  /\ listed \subseteq Sections
  /\ layer \in 0..MaxDepth
  /\ computed \subseteq Sections
  /\ errs \subseteq Stages
  /\ cancelled \in BOOLEAN /\ alive \in BOOLEAN
  /\ runs \in 1..MaxRuns
  /\ failures \in 0..MaxFailures

SlotsType ==
  /\ \A st \in Stages : held[st] \in 0..Concurrency[st]
  /\ inflight \in Nat /\ (GlobalLLM > 0 => inflight <= GlobalLLM)

\* The type invariant has these parts.
LEMMA TypeParts == TypeOK <=> RestType /\ SlotsType /\ task \in [Stages -> Tasks]
BY DEF TypeOK, RestType, SlotsType

\* A goroutine inside belongs to a running stage, and to its layer.
LEMMA InsideRuns ==
  ASSUME StagesInv, NEW st \in Stages, NEW s \in Sections, task[st][s] \in Inside
  PROVE  Started(st, s)
<1>1. stage[st] = "run"
  BY DEF StagesInv, StageTasks, TypeOK, Inside, Idle
<1>2. st = "summarize" => Depth[s] = layer
  BY <1>1, StagesAssumption, MaxDepthIsMax
  DEF StagesInv, LayersInOrder, TypeOK, Inside, Idle, StagesAssumption
<1> QED BY <1>1, <1>2 DEF Started

\* A step of one goroutine that takes and gives back the slots its old and
\* new steps stand for keeps the invariant.
LEMMA MoveKeeps ==
  ASSUME StagesInv, NEW st \in Stages, NEW s \in Sections,
         NEW step \in Inside \cup {"over"}, Started(st, s), Goto(st, s, step),
         RestType', UNCHANGED <<stage, layer>>,
         held' \in [Stages -> Int],
         held'[st] = held[st] + One(step \in Inside) - One(task[st][s] \in Inside),
         \A u \in Stages \ {st} : held'[u] = held[u],
         inflight' = inflight + One(step = "llm") - One(task[st][s] = "llm"),
         step \in Inside /\ task[st][s] \notin Inside => held[st] < Concurrency[st],
         step = "llm" => SlotFree
  PROVE  StagesInv'
<1>0. TypeOK /\ step \in TaskStep /\ Stages = {"summarize", "hyde"}
  BY DEF StagesInv, TaskStep, Inside, Stages
<1>1. \A u \in Stages : held'[u] = Cardinality(At(u, Inside)')
  BY <1>0, CountMove, Balance DEF StagesInv
<1>2. inflight' = Cardinality(At("summarize", {"llm"})') + Cardinality(At("hyde", {"llm"})')
  <2>1. inflight = Cardinality(At("summarize", {"llm"})) + Cardinality(At("hyde", {"llm"}))
    BY Balance DEF StagesInv
  <2>2. /\ \A u \in Stages \ {st} : At(u, {"llm"})' = At(u, {"llm"})
        /\ Cardinality(At(st, {"llm"})') =
             Cardinality(At(st, {"llm"})) + One(step \in {"llm"}) - One(task[st][s] \in {"llm"})
        /\ \A u \in Stages : Cardinality(At(u, {"llm"})) \in Nat
    BY <1>0, CountMove
  <2>3. One(step \in {"llm"}) = One(step = "llm") /\ One(task[st][s] \in {"llm"}) = One(task[st][s] = "llm")
    BY DEF One
  <2>4. CASE st = "summarize"
    BY <1>0, <2>1, <2>2, <2>3, <2>4 DEF One
  <2>5. CASE st = "hyde"
    BY <1>0, <2>1, <2>2, <2>3, <2>5 DEF One
  <2> QED BY <1>0, <2>4, <2>5
<1>3. SlotsBalance'
  BY <1>1, <1>2 DEF SlotsBalance, At, Inside
<1>4. At(st, Inside)' \in SUBSET Sections /\ \A u \in Stages : At(u, {"llm"})' \in SUBSET Sections
  BY DEF At
<1>5. held'[st] \in Nat /\ inflight' \in Nat
  BY <1>0, <1>1, <1>2, <1>4, AtFinite
<1>6. held' \in [Stages -> Nat]
  BY <1>0, <1>5 DEF StagesInv
<1>7. SlotsType'
  <2>1. held'[st] \in 0..Concurrency[st]
    BY <1>0, <1>5, StagesAssumption DEF TypeOK, One, StagesAssumption
  <2>2. GlobalLLM > 0 => inflight' <= GlobalLLM
    BY <1>0, <1>5, StagesAssumption DEF TypeOK, One, SlotFree, StagesAssumption
  <2> QED BY <1>0, <1>5, <2>1, <2>2 DEF SlotsType, TypeOK
<1>8. task' \in [Stages -> Tasks]
  BY <1>0, GotoShape
<1>9. TypeOK'
  BY <1>7, <1>8 DEF TypeOK, RestType, SlotsType
<1>10. StageTasks'
  BY <1>0, GotoShape DEF StagesInv, StageTasks, Started
<1>11. LayersInOrder'
  <2>1. Depth \in [Sections -> Nat] /\ layer \in Nat
    BY <1>0, StagesAssumption, MaxDepthIsMax DEF TypeOK, StagesAssumption
  <2>2. \A x \in Sections : x # s \/ st # "summarize" =>
          task'["summarize"][x] = task["summarize"][x]
    BY <1>0, GotoShape
  <2>3. st = "summarize" => Depth[s] = layer
    BY DEF Started
  <2> QED BY <2>1, <2>2, <2>3 DEF StagesInv, LayersInOrder
<1> QED BY <1>3, <1>6, <1>9, <1>10, <1>11 DEF StagesInv

\* The steps that take slots.
LEMMA TakeSlots ==
  ASSUME StagesInv, NEW st \in Stages, NEW s \in Sections, Slot(st, s) \/ Acquire(st, s)
  PROVE  StagesInv'
<1>0. TypeOK /\ RestType /\ held \in [Stages -> Nat]
  BY TypeParts DEF StagesInv
<1> USE DEF rows, world
<1>1. CASE Slot(st, s)
  <2>1. madeOf' \in [Sections -> SUBSET Sections]
    BY <1>0, <1>1 DEF Slot, RestType, Children
  <2>2. RestType'
    BY <1>0, <1>1, <2>1 DEF Slot, RestType
  <2>3. "slot" \in Inside /\ "slot" # "llm" /\ task[st][s] \notin Inside /\ task[st][s] # "llm"
    BY <1>1 DEF Slot, Inside
  <2>4. /\ held' \in [Stages -> Int] /\ held'[st] = held[st] + 1
        /\ \A u \in Stages \ {st} : held'[u] = held[u]
        /\ inflight' = inflight /\ inflight \in Nat
    BY <1>0, <1>1 DEF Slot, TypeOK
  <2>5. /\ held'[st] = held[st] + One("slot" \in Inside) - One(task[st][s] \in Inside)
        /\ inflight' = inflight + One("slot" = "llm") - One(task[st][s] = "llm")
    BY <1>0, <2>3, <2>4 DEF One
  <2> QED BY <1>1, <2>2, <2>3, <2>4, <2>5, MoveKeeps DEF Slot
<1>2. CASE Acquire(st, s)
  <2>1. RestType'
    BY <1>0, <1>2 DEF Acquire, RestType
  <2>2. "llm" \in Inside /\ task[st][s] \in Inside /\ task[st][s] # "llm"
    BY <1>2 DEF Acquire, Inside
  <2>3. held' = held /\ held' \in [Stages -> Int] /\ inflight' = inflight + 1 /\ inflight \in Nat
    BY <1>0, <1>2 DEF Acquire, TypeOK
  <2>4. /\ held'[st] = held[st] + One("llm" \in Inside) - One(task[st][s] \in Inside)
        /\ inflight' = inflight + One("llm" = "llm") - One(task[st][s] = "llm")
    BY <1>0, <2>2, <2>3 DEF One
  <2> QED BY <1>2, <2>1, <2>2, <2>3, <2>4, InsideRuns, MoveKeeps DEF Acquire
<1> QED BY <1>1, <1>2

\* A failing call is counted.
LEMMA FailureType ==
  ASSUME RestType, Failure \/ UNCHANGED failures
  PROVE  failures' \in 0..MaxFailures
BY StagesAssumption DEF RestType, Failure, StagesAssumption

\* The steps on which a goroutine gives up or its call returns.
LEMMA LeaveCall ==
  ASSUME StagesInv, NEW st \in Stages, NEW s \in Sections,
         GiveUp(st, s) \/ Called(st, s) \/ CallFailed(st, s)
  PROVE  StagesInv'
<1>0. TypeOK /\ RestType /\ held \in [Stages -> Nat] /\ inflight \in Nat
  BY TypeParts DEF StagesInv, TypeOK
<1>i. "over" \notin Inside /\ "queued" \notin Inside /\ {"slot", "llm", "write"} \subseteq Inside
  BY DEF Inside
<1> USE DEF rows, world
<1>1. CASE GiveUp(st, s)
  <2>1. RestType'
    BY <1>0, <1>1 DEF GiveUp, RestType
  <2>2. Started(st, s)
    BY <1>1, <1>i, InsideRuns DEF GiveUp
  <2>3. /\ held' \in [Stages -> Int]
        /\ held'[st] = held[st] + One("over" \in Inside) - One(task[st][s] \in Inside)
        /\ \A u \in Stages \ {st} : held'[u] = held[u]
        /\ inflight' = inflight + One("over" = "llm") - One(task[st][s] = "llm")
    BY <1>0, <1>1, <1>i DEF GiveUp, One
  <2> QED BY <1>1, <1>i, <2>1, <2>2, <2>3, MoveKeeps DEF GiveUp
<1>2. CASE Called(st, s)
  <2>1. RestType'
    BY <1>0, <1>2 DEF Called, RestType
  <2>2. /\ held' \in [Stages -> Int] /\ held' = held
        /\ held'[st] = held[st] + One("write" \in Inside) - One(task[st][s] \in Inside)
        /\ inflight' = inflight + One("write" = "llm") - One(task[st][s] = "llm")
    BY <1>0, <1>2, <1>i DEF Called, Release, One
  <2> QED BY <1>2, <1>i, <2>1, <2>2, InsideRuns, MoveKeeps DEF Called
<1>3. CASE CallFailed(st, s)
  <2>1. failures' \in 0..MaxFailures
    BY <1>0, <1>3, FailureType DEF CallFailed
  <2>2. RestType'
    BY <1>0, <1>3, <2>1 DEF CallFailed, Note, RestType
  <2>3. /\ held' \in [Stages -> Int]
        /\ held'[st] = held[st] + One("over" \in Inside) - One(task[st][s] \in Inside)
        /\ \A u \in Stages \ {st} : held'[u] = held[u]
        /\ inflight' = inflight + One("over" = "llm") - One(task[st][s] = "llm")
    BY <1>0, <1>3, <1>i DEF CallFailed, Release, One
  <2> QED BY <1>3, <1>i, <2>2, <2>3, InsideRuns, MoveKeeps DEF CallFailed
<1> QED BY <1>1, <1>2, <1>3

\* The writes: the stage's slot is given back with the last of them.
LEMMA WriteRows ==
  ASSUME StagesInv, NEW st \in Stages, NEW s \in Sections,
         Write(st, s) \/ (st = "summarize" /\ WriteAxes(s))
  PROVE  StagesInv'
<1>0. TypeOK /\ RestType /\ held \in [Stages -> Nat] /\ inflight \in Nat
  BY TypeParts DEF StagesInv, TypeOK
<1>i. "over" \notin Inside /\ {"write", "axes"} \subseteq Inside
  BY DEF Inside
<1> USE DEF world
<1>1. CASE Write(st, s)
  <2>1. failures' \in 0..MaxFailures
    BY <1>0, <1>1, FailureType DEF Write, DBOk, DBErr
  <2>2. madeIn' \in [Sections -> 0..MaxRuns]
    BY <1>0, <1>1, StagesAssumption DEF Write, RestType, StagesAssumption
  <2>3. RestType'
    BY <1>0, <1>1, <2>1, <2>2 DEF Write, CollectErr, Note, RestType
  <2> DEFINE more == st = "summarize" /\ SummaryAxesEnabled
             to == IF more THEN "axes" ELSE "over"
  <2>4. /\ held' \in [Stages -> Int]
        /\ held'[st] = held[st] + One(to \in Inside) - One(task[st][s] \in Inside)
        /\ \A u \in Stages \ {st} : held'[u] = held[u]
        /\ inflight' = inflight + One(to = "llm") - One(task[st][s] = "llm")
    BY <1>0, <1>1, <1>i DEF Write, One
  <2>5. Goto(st, s, to) /\ to \in Inside \cup {"over"} /\ to # "llm"
    BY <1>1, <1>i DEF Write
  <2>6. task[st][s] \in Inside /\ UNCHANGED <<stage, layer>>
    BY <1>1, <1>i DEF Write
  <2> HIDE DEF to
  <2> QED BY <2>3, <2>4, <2>5, <2>6, InsideRuns, MoveKeeps
<1>2. CASE st = "summarize" /\ WriteAxes(s)
  <2>1. failures' \in 0..MaxFailures
    BY <1>0, <1>2, FailureType DEF WriteAxes, DBOk, DBErr
  <2>2. RestType'
    BY <1>0, <1>2, <2>1 DEF WriteAxes, CollectErr, Note, RestType
  <2>3. /\ held' \in [Stages -> Int]
        /\ held'[st] = held[st] + One("over" \in Inside) - One(task[st][s] \in Inside)
        /\ \A u \in Stages \ {st} : held'[u] = held[u]
        /\ inflight' = inflight + One("over" = "llm") - One(task[st][s] = "llm")
    BY <1>0, <1>2, <1>i DEF WriteAxes, One
  <2> QED BY <1>2, <1>i, <2>2, <2>3, InsideRuns, MoveKeeps DEF WriteAxes
<1> QED BY <1>1, <1>2

\* The listing queues goroutines; none of them has a slot.
LEMMA ListKeeps ==
  ASSUME StagesInv, NEW st \in Stages, List(st)
  PROVE  StagesInv'
<1>0. /\ TypeOK /\ RestType /\ SlotsType /\ held \in [Stages -> Nat]
      /\ UNCHANGED <<summary, axes, questions, madeIn, madeOf, layer, computed,
                     held, inflight, cancelled, alive, runs>>
      /\ "summarize" \in Stages
  BY TypeParts DEF StagesInv, List, rows, slots, world, Stages
<1>1. failures' \in 0..MaxFailures
  BY <1>0, FailureType DEF List, DBOk, DBErr
<1>2. stage' \in [Stages -> {"list", "run", "done"}] /\ listed' \subseteq Sections /\ errs' \subseteq Stages
  BY <1>0 DEF List, RestType, Note
<1>3. RestType' /\ SlotsType'
  BY <1>0, <1>1, <1>2 DEF RestType, SlotsType
<1>4. \A s \in Sections : task[st][s] = "none"
  BY DEF List, StagesInv, StageTasks
<1>5. /\ task' \in [Stages -> Tasks]
      /\ \A s \in Sections : task'[st][s] \in {"none", "queued"}
      /\ \A u \in Stages \ {st} : task'[u] = task[u]
      /\ stage'[st] = "done" => task' = task
  <2>0. task \in [Stages -> Tasks] /\ stage \in [Stages -> {"list", "run", "done"}]
    BY <1>0 DEF TypeOK
  <2> DEFINE q == [s \in Sections |-> IF s \in Work(st) THEN "queued" ELSE "none"]
  <2>1. q \in Tasks /\ \A s \in Sections : q[s] \in {"none", "queued"}
    BY DEF Tasks, TaskStep
  <2>2. CASE stage' = [stage EXCEPT ![st] = "run"] /\ task' = [task EXCEPT ![st] = q]
    <3> HIDE DEF q
    <3> QED BY <2>0, <2>1, <2>2
  <2>3. CASE UNCHANGED task
    BY <1>4, <2>0, <2>3
  <2> QED BY <2>2, <2>3 DEF List
<1>6. stage'[st] \in {"run", "done"} /\ \A u \in Stages \ {st} : stage'[u] = stage[u]
  BY <1>0 DEF List, TypeOK
<1>7. \A u \in Stages : \A steps \in SUBSET Inside : At(u, steps)' = At(u, steps)
  <2>1. ASSUME NEW u \in Stages, NEW s \in Sections
        PROVE  task'[u][s] = task[u][s] \/ (task'[u][s] \notin Inside /\ task[u][s] \notin Inside)
    BY <1>4, <1>5 DEF Inside
  <2> QED BY <2>1 DEF At
<1>8. SlotsBalance'
  <2>1. \A u \in Stages : At(u, Inside)' = At(u, Inside) /\ At(u, {"llm"})' = At(u, {"llm"})
    BY <1>7 DEF Inside
  <2>2. /\ \A u \in Stages : held'[u] = Cardinality(At(u, Inside)')
        /\ inflight' = Cardinality(At("summarize", {"llm"})') + Cardinality(At("hyde", {"llm"})')
    BY <1>0, <2>1, Balance DEF StagesInv, Stages
  <2> QED BY <2>2 DEF SlotsBalance, At, Inside
<1>9. StageTasks'
  BY <1>4, <1>5, <1>6 DEF StagesInv, StageTasks, Idle
<1>10. LayersInOrder'
  <2>1. CASE st = "summarize"
    <3>1. layer = MaxDepth /\ \A s \in Sections : ~(Depth[s] > layer)
      BY <2>1, MaxDepthIsMax, StagesAssumption
      DEF StagesInv, LayersInOrder, List, StagesAssumption
    <3> QED BY <1>0, <1>5, <1>6, <2>1, <3>1 DEF LayersInOrder
  <2>2. CASE st # "summarize"
    BY <1>0, <1>5, <1>6, <2>2 DEF StagesInv, LayersInOrder
  <2> QED BY <2>1, <2>2
<1> QED BY <1>0, <1>3, <1>5, <1>8, <1>9, <1>10 DEF StagesInv, TypeOK, RestType, SlotsType

\* A layer, or the stage, is left when its last goroutine is over.
LEMMA WaitKeeps ==
  ASSUME StagesInv, NEW st \in Stages, Wait(st)
  PROVE  StagesInv'
<1>0. /\ TypeOK /\ held \in [Stages -> Nat] /\ layer \in Nat /\ Depth \in [Sections -> Nat]
      /\ UNCHANGED <<summary, axes, questions, madeIn, madeOf, listed, task, computed, errs,
                     held, inflight, cancelled, alive, runs, failures>>
  BY MaxDepthIsMax, StagesAssumption
  DEF StagesInv, TypeOK, Wait, rows, slots, world, StagesAssumption
<1>1. stage' \in [Stages -> {"list", "run", "done"}] /\ layer' \in 0..MaxDepth
  <2>1. stage \in [Stages -> {"list", "run", "done"}] /\ layer \in 0..MaxDepth
    BY <1>0 DEF TypeOK
  <2>2. stage' \in [Stages -> {"list", "run", "done"}]
    BY <2>1 DEF Wait
  <2>3. layer' \in 0..MaxDepth
    BY <2>1, MaxDepthIsMax DEF Wait
  <2> QED BY <2>2, <2>3
<1>2. TypeOK'
  BY <1>0, <1>1 DEF TypeOK
<1>3. SlotsBalance'
  BY <1>0 DEF StagesInv, SlotsBalance
<1>4. StageTasks'
  <2>1. ASSUME NEW u \in Stages, NEW s \in Sections, stage'[u] = "done", stage[u] # "done"
        PROVE  task[u][s] \in Idle
    <3>1. u = st /\ stage[st] = "run" /\ (st = "summarize" => layer = 0)
      BY <1>0, <2>1 DEF Wait, TypeOK
    <3>2. st = "summarize" => Depth[s] = layer \/ task[st][s] \in Idle
      BY <1>0, <3>1 DEF StagesInv, LayersInOrder
    <3> QED BY <3>1, <3>2 DEF Wait, Started, Idle
  <2>2. \A u \in Stages : stage'[u] = "list" => stage[u] = "list"
    BY <1>0 DEF Wait, TypeOK
  <2> QED BY <1>0, <2>1, <2>2 DEF StagesInv, StageTasks
<1>5. LayersInOrder'
  <2>1. CASE st = "summarize" /\ layer > 0
    <3>1. layer' = layer - 1 /\ stage' = stage /\ stage["summarize"] = "run"
      BY <2>1 DEF Wait
    <3>2. \A s \in Sections : Depth[s] = layer => task["summarize"][s] \in Idle
      BY <2>1, <3>1 DEF Wait, Started, Idle
    <3>3. ASSUME NEW s \in Sections
          PROVE  /\ Depth[s] < layer' => task["summarize"][s] \in {"none", "queued"}
                 /\ Depth[s] > layer' => task["summarize"][s] \in Idle
      BY <1>0, <3>1, <3>2 DEF StagesInv, LayersInOrder
    <3> QED BY <1>0, <3>1, <3>3 DEF LayersInOrder
  <2>2. CASE ~(st = "summarize" /\ layer > 0)
    <3>1. layer' = layer /\ stage'["summarize"] \in {stage["summarize"], "done"}
      BY <1>0, <2>2 DEF Wait, TypeOK, Stages
    <3> QED BY <1>0, <3>1 DEF StagesInv, LayersInOrder
  <2> QED BY <2>1, <2>2
<1> QED BY <1>0, <1>2, <1>3, <1>4, <1>5 DEF StagesInv

\* A new delivery starts from no goroutines.
LEMMA DeliverShape ==
  ASSUME StagesInv, Deliver
  PROVE  /\ RestType' /\ task' \in [Stages -> Tasks]
         /\ StageTasks' /\ LayersInOrder'
         /\ \A st \in Stages : \A steps \in SUBSET Inside : At(st, steps)' = {}
<1>0. TypeOK /\ MaxDepth \in Nat /\ HyDEEnabled \in BOOLEAN
  BY MaxDepthIsMax, StagesAssumption DEF StagesInv, StagesAssumption
<1>1. stage' \in [Stages -> {"list", "run", "done"}] /\ \A st \in Stages : stage'[st] # "run"
  BY DEF Deliver, Launched
<1>2. runs' \in 1..MaxRuns
  BY <1>0, StagesAssumption DEF Deliver, TypeOK, StagesAssumption
<1>3. RestType'
  <2>1. layer' \in 0..MaxDepth /\ listed' = {} /\ computed' = {} /\ errs' = {} /\ cancelled' = FALSE
    BY <1>0 DEF Deliver
  <2>2. UNCHANGED <<summary, axes, questions, madeIn, madeOf, alive, failures>>
    BY DEF Deliver, rows
  <2> QED BY <1>0, <1>1, <1>2, <2>1, <2>2 DEF RestType, TypeOK
<1>4. task' \in [Stages -> Tasks] /\ \A st \in Stages : \A s \in Sections : task'[st][s] = "none"
  BY DEF Deliver, NoTasks, Tasks, TaskStep
<1>5. StageTasks'
  BY <1>4 DEF StageTasks, Idle
<1>6. LayersInOrder'
  <2>1. stage'["summarize"] # "run"
    BY <1>1 DEF Stages
  <2>2. layer' = MaxDepth
    BY DEF Deliver
  <2> QED BY <2>1, <2>2 DEF LayersInOrder
<1>7. \A st \in Stages : \A steps \in SUBSET Inside : At(st, steps)' = {}
  BY <1>4 DEF At, Inside
<1> QED BY <1>3, <1>4, <1>5, <1>6, <1>7

\* Nobody holds a slot: so say the counts.
LEMMA EmptyBalance ==
  ASSUME \A st \in Stages : \A steps \in SUBSET Inside : At(st, steps) = {}
  PROVE  SlotsBalance <=> (\A st \in Stages : held[st] = 0) /\ inflight = 0
<1>1. \A st \in Stages : Cardinality(At(st, Inside)) = 0 /\ Cardinality(At(st, {"llm"})) = 0
  BY FS_EmptySet DEF Inside
<1> QED BY <1>1, Balance DEF Stages

\* A run that is over holds no slot; a worker that dies takes its own along.
LEMMA DeliverKeeps ==
  ASSUME StagesInv, Redeliver \/ Crash
  PROVE  StagesInv'
<1>1. /\ RestType' /\ task' \in [Stages -> Tasks] /\ StageTasks' /\ LayersInOrder'
      /\ \A st \in Stages : \A steps \in SUBSET Inside : At(st, steps)' = {}
  BY DeliverShape DEF Redeliver, Crash
<1>2. held' \in [Stages -> Nat] /\ (\A st \in Stages : held'[st] = 0) /\ inflight' = 0
  <2>1. CASE Redeliver
    <3>1. \A st \in Stages : \A steps \in SUBSET Inside : At(st, steps) = {}
      BY <2>1 DEF Redeliver, Ended, StagesInv, StageTasks, At, Idle, Inside
    <3>2. (\A st \in Stages : held[st] = 0) /\ inflight = 0
      BY <3>1, EmptyBalance DEF StagesInv
    <3> QED BY <2>1, <3>2 DEF Redeliver, slots, StagesInv
  <2>2. CASE Crash
    BY <2>2 DEF Crash
  <2> QED BY <2>1, <2>2
<1>3. SlotsType'
  BY <1>2, StagesAssumption DEF SlotsType, StagesAssumption
<1>4. SlotsBalance'
  <2>1. \A st \in Stages : Cardinality(At(st, Inside)') = 0 /\ Cardinality(At(st, {"llm"})') = 0
    BY <1>1, FS_EmptySet DEF Inside
  <2>2. /\ \A u \in Stages : held'[u] = Cardinality(At(u, Inside)')
        /\ inflight' = Cardinality(At("summarize", {"llm"})') + Cardinality(At("hyde", {"llm"})')
    BY <1>2, <2>1 DEF Stages
  <2> QED BY <2>2 DEF SlotsBalance, At, Inside
<1> QED BY <1>1, <1>2, <1>3, <1>4 DEF StagesInv, TypeOK, RestType, SlotsType

\* The invariant of the slots holds of every reachable state.
THEOREM StagesInvariant == Spec => []StagesInv
<1>1. Init => StagesInv
  <2> SUFFICES ASSUME Init PROVE StagesInv
    OBVIOUS
  <2>1. stage \in [Stages -> {"list", "run", "done"}] /\ \A st \in Stages : stage[st] # "run"
    BY DEF Init, Launched
  <2>2. layer \in 0..MaxDepth /\ runs \in 1..MaxRuns /\ failures \in 0..MaxFailures
    BY MaxDepthIsMax, StagesAssumption DEF Init, StagesAssumption
  <2>3. madeIn \in [Sections -> 0..MaxRuns] /\ madeOf \in [Sections -> SUBSET Sections]
    BY StagesAssumption DEF Init, StagesAssumption
  <2>4. RestType
    BY <2>1, <2>2, <2>3 DEF Init, RestType
  <2>5. task \in [Stages -> Tasks] /\ \A st \in Stages : \A s \in Sections : task[st][s] = "none"
    BY DEF Init, NoTasks, Tasks, TaskStep
  <2>6. held \in [Stages -> Nat] /\ (\A st \in Stages : held[st] = 0) /\ inflight = 0
    BY DEF Init
  <2>7. SlotsType
    BY <2>6, StagesAssumption DEF SlotsType, StagesAssumption
  <2>8. SlotsBalance
    <3>1. \A st \in Stages : \A steps \in SUBSET Inside : At(st, steps) = {}
      BY <2>5 DEF At, Inside
    <3> QED BY <2>6, <3>1, EmptyBalance
  <2>9. StageTasks
    BY <2>5 DEF StageTasks, Idle
  <2>10. LayersInOrder
    <3>1. stage["summarize"] # "run" /\ layer = MaxDepth
      BY <2>1 DEF Init, Stages
    <3> QED BY <3>1 DEF LayersInOrder
  <2> QED BY <2>4, <2>5, <2>6, <2>7, <2>8, <2>9, <2>10, TypeParts DEF StagesInv
<1>2. StagesInv /\ [Next]_vars => StagesInv'
  <2> SUFFICES ASSUME StagesInv, [Next]_vars PROVE StagesInv'
    OBVIOUS
  <2>1. CASE StageStep
    BY <2>1, ListKeeps, WaitKeeps, TakeSlots, LeaveCall, WriteRows DEF StageStep
  <2>2. CASE Cancel \/ Delete \/ UNCHANGED vars
    <3>1. /\ UNCHANGED <<madeIn, madeOf, stage, listed, layer, task, computed, errs, held,
                         inflight, runs, failures>>
          /\ summary' \subseteq summary /\ axes' \subseteq axes /\ questions' \subseteq questions
          /\ cancelled' \in BOOLEAN /\ alive' \in BOOLEAN
      BY <2>2 DEF Cancel, Delete, vars, rows, slots, StagesInv, TypeOK
    <3>2. TypeOK'
      BY <3>1 DEF StagesInv, TypeOK
    <3> QED BY <3>1, <3>2 DEF StagesInv, StageTasks, LayersInOrder, SlotsBalance
  <2> QED BY <2>1, <2>2, DeliverKeeps DEF Next
<1> QED BY <1>1, <1>2, PTL DEF Spec

\* The state is well typed: no semaphore is over-released or over its limit.
THEOREM TypeCorrect == Spec => []TypeOK
BY StagesInvariant, PTL DEF StagesInv

\* Both semaphores count exactly the goroutines that hold them, on every path
\* out and across deliveries of one worker.
THEOREM SlotsNeverLeak == Spec => []SlotsBalance
BY StagesInvariant, PTL DEF StagesInv

-----------------------------------------------------------------------------
(***************************************************************************)
(* Parents and children.                                                   *)
(***************************************************************************)
\* The children of a section at work are over: they are one layer down.
LEMMA ChildrenAreOver ==
  ASSUME StagesInv, NEW s \in Sections, NEW c \in Children(s),
         task["summarize"][s] \in Inside \cup {"over"} \/ Started("summarize", s)
  PROVE  c \in Sections /\ task["summarize"][c] \in Idle
<1>0. /\ "summarize" \in Stages /\ c \in Sections /\ s \in Sections
      /\ Depth[c] = Depth[s] + 1 /\ Depth[s] \in Nat /\ layer \in Nat /\ Depth[c] \in Nat
  BY StagesAssumption, MaxDepthIsMax
  DEF Children, Stages, StagesInv, TypeOK, StagesAssumption
<1>1. CASE stage["summarize"] = "done"
  BY <1>0, <1>1 DEF StagesInv, StageTasks
<1>2. CASE stage["summarize"] = "run"
  <2>1. Depth[s] >= layer
    BY <1>0, <1>2 DEF StagesInv, LayersInOrder, Started, Inside
  <2> QED BY <1>0, <1>2, <2>1 DEF StagesInv, LayersInOrder
<1>3. stage["summarize"] # "list"
  BY <1>0 DEF StagesInv, StageTasks, Started, Inside
<1> QED BY <1>0, <1>1, <1>2, <1>3 DEF StagesInv, TypeOK

\* No section is its own child.
LEMMA NotItsOwnChild == \A s \in Sections : s \notin Children(s)
BY StagesAssumption DEF Children, StagesAssumption

\* What a step of the HyDE stage leaves alone: everything of summarize.
LEMMA HydeQuiet ==
  ASSUME StagesInv,
         \/ List("hyde") \/ Wait("hyde")
         \/ \E s \in Sections : \/ Slot("hyde", s) \/ Acquire("hyde", s) \/ GiveUp("hyde", s)
                                \/ Called("hyde", s) \/ CallFailed("hyde", s) \/ Write("hyde", s)
  PROVE  /\ UNCHANGED <<summary, axes, madeIn, madeOf, listed, layer, computed, runs,
                        alive, cancelled>>
         /\ task'["summarize"] = task["summarize"] /\ stage'["summarize"] = stage["summarize"]
         /\ "summarize" \in errs' <=> "summarize" \in errs
<1>0. task \in [Stages -> Tasks] /\ stage \in [Stages -> {"list", "run", "done"}]
      /\ "summarize" \in Stages /\ "hyde" \in Stages /\ "summarize" # "hyde"
  BY DEF StagesInv, TypeOK, Stages
<1> USE DEF rows, world, slots
<1>1. CASE List("hyde")
  BY <1>0, <1>1 DEF List, Note
<1>2. CASE Wait("hyde")
  BY <1>0, <1>2 DEF Wait
<1>3. ASSUME NEW s \in Sections, NEW step, Goto("hyde", s, step)
      PROVE  task'["summarize"] = task["summarize"]
  BY <1>0, <1>3 DEF Goto
<1>4. ASSUME NEW s \in Sections,
             Slot("hyde", s) \/ Acquire("hyde", s) \/ GiveUp("hyde", s) \/ Called("hyde", s)
      PROVE  /\ UNCHANGED <<summary, axes, madeIn, madeOf, listed, layer, computed, runs,
                            alive, cancelled, stage, errs>>
             /\ task'["summarize"] = task["summarize"]
  BY <1>3, <1>4 DEF Slot, Acquire, GiveUp, Called
<1>5. ASSUME NEW s \in Sections, CallFailed("hyde", s) \/ Write("hyde", s)
      PROVE  /\ UNCHANGED <<summary, axes, madeIn, madeOf, listed, layer, computed, runs,
                            alive, cancelled, stage>>
             /\ task'["summarize"] = task["summarize"]
             /\ "summarize" \in errs' <=> "summarize" \in errs
  BY <1>3, <1>5 DEF CallFailed, Write, Note, CollectErr
<1> QED BY <1>1, <1>2, <1>4, <1>5

\* A goroutine of summarize that moves without starting or writing, and the
\* end of a stage, keep what is said of parents and children.
LEMMA ChildrenFrame ==
  ASSUME StagesInv, ChildrenInv, UNCHANGED <<madeIn, madeOf, listed, runs>>,
         summary' \subseteq summary, computed \subseteq computed',
         stage'["summarize"] = "run" => stage["summarize"] = "run",
         \A s \in Sections :
           LET old == task["summarize"][s]
               new == task'["summarize"][s]
           IN  /\ new = "write" => s \in computed'
               /\ new \in {"slot", "llm", "write"} => old \in {"slot", "llm", "write"}
               /\ old \in {"axes", "over"} => new \in {"axes", "over"}
  PROVE  ChildrenInv'
<1> USE DEF ChildrenInv
<1>1. SummariesKnown'
  BY DEF SummariesKnown
<1>2. WorkersSeeChildren'
  BY DEF WorkersSeeChildren, Children
<1>3. MadeNow'
  BY DEF MadeNow
<1>4. ParentSeesChildren'
  BY DEF ParentSeesChildren, Children
<1> QED BY <1>1, <1>2, <1>3, <1>4

\* A goroutine that starts finds every summary its children have.
LEMMA SlotChildren ==
  ASSUME StagesInv, ChildrenInv, NEW s \in Sections, Slot("summarize", s)
  PROVE  ChildrenInv'
<1> USE DEF ChildrenInv
<1>0. TypeOK /\ "summarize" \in Stages /\ "slot" \in TaskStep
  BY DEF StagesInv, Stages, TaskStep
<1>1. /\ task["summarize"][s] = "queued" /\ task'["summarize"][s] = "slot"
      /\ \A x \in Sections \ {s} : task'["summarize"][x] = task["summarize"][x]
      /\ UNCHANGED <<summary, madeIn, stage, listed, computed, runs>>
      /\ stage["summarize"] = "run"
  BY <1>0, GotoShape DEF Slot, Started, rows, world
<1>2. /\ madeOf'[s] = Children(s) \cap (computed \cup listed)
      /\ \A x \in Sections \ {s} : madeOf'[x] = madeOf[x]
  BY <1>0 DEF Slot, TypeOK
<1>3. SummariesKnown'
  BY <1>1 DEF SummariesKnown
<1>4. WorkersSeeChildren'
  BY <1>1, <1>2 DEF WorkersSeeChildren, SummariesKnown, Children
<1>5. MadeNow' /\ madeIn[s] # runs
  BY <1>1 DEF MadeNow
<1>6. ParentSeesChildren'
  BY <1>0, <1>1, <1>2, <1>5 DEF ParentSeesChildren, Children, TypeOK
<1> QED BY <1>3, <1>4, <1>5, <1>6

\* A summary is written after its children's and before its parent starts.
LEMMA WriteChildren ==
  ASSUME StagesInv, ChildrenInv, NEW s \in Sections, Write("summarize", s)
  PROVE  ChildrenInv'
<1> USE DEF ChildrenInv
<1> DEFINE to == IF SummaryAxesEnabled THEN "axes" ELSE "over"
<1>0. TypeOK /\ "summarize" \in Stages /\ "write" \in Inside /\ to \in TaskStep /\ to \in {"axes", "over"}
  BY DEF StagesInv, Stages, Inside, TaskStep
<1>1. /\ task["summarize"][s] = "write" /\ task'["summarize"][s] \in {"axes", "over"}
      /\ \A x \in Sections \ {s} : task'["summarize"][x] = task["summarize"][x]
      /\ UNCHANGED <<madeOf, stage, listed, computed, runs>>
  <2>1. Goto("summarize", s, to)
    BY DEF Write
  <2> HIDE DEF to
  <2> QED BY <1>0, <2>1, GotoShape DEF Write, world
<1>2. CASE UNCHANGED <<summary, madeIn>>
  BY <1>1, <1>2, ChildrenFrame DEF SummariesKnown
<1>3. CASE summary' = summary \cup {s} /\ madeIn' = [madeIn EXCEPT ![s] = runs]
  <2>1. /\ madeIn'[s] = runs /\ \A x \in Sections \ {s} : madeIn'[x] = madeIn[x]
        /\ runs \in Nat
    BY <1>0, <1>3 DEF TypeOK
  <2>2. SummariesKnown'
    BY <1>1, <1>3 DEF SummariesKnown
  <2>3. MadeNow'
    BY <1>1, <2>1 DEF MadeNow
  <2>4. ASSUME NEW p \in Sections, task["summarize"][p] \in Inside \cup {"over"}
        PROVE  s \notin Children(p)
    BY <1>0, <1>1, <2>4, ChildrenAreOver DEF Idle
  <2>5. WorkersSeeChildren'
    BY <1>1, <1>3, <2>4 DEF WorkersSeeChildren, Children, Inside
  <2>6. ParentSeesChildren'
    <3>1. ASSUME NEW p \in summary', madeIn'[p] = runs
          PROVE  Children(p) \cap summary' \subseteq madeOf[p]
      <4>1. CASE p = s
        BY <1>0, <1>1, <1>3, <4>1, NotItsOwnChild DEF WorkersSeeChildren
      <4>2. CASE p # s
        <5>1. p \in Sections /\ p \in summary /\ madeIn[p] = runs
          BY <1>0, <1>3, <2>1, <3>1, <4>2 DEF TypeOK
        <5>2. task["summarize"][p] \in {"axes", "over"}
          BY <5>1 DEF MadeNow
        <5>3. s \notin Children(p)
          BY <2>4, <5>1, <5>2 DEF Inside
        <5> QED BY <1>3, <5>1, <5>3 DEF ParentSeesChildren
      <4> QED BY <4>1, <4>2
    <3> QED BY <1>1, <3>1 DEF ParentSeesChildren, Children
  <2> QED BY <2>2, <2>3, <2>5, <2>6
<1> QED BY <1>2, <1>3 DEF Write

\* The other steps of summarize.
LEMMA MoveChildren ==
  ASSUME StagesInv, ChildrenInv, NEW s \in Sections,
         \/ Acquire("summarize", s) \/ GiveUp("summarize", s) \/ Called("summarize", s)
         \/ CallFailed("summarize", s) \/ WriteAxes(s)
  PROVE  ChildrenInv'
<1>0. /\ TypeOK /\ "summarize" \in Stages /\ {"llm", "write", "over"} \subseteq TaskStep
      /\ \A x \in Sections : task["summarize"][x] = "write" => x \in computed
  BY DEF StagesInv, Stages, TaskStep, ChildrenInv, SummariesKnown
<1>1. ASSUME NEW step \in {"llm", "write", "over"}, Goto("summarize", s, step)
      PROVE  /\ task'["summarize"][s] = step
             /\ \A x \in Sections \ {s} : task'["summarize"][x] = task["summarize"][x]
  BY <1>0, <1>1, GotoShape
<1> USE DEF rows, world
<1>2. CASE Acquire("summarize", s)
  BY <1>0, <1>1, <1>2, ChildrenFrame DEF Acquire
<1>3. CASE GiveUp("summarize", s)
  BY <1>0, <1>1, <1>3, ChildrenFrame DEF GiveUp
<1>4. CASE Called("summarize", s)
  BY <1>0, <1>1, <1>4, ChildrenFrame DEF Called
<1>5. CASE CallFailed("summarize", s)
  BY <1>0, <1>1, <1>5, ChildrenFrame DEF CallFailed
<1>6. CASE WriteAxes(s)
  BY <1>0, <1>1, <1>6, ChildrenFrame DEF WriteAxes
<1> QED BY <1>2, <1>3, <1>4, <1>5, <1>6

\* Listing starts a run: what has a summary is listed.
LEMMA ListChildren ==
  ASSUME StagesInv, ChildrenInv, List("summarize")
  PROVE  ChildrenInv'
<1> USE DEF ChildrenInv
<1>0. /\ TypeOK /\ "summarize" \in Stages
      /\ \A s \in Sections : task["summarize"][s] = "none"
      /\ UNCHANGED <<summary, madeIn, madeOf, computed, runs>>
  BY DEF StagesInv, Stages, List, StageTasks, rows, world
<1>1. /\ \A s \in Sections : task'["summarize"][s] \in {"none", "queued"}
      /\ stage'["summarize"] = "run" => listed' = summary
  BY <1>0 DEF List, TypeOK, Tasks
<1>2. \A s \in Sections : madeIn[s] # runs
  BY <1>0 DEF MadeNow
<1>3. SummariesKnown' /\ WorkersSeeChildren' /\ MadeNow'
  BY <1>0, <1>1, <1>2 DEF SummariesKnown, WorkersSeeChildren, MadeNow
<1>4. ParentSeesChildren'
  BY <1>0, <1>2 DEF ParentSeesChildren, TypeOK
<1> QED BY <1>3, <1>4

\* A new delivery has made nothing yet.
LEMMA DeliverChildren ==
  ASSUME StagesInv, ChildrenInv, Deliver
  PROVE  ChildrenInv'
<1> USE DEF ChildrenInv
<1>0. /\ TypeOK /\ "summarize" \in Stages /\ runs \in Nat /\ runs' = runs + 1
      /\ UNCHANGED <<summary, madeIn, madeOf>>
      /\ stage'["summarize"] = "list"
      /\ \A s \in Sections : task'["summarize"][s] = "none"
  BY DEF StagesInv, TypeOK, Stages, Deliver, Launched, NoTasks, rows
<1>1. \A s \in Sections : madeIn[s] \in Nat /\ madeIn[s] <= runs
  BY <1>0 DEF MadeNow, TypeOK
<1>2. MadeNow' /\ \A s \in Sections : madeIn'[s] # runs'
  BY <1>0, <1>1 DEF MadeNow
<1>3. SummariesKnown' /\ WorkersSeeChildren'
  BY <1>0 DEF SummariesKnown, WorkersSeeChildren
<1>4. ParentSeesChildren'
  BY <1>0, <1>2 DEF ParentSeesChildren, TypeOK
<1> QED BY <1>2, <1>3, <1>4

\* What is said of parents and children holds of every reachable state.
THEOREM ChildrenInvariant == Spec => []ChildrenInv
<1>1. Init => ChildrenInv
  BY StagesAssumption
  DEF Init, ChildrenInv, SummariesKnown, WorkersSeeChildren, MadeNow, ParentSeesChildren,
      NoTasks, Launched, Stages
<1>2. StagesInv /\ ChildrenInv /\ [Next]_vars => ChildrenInv'
  <2> SUFFICES ASSUME StagesInv, ChildrenInv, [Next]_vars PROVE ChildrenInv'
    OBVIOUS
  <2>0. \A s \in Sections : task["summarize"][s] = "write" => s \in computed
    BY DEF ChildrenInv, SummariesKnown
  <2>1. ASSUME NEW st \in Stages,
               \/ List(st) \/ Wait(st)
               \/ \E s \in Sections :
                    \/ Slot(st, s) \/ Acquire(st, s) \/ GiveUp(st, s)
                    \/ Called(st, s) \/ CallFailed(st, s) \/ Write(st, s)
                    \/ st = "summarize" /\ WriteAxes(s)
        PROVE  ChildrenInv'
    <3>1. CASE st = "hyde"
      BY <2>0, <2>1, <3>1, HydeQuiet, ChildrenFrame
    <3>2. CASE st = "summarize"
      <4>1. CASE Wait("summarize")
        <5>1. stage'["summarize"] = "run" => stage["summarize"] = "run"
          BY <4>1 DEF Wait
        <5> QED BY <2>0, <4>1, <5>1, ChildrenFrame DEF Wait, rows, world
      <4> QED BY <2>1, <3>2, <4>1, ListChildren, SlotChildren, WriteChildren, MoveChildren
    <3> QED BY <3>1, <3>2 DEF Stages
  <2>2. CASE Cancel \/ Delete \/ UNCHANGED vars
    BY <2>0, <2>2, ChildrenFrame DEF Cancel, Delete, vars, rows, slots
  <2>3. CASE Redeliver \/ Crash
    BY <2>3, DeliverChildren DEF Redeliver, Crash
  <2> QED BY <2>1, <2>2, <2>3 DEF Next, StageStep
<1> QED BY <1>1, <1>2, StagesInvariant, PTL DEF Spec

\* A parent summarised by the present delivery was made from the summary of
\* every child that has one.
THEOREM ParentsSeeChildren == Spec => []ParentSeesChildren
BY ChildrenInvariant, PTL DEF ChildrenInv

-----------------------------------------------------------------------------
(***************************************************************************)
(* No silent gap.                                                          *)
(***************************************************************************)
\* A finished stage has only idle goroutines, so NoGapYet says it all.
LEMMA GapAtEnd ==
  ASSUME StagesInv, ChildrenInv, NoGapYet
  PROVE  NoSilentGap
<1> SUFFICES ASSUME stage["summarize"] = "done", "summarize" \notin errs, alive, ~cancelled
             PROVE  /\ summary = Sections
                    /\ SummaryAxesEnabled => \A s \in Sections : madeIn[s] = runs => s \in axes
  BY DEF NoSilentGap
<1>1. \A s \in Sections : task["summarize"][s] \in Idle
  BY DEF StagesInv, StageTasks, Stages
<1>2. \A s \in Sections : s \in summary
  BY <1>1 DEF NoGapYet, Idle
<1>3. \A s \in Sections : madeIn[s] = runs => task["summarize"][s] = "over"
  BY <1>1 DEF ChildrenInv, MadeNow, Idle
<1> QED BY <1>2, <1>3 DEF NoGapYet, StagesInv, TypeOK

\* A step of summarize that moves one goroutine keeps NoGapYet when that
\* goroutine, if it is past its write, has its summary, and its axes at the
\* end, or an error was collected.
LEMMA GapMove ==
  ASSUME StagesInv, NoGapYet, NEW s \in Sections, NEW step \in TaskStep,
         Goto("summarize", s, step), UNCHANGED <<stage, alive, cancelled, runs>>,
         task["summarize"][s] \in Inside \cup {"queued"}, stage["summarize"] = "run",
         errs \subseteq errs', summary \subseteq summary', axes \subseteq axes',
         \A x \in Sections \ {s} : madeIn'[x] = madeIn[x],
         "summarize" \notin errs' /\ alive /\ ~cancelled =>
           /\ step \in {"none", "axes", "over"} => s \in summary'
           /\ step = "over" /\ SummaryAxesEnabled /\ madeIn'[s] = runs => s \in axes'
  PROVE  NoGapYet'
<1>1. /\ task'["summarize"][s] = step
      /\ \A x \in Sections \ {s} : task'["summarize"][x] = task["summarize"][x]
  BY GotoShape DEF StagesInv, Stages
<1> QED BY <1>1 DEF NoGapYet


\* The steps of a goroutine of summarize.
LEMMA GoroutineGap ==
  ASSUME StagesInv, NoGapYet, NEW s \in Sections,
         \/ Slot("summarize", s) \/ Acquire("summarize", s) \/ GiveUp("summarize", s)
         \/ Called("summarize", s) \/ CallFailed("summarize", s) \/ Write("summarize", s)
         \/ WriteAxes(s)
  PROVE  NoGapYet'
<1>0. /\ "summarize" \in Stages /\ TypeOK
      /\ {"slot", "llm", "write", "axes", "over"} \subseteq TaskStep
      /\ {"slot", "llm", "write", "axes"} \subseteq Inside
  BY DEF StagesInv, Stages, TaskStep, Inside
<1>1. task["summarize"][s] \in Inside \cup {"queued"} /\ stage["summarize"] = "run"
  <2>1. CASE task["summarize"][s] \in Inside
    BY <1>0, <2>1, InsideRuns DEF Started
  <2>2. CASE task["summarize"][s] \notin Inside
    <3>1. task["summarize"][s] = "queued" /\ Started("summarize", s)
      BY <1>0, <2>2 DEF Slot, Acquire, GiveUp, Called, CallFailed, Write, WriteAxes
    <3> QED BY <3>1 DEF Started
  <2> QED BY <2>1, <2>2
<1> USE DEF rows, world, slots
<1>2. CASE Slot("summarize", s)
  BY <1>0, <1>1, <1>2, GapMove DEF Slot
<1>3. CASE Acquire("summarize", s)
  BY <1>0, <1>1, <1>3, GapMove DEF Acquire
<1>4. CASE GiveUp("summarize", s)
  BY <1>0, <1>1, <1>4, GapMove DEF GiveUp
<1>5. CASE Called("summarize", s)
  BY <1>0, <1>1, <1>5, GapMove DEF Called
<1>6. CASE CallFailed("summarize", s)
  <2>1. errs' = errs \cup {"summarize"}
    BY <1>6 DEF CallFailed, Note
  <2> QED BY <1>0, <1>1, <1>6, <2>1, GapMove DEF CallFailed
<1>7. CASE Write("summarize", s)
  <2> DEFINE to == IF SummaryAxesEnabled THEN "axes" ELSE "over"
  <2>1. Goto("summarize", s, to) /\ UNCHANGED <<stage, alive, cancelled, runs, axes>>
    BY <1>7 DEF Write
  <2>2. /\ errs \subseteq errs' /\ summary \subseteq summary'
        /\ \A x \in Sections \ {s} : madeIn'[x] = madeIn[x]
    BY <1>0, <1>7 DEF Write, CollectErr, Note, TypeOK
  <2>3. "summarize" \notin errs' /\ alive /\ ~cancelled => s \in summary'
    BY <1>7 DEF Write, CollectErr, Note
  <2>4. to \in TaskStep /\ ~(to = "over" /\ SummaryAxesEnabled)
    BY <1>0
  <2> HIDE DEF to
  <2> QED BY <1>0, <1>1, <2>1, <2>2, <2>3, <2>4, GapMove
<1>8. CASE WriteAxes(s)
  <2>1. /\ Goto("summarize", s, "over")
        /\ UNCHANGED <<stage, alive, cancelled, runs, summary, madeIn>>
    BY <1>8 DEF WriteAxes
  <2>2. errs \subseteq errs' /\ axes \subseteq axes'
    BY <1>8 DEF WriteAxes, CollectErr, Note
  <2>3. "summarize" \notin errs' /\ alive /\ ~cancelled => s \in summary /\ s \in axes'
    BY <1>1, <1>8, <2>2 DEF WriteAxes, CollectErr, Note, NoGapYet
  <2> QED BY <1>0, <1>1, <2>1, <2>2, <2>3, GapMove
<1> QED BY <1>2, <1>3, <1>4, <1>5, <1>6, <1>7, <1>8

\* A list that was read queues every section without a summary.
LEMMA ListGap ==
  ASSUME StagesInv, List("summarize")
  PROVE  NoGapYet'
<1>0. /\ TypeOK /\ "summarize" \in Stages
      /\ UNCHANGED <<summary, madeIn, axes, alive, cancelled>>
  BY DEF StagesInv, Stages, List, rows, world
<1>1. CASE "summarize" \in errs'
  BY <1>1 DEF NoGapYet
<1>2. CASE task' = [task EXCEPT !["summarize"] =
                      [s \in Sections |-> IF s \in Work("summarize") THEN "queued" ELSE "none"]]
  <2>1. \A s \in Sections :
          task'["summarize"][s] = IF s \in Work("summarize") THEN "queued" ELSE "none"
    BY <1>0, <1>2 DEF TypeOK
  <2> QED BY <1>0, <2>1 DEF NoGapYet, Work
<1> QED BY <1>1, <1>2 DEF List, Note

\* A section is without a summary only while its goroutine is at work, or
\* after an error, a delete or the end of the context.
THEOREM GapInvariant == Spec => []NoGapYet
<1>1. Init => NoGapYet
  BY DEF Init, NoGapYet, Launched, Stages
<1>2. StagesInv /\ NoGapYet /\ [Next]_vars => NoGapYet'
  <2> SUFFICES ASSUME StagesInv, NoGapYet, [Next]_vars PROVE NoGapYet'
    OBVIOUS
  <2>1. ASSUME NEW st \in Stages,
               \/ List(st) \/ Wait(st)
               \/ \E s \in Sections :
                    \/ Slot(st, s) \/ Acquire(st, s) \/ GiveUp(st, s)
                    \/ Called(st, s) \/ CallFailed(st, s) \/ Write(st, s)
                    \/ st = "summarize" /\ WriteAxes(s)
        PROVE  NoGapYet'
    <3>1. CASE st = "hyde"
      BY <2>1, <3>1, HydeQuiet DEF NoGapYet
    <3>2. CASE st = "summarize"
      <4>1. CASE Wait("summarize")
        BY <4>1 DEF Wait, NoGapYet, rows, world
      <4> QED BY <2>1, <3>2, <4>1, ListGap, GoroutineGap
    <3> QED BY <3>1, <3>2 DEF Stages
  <2>2. CASE Cancel \/ Delete \/ UNCHANGED vars
    BY <2>2 DEF Cancel, Delete, vars, rows, slots, NoGapYet
  <2>3. CASE Redeliver \/ Crash
    <3>1. stage'["summarize"] = "list"
      BY <2>3 DEF Redeliver, Crash, Deliver, Launched, Stages
    <3> QED BY <3>1 DEF NoGapYet
  <2> QED BY <2>1, <2>2, <2>3 DEF Next, StageStep
<1> QED BY <1>1, <1>2, StagesInvariant, PTL DEF Spec

\* A summarize stage that ends without an error, with its context alive and
\* its document there, has left no section without a summary and none of its
\* own without axes.
THEOREM NoGapIsSilent == Spec => []NoSilentGap
BY StagesInvariant, ChildrenInvariant, GapInvariant, GapAtEnd, PTL
====
