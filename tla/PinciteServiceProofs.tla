------------------------ MODULE PinciteServiceProofs ------------------------
(***************************************************************************)
(* Proofs about PinciteService, for any readers, document length, wanted   *)
(* artefacts, chunk size, number of render slots and number of failures.   *)
(***************************************************************************)
EXTENDS PinciteService, Integers, FiniteSetTheorems, TLAPS

-----------------------------------------------------------------------------
(***************************************************************************)
(* Counting the slots that flights hold.                                   *)
(***************************************************************************)
Holds == {"reread", "render"}
Holders == {n \in Page : flight[n] \in Holds}

\* There are finitely many pages, so the holders can be counted.
LEMMA HoldersFinite ==
  ASSUME PinciteAssumption, NEW H \in SUBSET Page
  PROVE  IsFiniteSet(H) /\ Cardinality(H) \in Nat
<1>1. IsFiniteSet(Page)
  BY FS_Interval DEF Page, PinciteAssumption
<1> QED BY <1>1, FS_Subset, FS_CardinalityType

\* The layout flight never counts, nor does a page flight that stays on the
\* same side of acquire and release.
LEMMA HoldersSame ==
  ASSUME TypeOK, NEW n \in Artefact, NEW v \in FlightStep,
         flight' = [flight EXCEPT ![n] = v],
         n = 0 \/ (flight[n] \in Holds <=> v \in Holds)
  PROVE  Holders' = Holders
BY PinciteAssumption DEF Holders, TypeOK, Page, Artefact, PinciteAssumption

\* A page flight that takes a slot is one holder more,
LEMMA HoldersAdd ==
  ASSUME TypeOK, NEW n \in Artefact \ {0}, NEW v \in FlightStep \cap Holds,
         flight[n] \notin Holds, flight' = [flight EXCEPT ![n] = v]
  PROVE  Cardinality(Holders') = Cardinality(Holders) + 1
<1>1. n \in Page /\ Holders \in SUBSET Page /\ n \notin Holders
  BY PinciteAssumption DEF Holders, Page, Artefact, PinciteAssumption
<1>2. Holders' = Holders \cup {n}
  BY <1>1 DEF Holders, TypeOK, Page, Artefact
<1> QED BY <1>1, <1>2, PinciteAssumption, HoldersFinite, FS_AddElement

\* and one that ends while it holds one is one holder less.
LEMMA HoldersRemove ==
  ASSUME TypeOK, NEW n \in Artefact \ {0}, NEW v \in FlightStep \ Holds,
         flight[n] \in Holds, flight' = [flight EXCEPT ![n] = v]
  PROVE  Cardinality(Holders') = Cardinality(Holders) - 1 /\ Cardinality(Holders) >= 1
<1>1. n \in Page /\ Holders \in SUBSET Page /\ n \in Holders
  BY PinciteAssumption DEF Holders, Page, Artefact, PinciteAssumption
<1>2. Holders' = Holders \ {n}
  BY <1>1 DEF Holders, TypeOK, Page, Artefact
<1>3. Cardinality(Holders) # 0
  BY <1>1, PinciteAssumption, HoldersFinite, FS_EmptySet
<1> QED BY <1>1, <1>2, <1>3, PinciteAssumption, HoldersFinite, FS_RemoveElement

-----------------------------------------------------------------------------
(***************************************************************************)
(* Types, slots and the bounds of the warm-up's chunk hold together: a     *)
(* slot is given back by someone who has one.                              *)
(***************************************************************************)
\* While a chunk is rendered, the next page lies in it.
ChunkInBounds ==
  warm \in {"slot", "render"} => from <= LastPage /\ next \in from..ChunkEnd(from)

\* The layout flight never queues for a slot.
LayoutTakesNoSlot == flight[0] # "slot"

WarmHolds == IF warm = "render" THEN 1 ELSE 0

SlotsInv ==
  /\ TypeOK
  /\ ChunkInBounds
  /\ LayoutTakesNoSlot
  /\ SlotsMatchRenders

\* The slots in use are counted by Holders and the warm-up.
LEMMA SlotsCount ==
  ASSUME TypeOK
  PROVE  SlotsMatchRenders <=> used = Cardinality(Holders) + WarmHolds
BY DEF SlotsMatchRenders, Holders, Holds, WarmHolds

\* The number of holders is a number.
LEMMA HoldersNat ==
  TypeOK => Cardinality(Holders) \in Nat
<1>1. Holders \in SUBSET Page
  BY DEF Holders
<1> QED BY <1>1, PinciteAssumption, HoldersFinite

\* A chunk begun inside the document ends inside it, and not before it began.
LEMMA ChunkEndBounds ==
  ASSUME NEW p \in 1..LastPage
  PROVE  ChunkEnd(p) \in p..LastPage
BY PinciteAssumption DEF ChunkEnd, Min2, PinciteAssumption

\* What the landing of a flight does to its readers, to a warm-up that waits
\* for it, and to nothing else.
LEMMA LandShape ==
  ASSUME TypeOK, NEW n \in Artefact, NEW ok \in BOOLEAN, Land(n, ok)
  PROVE  /\ flight' = [flight EXCEPT ![n] = "none"]
         /\ flight' \in [Artefact -> FlightStep]
         /\ reader' \in [Readers -> ReaderStep] /\ wants' \in [Readers -> Artefact]
         /\ warm' \in WarmStep /\ outcome' \in Outcome
         /\ warm' = warm \/ (warm = "wait" /\ warm' \in {"check", "recheck"})
         /\ outcome' \in {outcome, "failed"}
         /\ outcome' # outcome => warm' = "recheck"
         /\ warm' = "recheck" /\ warm # "recheck" => outcome' = "failed"
         /\ UNCHANGED <<from, next, row, purge, source>>
<1>1. reader' \in [Readers -> ReaderStep] /\ wants' \in [Readers -> Artefact]
  BY PinciteAssumption
  DEF Land, Release, TypeOK, ReaderStep, Artefact, PinciteAssumption
<1>2. flight' \in [Artefact -> FlightStep]
  BY DEF Land, TypeOK, FlightStep
<1> QED BY <1>1, <1>2 DEF Land, TypeOK, WarmStep, Outcome

\* The invariant is kept by a step that leaves slots, holders and the chunk alone.
LEMMA SlotsFrame ==
  ASSUME SlotsInv, TypeOK', Holders' = Holders, used' = used,
         LayoutTakesNoSlot',
         \/ UNCHANGED <<warm, from, next>>
         \/ warm # "render" /\ warm' \notin {"slot", "render"}
  PROVE  SlotsInv'
<1>1. ChunkInBounds'
  BY DEF SlotsInv, ChunkInBounds, ChunkEnd
<1>2. WarmHolds' = WarmHolds
  BY DEF WarmHolds
<1>3. used' = Cardinality(Holders') + WarmHolds'
  BY <1>2, SlotsCount DEF SlotsInv
<1>4. SlotsMatchRenders'
  BY <1>3 DEF SlotsMatchRenders, Holders, Holds, WarmHolds
<1> QED BY <1>1, <1>4 DEF SlotsInv

\* Joining a flight never takes a slot.
LEMMA JoinShape ==
  ASSUME TypeOK, NEW n \in Artefact, Join(n)
  PROVE  /\ flight' \in [Artefact -> FlightStep] /\ Holders' = Holders
         /\ LayoutTakesNoSlot => LayoutTakesNoSlot'
<1> DEFINE v == IF flight[n] = "none" THEN "read" ELSE flight[n]
<1>1. v \in FlightStep /\ flight' = [flight EXCEPT ![n] = v]
  BY DEF Join, TypeOK, FlightStep
<1>2. flight[n] \in Holds <=> v \in Holds
  BY DEF Holds
<1>3. LayoutTakesNoSlot => LayoutTakesNoSlot'
  BY <1>1, PinciteAssumption DEF LayoutTakesNoSlot, TypeOK, Artefact, PinciteAssumption
<1> QED BY <1>1, <1>2, <1>3, HoldersSame DEF TypeOK

\* A failing call is counted, and a missing artefact may cost one.
LEMMA FailureType ==
  ASSUME TypeOK, Failure \/ UNCHANGED failures
  PROVE  failures' \in 0..MaxFailures
BY PinciteAssumption DEF TypeOK, Failure, PinciteAssumption

\* What readers do keeps the invariant.
LEMMA ReaderSlots ==
  ASSUME SlotsInv, NEW r \in Readers,
         (\E n \in Wanted : Request(r, n)) \/ GetLayout(r) \/ GetImage(r) \/ Leave(r)
  PROVE  SlotsInv'
<1>0. TypeOK /\ 0 \in Artefact /\ Wanted \subseteq Artefact
  BY PinciteAssumption DEF SlotsInv, PinciteAssumption, Artefact
<1> USE DEF warming
<1>1. CASE \E n \in Wanted : Request(r, n)
  <2>1. TypeOK'
    BY <1>0, <1>1 DEF Request, TypeOK, ReaderStep
  <2> QED BY <1>1, <2>1, SlotsFrame DEF Request, Holders, SlotsInv, LayoutTakesNoSlot
<1>2. CASE GetLayout(r)
  <2>1. flight' \in [Artefact -> FlightStep] /\ Holders' = Holders /\ LayoutTakesNoSlot'
    BY <1>0, <1>2, JoinShape DEF GetLayout, TypeOK, Holders, SlotsInv, LayoutTakesNoSlot
  <2>2. reader' \in [Readers -> ReaderStep] /\ wants' \in [Readers -> Artefact]
    BY <1>0, <1>2 DEF GetLayout, Answer, TypeOK, ReaderStep
  <2>3. TypeOK'
    BY <1>0, <1>2, <2>1, <2>2 DEF GetLayout, TypeOK
  <2> QED BY <1>2, <2>1, <2>3, SlotsFrame DEF GetLayout
<1>3. CASE GetImage(r)
  <2>1. flight' \in [Artefact -> FlightStep] /\ Holders' = Holders /\ LayoutTakesNoSlot'
    <3>1. wants[r] \in Artefact
      BY <1>0 DEF TypeOK
    <3> QED BY <1>0, <1>3, <3>1, JoinShape
           DEF GetImage, TypeOK, Holders, SlotsInv, LayoutTakesNoSlot
  <2>2. reader' \in [Readers -> ReaderStep] /\ wants' \in [Readers -> Artefact]
    BY <1>0, <1>3 DEF GetImage, Answer, TypeOK, ReaderStep
  <2>3. failures' \in 0..MaxFailures
    BY <1>0, <1>3, FailureType DEF GetImage, Missing
  <2>4. TypeOK'
    BY <1>0, <1>3, <2>1, <2>2, <2>3 DEF GetImage, TypeOK
  <2> QED BY <1>3, <2>1, <2>4, SlotsFrame DEF GetImage
<1>4. CASE Leave(r)
  <2>1. TypeOK'
    BY <1>0, <1>4 DEF Leave, Answer, TypeOK, ReaderStep
  <2> QED BY <1>4, <2>1, SlotsFrame DEF Leave, Holders, SlotsInv, LayoutTakesNoSlot
<1> QED BY <1>1, <1>2, <1>3, <1>4

\* A flight that lands gives its slot back, if it had one.
LEMMA LandSlots ==
  ASSUME SlotsInv, NEW n \in Artefact, NEW ok \in BOOLEAN, Land(n, ok),
         IF flight[n] \in Holds THEN GiveBack(n) ELSE UNCHANGED used,
         stored' \in [Artefact -> Author], mem' \in BOOLEAN, late' \in BOOLEAN,
         failures' \in 0..MaxFailures
  PROVE  SlotsInv'
<1>0. TypeOK
  BY DEF SlotsInv
<1>1. "none" \in FlightStep \ Holds
  BY DEF FlightStep, Holds
<1>l. LayoutTakesNoSlot'
  BY <1>0, LandShape, PinciteAssumption
  DEF SlotsInv, LayoutTakesNoSlot, TypeOK, Artefact, PinciteAssumption
<1>2. CASE flight[n] \in Holds /\ n # 0
  <2>1. Cardinality(Holders') = Cardinality(Holders) - 1 /\ Cardinality(Holders) >= 1
    BY <1>0, <1>1, <1>2, HoldersRemove, LandShape
  <2>2. WarmHolds' = WarmHolds /\ WarmHolds \in {0, 1}
    BY <1>0, LandShape DEF WarmHolds
  <2>3. used = Cardinality(Holders) + WarmHolds
    BY <1>0, SlotsCount DEF SlotsInv
  <2>4. used' = used - 1
    BY <1>2 DEF GiveBack
  <2>5. used' = Cardinality(Holders') + WarmHolds' /\ used' \in 0..RenderSlots
    BY <1>0, <2>1, <2>2, <2>3, <2>4, HoldersNat, PinciteAssumption DEF TypeOK, PinciteAssumption
  <2>6. TypeOK'
    BY <1>0, <2>5, LandShape DEF TypeOK
  <2>7. SlotsMatchRenders'
    BY <2>5 DEF SlotsMatchRenders, Holders, Holds, WarmHolds
  <2>8. ChunkInBounds'
    BY <1>0, LandShape DEF SlotsInv, ChunkInBounds, ChunkEnd
  <2> QED BY <1>l, <2>6, <2>7, <2>8 DEF SlotsInv
<1>3. CASE flight[n] \notin Holds \/ n = 0
  <2>1. Holders' = Holders /\ used' = used
    BY <1>0, <1>1, <1>3, LandShape, HoldersSame DEF GiveBack
  <2>2. TypeOK'
    BY <1>0, <2>1, LandShape DEF TypeOK
  <2> QED BY <1>0, <1>l, <2>1, <2>2, LandShape, SlotsFrame
<1> QED BY <1>2, <1>3

\* Every step of a flight keeps the invariant.
LEMMA FlightSlots ==
  ASSUME SlotsInv, NEW n \in Artefact, FlightNext(n)
  PROVE  SlotsInv'
<1>0. TypeOK
  BY DEF SlotsInv
<1> USE DEF warming, reading
<1>1. CASE FlightRead(n)
  <2>1. CASE Land(n, TRUE) /\ mem' = (mem \/ n = 0) /\ UNCHANGED failures
    BY <1>0, <1>1, <2>1, LandSlots DEF FlightRead, TypeOK, Holds
  <2>2. CASE /\ Missing(n)
             /\ flight' = [flight EXCEPT ![n] = IF n = 0 THEN "reread" ELSE "slot"]
             /\ UNCHANGED <<row, purge, source, mem, warming, reading>>
    <3>1. flight' \in [Artefact -> FlightStep]
      BY <1>0, <2>2 DEF TypeOK, FlightStep
    <3>2. Holders' = Holders
      <4> DEFINE v == IF n = 0 THEN "reread" ELSE "slot"
      <4>1. v \in FlightStep /\ (n = 0 \/ (flight[n] \in Holds <=> v \in Holds))
        BY <1>1 DEF FlightRead, FlightStep, Holds
      <4>2. flight' = [flight EXCEPT ![n] = v]
        BY <2>2
      <4> HIDE DEF v
      <4> QED BY <1>0, <4>1, <4>2, HoldersSame
    <3>3. failures' \in 0..MaxFailures
      BY <1>0, <2>2, FailureType DEF Missing
    <3>4. TypeOK'
      BY <1>0, <1>1, <2>2, <3>1, <3>3 DEF FlightRead, TypeOK
    <3>5. LayoutTakesNoSlot'
      BY <1>0, <2>2, PinciteAssumption
      DEF SlotsInv, LayoutTakesNoSlot, TypeOK, Artefact, PinciteAssumption
    <3> QED BY <1>1, <2>2, <3>2, <3>4, <3>5, SlotsFrame DEF FlightRead
  <2> QED BY <1>1, <2>1, <2>2 DEF FlightRead
<1>2. CASE FlightSlot(n)
  <2>0. n # 0
    BY <1>2 DEF FlightSlot, SlotsInv, LayoutTakesNoSlot
  <2>1. Cardinality(Holders') = Cardinality(Holders) + 1
    <3>1. "reread" \in FlightStep \cap Holds /\ flight[n] \notin Holds
      BY <1>2 DEF FlightSlot, FlightStep, Holds
    <3> QED BY <1>0, <1>2, <2>0, <3>1, HoldersAdd DEF FlightSlot
  <2>2. used' = used + 1 /\ used' \in 0..RenderSlots
    BY <1>0, <1>2, PinciteAssumption DEF FlightSlot, TypeOK, PinciteAssumption
  <2>3. TypeOK'
    BY <1>0, <1>2, <2>2 DEF FlightSlot, TypeOK, FlightStep
  <2>4. WarmHolds' = WarmHolds /\ WarmHolds \in {0, 1}
    BY <1>2 DEF FlightSlot, WarmHolds
  <2>5. used' = Cardinality(Holders') + WarmHolds'
    BY <1>0, <2>1, <2>2, <2>4, HoldersNat, SlotsCount DEF SlotsInv
  <2>6. SlotsMatchRenders'
    BY <2>5 DEF SlotsMatchRenders, Holders, Holds, WarmHolds
  <2>7. ChunkInBounds'
    BY <1>2 DEF FlightSlot, SlotsInv, ChunkInBounds, ChunkEnd
  <2>8. LayoutTakesNoSlot'
    BY <1>0, <1>2, <2>0, PinciteAssumption
    DEF FlightSlot, SlotsInv, LayoutTakesNoSlot, TypeOK, Artefact, PinciteAssumption
  <2> QED BY <2>3, <2>6, <2>7, <2>8 DEF SlotsInv
<1>3. CASE FlightReread(n)
  <2>1. failures' \in 0..MaxFailures
    BY <1>0, <1>3, FailureType DEF FlightReread, Missing
  <2>2. CASE \E ok \in BOOLEAN : Land(n, ok) /\ GiveBack(n)
    BY <1>0, <1>3, <2>1, <2>2, LandSlots DEF FlightReread, TypeOK, Holds
  <2>3. CASE /\ flight' = [flight EXCEPT ![n] = "render"]
             /\ UNCHANGED <<row, purge, source, warming, reading, used>>
    <3>1. Holders' = Holders
      <4>1. "render" \in FlightStep /\ (flight[n] \in Holds <=> "render" \in Holds)
        BY <1>3 DEF FlightReread, FlightStep, Holds
      <4> QED BY <1>0, <2>3, <4>1, HoldersSame
    <3>2. TypeOK'
      BY <1>0, <1>3, <2>1, <2>3 DEF FlightReread, TypeOK, FlightStep
    <3>3. LayoutTakesNoSlot'
      BY <1>0, <2>3, PinciteAssumption
      DEF SlotsInv, LayoutTakesNoSlot, TypeOK, Artefact, PinciteAssumption
    <3> QED BY <2>3, <3>1, <3>2, <3>3, SlotsFrame
  <2> QED BY <1>3, <2>2, <2>3 DEF FlightReread
<1>4. CASE FlightPut(n)
  <2>1. stored' \in [Artefact -> Author]
    BY <1>0, <1>4 DEF FlightPut, TypeOK, Author
  <2>2. mem' \in BOOLEAN /\ late' \in BOOLEAN
    BY <1>0, <1>4 DEF FlightPut, TypeOK
  <2> QED BY <1>0, <1>4, <2>1, <2>2, LandSlots DEF FlightPut, TypeOK, Holds
<1>5. CASE FlightFail(n)
  <2>1. failures' \in 0..MaxFailures
    BY <1>0, <1>5, FailureType DEF FlightFail
  <2> QED BY <1>0, <1>5, <2>1, LandSlots DEF FlightFail, TypeOK, Holds
<1> QED BY <1>1, <1>2, <1>3, <1>4, <1>5 DEF FlightNext

\* Every step of the warm-up keeps the invariant: it takes one slot for a
\* chunk and gives it back when the chunk is stored or has failed.
LEMMA WarmSlots ==
  ASSUME SlotsInv, WarmStart \/ WarmNext
  PROVE  SlotsInv'
<1>0. TypeOK /\ LayoutTakesNoSlot /\ 0 \in Artefact
  BY PinciteAssumption DEF SlotsInv, Artefact, PinciteAssumption
<1> USE DEF reading
<1>1. CASE WarmStart
  <2>1. TypeOK'
    BY <1>0, <1>1 DEF WarmStart, TypeOK, WarmStep
  <2> QED BY <1>0, <1>1, <2>1, SlotsFrame DEF WarmStart, Holders, LayoutTakesNoSlot
<1>2. CASE WarmLayout
  <2>1. flight' \in [Artefact -> FlightStep] /\ Holders' = Holders /\ LayoutTakesNoSlot'
    BY <1>0, <1>2, JoinShape DEF WarmLayout, TypeOK, Holders, LayoutTakesNoSlot
  <2>2. TypeOK'
    BY <1>0, <1>2, <2>1 DEF WarmLayout, TypeOK, WarmStep
  <2> QED BY <1>2, <2>1, <2>2, SlotsFrame DEF WarmLayout
<1>3. CASE WarmCheck
  <2>1. failures' \in 0..MaxFailures
    BY <1>0, <1>3, FailureType DEF WarmCheck, Missing
  <2>2. TypeOK'
    BY <1>0, <1>3, <2>1 DEF WarmCheck, TypeOK, WarmStep, Outcome
  <2> QED BY <1>0, <1>3, <2>2, SlotsFrame DEF WarmCheck, Holders, LayoutTakesNoSlot
<1>4. CASE WarmChunk
  <2>1. failures' \in 0..MaxFailures
    BY <1>0, <1>4, FailureType DEF WarmChunk, Missing
  <2>2. from' \in 1..(LastPage + warmChunk) /\ next' \in 1..(LastPage + 1)
    BY <1>0, <1>4, PinciteAssumption DEF WarmChunk, TypeOK, PinciteAssumption
  <2>3. warm' \in WarmStep /\ outcome' \in Outcome
    BY <1>0, <1>4 DEF WarmChunk, TypeOK, WarmStep, Outcome
  <2>4. TypeOK'
    BY <1>0, <1>4, <2>1, <2>2, <2>3 DEF WarmChunk, TypeOK
  <2>5. Holders' = Holders /\ used' = used /\ LayoutTakesNoSlot'
    BY <1>0, <1>4 DEF WarmChunk, Holders, LayoutTakesNoSlot
  <2>6. CASE warm' = "slot"
    <3>1. from' = from /\ next' = from /\ from \in 1..LastPage
      BY <1>0, <1>4, <2>6, PinciteAssumption DEF WarmChunk, TypeOK, PinciteAssumption
    <3>2. ChunkInBounds'
      BY <3>1, ChunkEndBounds DEF ChunkInBounds, ChunkEnd
    <3>3. SlotsMatchRenders'
      BY <1>4, <2>5, <2>6 DEF WarmChunk, SlotsInv, SlotsMatchRenders, Holders
    <3> QED BY <2>4, <2>5, <3>2, <3>3 DEF SlotsInv
  <2>7. CASE warm' # "slot"
    <3>1. warm = "chunk" /\ warm' \notin {"slot", "render"}
      BY <1>4, <2>7 DEF WarmChunk
    <3> QED BY <2>4, <2>5, <3>1, SlotsFrame
  <2> QED BY <2>6, <2>7
<1>5. CASE WarmSlot
  <2>1. used' = used + 1 /\ used' \in 0..RenderSlots
    BY <1>0, <1>5, PinciteAssumption DEF WarmSlot, TypeOK, PinciteAssumption
  <2>2. TypeOK'
    BY <1>0, <1>5, <2>1 DEF WarmSlot, TypeOK, WarmStep
  <2>3. Holders' = Holders /\ LayoutTakesNoSlot' /\ WarmHolds = 0 /\ WarmHolds' = 1
    BY <1>0, <1>5 DEF WarmSlot, Holders, LayoutTakesNoSlot, WarmHolds
  <2>4. used' = Cardinality(Holders') + WarmHolds'
    BY <1>0, <2>1, <2>3, HoldersNat, SlotsCount DEF SlotsInv
  <2>5. SlotsMatchRenders'
    BY <2>4 DEF SlotsMatchRenders, Holders, Holds, WarmHolds
  <2>6. ChunkInBounds'
    BY <1>5 DEF WarmSlot, SlotsInv, ChunkInBounds, ChunkEnd
  <2> QED BY <2>2, <2>3, <2>5, <2>6 DEF SlotsInv
<1>6. ASSUME WarmRender \/ WarmFail, warm = "render", warm' # "render",
             TypeOK /\ used >= 1 /\ used' = used - 1 => TypeOK',
             used' = used - 1
      PROVE  SlotsInv'
  <2>1. Holders' = Holders /\ LayoutTakesNoSlot' /\ WarmHolds = 1 /\ WarmHolds' = 0
    BY <1>0, <1>6 DEF WarmRender, WarmFail, Holders, LayoutTakesNoSlot, WarmHolds
  <2>2. used >= 1 /\ used' = Cardinality(Holders') + WarmHolds'
    BY <1>0, <1>6, <2>1, HoldersNat, SlotsCount DEF SlotsInv
  <2>3. SlotsMatchRenders'
    BY <2>2 DEF SlotsMatchRenders, Holders, Holds, WarmHolds
  <2>4. ChunkInBounds'
    BY <1>6 DEF WarmRender, WarmFail, ChunkInBounds
  <2> QED BY <1>0, <1>6, <2>1, <2>2, <2>3, <2>4 DEF SlotsInv
<1>7. CASE WarmRender
  <2>0. /\ from \in 1..LastPage /\ next \in from..ChunkEnd(from)
        /\ ChunkEnd(from) \in from..LastPage
    BY <1>0, <1>7, ChunkEndBounds, PinciteAssumption
    DEF WarmRender, SlotsInv, ChunkInBounds, TypeOK, PinciteAssumption
  <2>1. stored' \in [Artefact -> Author]
    BY <1>0, <1>7 DEF WarmRender, TypeOK, Author
  <2>2. CASE next = ChunkEnd(from)
    <3>1. from' \in 1..(LastPage + warmChunk) /\ next' = next
      BY <1>7, <2>0, <2>2, PinciteAssumption DEF WarmRender, PinciteAssumption
    <3>2. TypeOK /\ used >= 1 /\ used' = used - 1 => TypeOK'
      BY <1>7, <2>1, <2>2, <3>1, PinciteAssumption
      DEF WarmRender, TypeOK, WarmStep, PinciteAssumption
    <3> QED BY <1>6, <1>7, <2>2, <3>2 DEF WarmRender
  <2>3. CASE next # ChunkEnd(from)
    <3>1. next' \in from..ChunkEnd(from) /\ next' \in 1..(LastPage + 1)
      BY <1>7, <2>0, <2>3, PinciteAssumption DEF WarmRender, PinciteAssumption
    <3>2. TypeOK'
      BY <1>0, <1>7, <2>1, <2>3, <3>1 DEF WarmRender, TypeOK
    <3>3. ChunkInBounds'
      BY <1>7, <2>0, <2>3, <3>1 DEF WarmRender, ChunkInBounds, ChunkEnd
    <3>4. SlotsMatchRenders' /\ LayoutTakesNoSlot'
      BY <1>0, <1>7, <2>3 DEF WarmRender, SlotsInv, SlotsMatchRenders, LayoutTakesNoSlot
    <3> QED BY <3>2, <3>3, <3>4 DEF SlotsInv
  <2> QED BY <2>2, <2>3
<1>8. CASE WarmFail
  <2>1. failures' \in 0..MaxFailures
    BY <1>0, <1>8, FailureType DEF WarmFail
  <2>2. CASE warm = "render"
    <3>1. TypeOK /\ used >= 1 /\ used' = used - 1 => TypeOK'
      BY <1>8, <2>1, PinciteAssumption DEF WarmFail, TypeOK, WarmStep, Outcome, PinciteAssumption
    <3> QED BY <1>6, <1>8, <2>2, <3>1 DEF WarmFail
  <2>3. CASE warm = "slot"
    <3>1. TypeOK'
      BY <1>0, <1>8, <2>1, <2>3 DEF WarmFail, TypeOK, WarmStep, Outcome
    <3> QED BY <1>0, <1>8, <2>3, <3>1, SlotsFrame DEF WarmFail, Holders, LayoutTakesNoSlot
  <2> QED BY <1>8, <2>2, <2>3 DEF WarmFail
<1>9. CASE WarmRecheck
  <2>1. failures' \in 0..MaxFailures
    BY <1>0, <1>9, FailureType DEF WarmRecheck
  <2>2. TypeOK'
    BY <1>0, <1>9, <2>1 DEF WarmRecheck, TypeOK, WarmStep, Author
  <2> QED BY <1>0, <1>9, <2>2, SlotsFrame DEF WarmRecheck, Holders, LayoutTakesNoSlot
<1> QED BY <1>1, <1>2, <1>3, <1>4, <1>5, <1>7, <1>8, <1>9 DEF WarmNext

\* Eviction and the delete touch neither flights nor slots.
LEMMA DeleteSlots ==
  ASSUME SlotsInv, Evict \/ DeleteNext
  PROVE  SlotsInv'
<1>0. TypeOK
  BY DEF SlotsInv
<1>1. UNCHANGED <<warm, outcome, from, next, flight, reader, wants, used>>
  BY DEF Evict, DeleteNext, DeleteDocument, PurgeDocuments, PurgePincites, warming, reading
<1>2. failures' \in 0..MaxFailures
  BY <1>0, FailureType
  DEF Evict, DeleteNext, DeleteDocument, PurgeDocuments, PurgePincites
<1>3. TypeOK'
  BY <1>0, <1>1, <1>2
  DEF Evict, DeleteNext, DeleteDocument, PurgeDocuments, PurgePincites, TypeOK, Author
<1> QED BY <1>1, <1>3, SlotsFrame DEF SlotsInv, LayoutTakesNoSlot, Holders

\* Types, slots and chunk bounds hold of every reachable state.
THEOREM SlotsInvariant == Spec => []SlotsInv
<1>1. Init => SlotsInv
  <2> SUFFICES ASSUME Init PROVE SlotsInv
    OBVIOUS
  <2>1. TypeOK
    <3>1. /\ from \in 1..(LastPage + warmChunk) /\ next \in 1..(LastPage + 1)
          /\ used \in 0..RenderSlots /\ failures \in 0..MaxFailures
      BY PinciteAssumption DEF Init, PinciteAssumption
    <3>2. 0 \in Artefact
      BY PinciteAssumption DEF Artefact, PinciteAssumption
    <3>3. wants \in [Readers -> Artefact]
      BY <3>2 DEF Init
    <3> QED BY <3>1, <3>3 DEF Init, TypeOK, Author, WarmStep, Outcome, FlightStep, ReaderStep
  <2>2. Holders = {}
    BY DEF Init, Holders, Holds, Page, Artefact
  <2>3. used = Cardinality(Holders) + WarmHolds
    BY <2>2, FS_EmptySet DEF Init, WarmHolds
  <2>4. SlotsMatchRenders
    BY <2>1, <2>3, SlotsCount
  <2>5. ChunkInBounds /\ LayoutTakesNoSlot
    BY PinciteAssumption DEF Init, ChunkInBounds, LayoutTakesNoSlot, Artefact, PinciteAssumption
  <2> QED BY <2>1, <2>4, <2>5 DEF SlotsInv
<1>2. SlotsInv /\ [Next]_vars => SlotsInv'
  <2> SUFFICES ASSUME SlotsInv, [Next]_vars PROVE SlotsInv'
    OBVIOUS
  <2>1. Flown \subseteq Artefact
    BY PinciteAssumption DEF Flown, Artefact, PinciteAssumption
  <2>2. CASE UNCHANGED vars
    BY <2>2 DEF vars, SlotsInv, TypeOK, ChunkInBounds, ChunkEnd, LayoutTakesNoSlot, SlotsMatchRenders
  <2> QED BY <2>1, <2>2, ReaderSlots, FlightSlots, WarmSlots, DeleteSlots DEF Next
<1> QED BY <1>1, <1>2, PTL DEF Spec

\* The state is well typed: in particular no slot is given back twice and no
\* more than RenderSlots are ever in use.
THEOREM TypeCorrect == Spec => []TypeOK
BY SlotsInvariant, PTL DEF SlotsInv

\* The slots in use are exactly those held, whatever fails and whoever leaves.
THEOREM NoSlotLeaks == Spec => []SlotsMatchRenders
BY SlotsInvariant, PTL DEF SlotsInv

-----------------------------------------------------------------------------
(***************************************************************************)
(* A deleted document is purged after whatever may still store into it.    *)
(***************************************************************************)
\* The delete handler purges exactly the documents that are gone.
PurgeFollowsDelete == row <=> purge = "idle"

\* A purge that has passed the documents prefix took the source, unless some
\* purge was missed.
SourcePurged == purge \in {"pincites", "done"} /\ ~late => ~source

\* With the purge and the warm-up over, only a late flight can have stored.
ArtefactsPurged ==
  purge = "done" /\ warm = "done" /\ ~late => \A n \in Artefact : ~Exists(n)

PurgeInv == PurgeFollowsDelete /\ SourcePurged /\ ArtefactsPurged

-----------------------------------------------------------------------------
(***************************************************************************)
(* The warm-up leaves no page out.  Behind the chunk it is at, every page  *)
(* is stored or was left to a reader's render; ahead of it, what is stored *)
(* is a reader's.                                                          *)
(***************************************************************************)
Chunking == warm \in {"chunk", "slot", "render"}

\* Before the first chunk the warm-up has stored nothing.
WarmBegins ==
  warm \in {"idle", "layout", "wait", "check"} =>
    from = 1 /\ \A n \in Page : stored[n] # "warm"

\* Chunks begin at multiples of warmChunk, and a page ahead is no page of the
\* warm-up's.
WarmAhead ==
  Chunking =>
    /\ ChunkStart(from) = from
    /\ \A n \in Page : n >= from /\ stored[n] = "warm" => warm = "render" /\ n < next

\* A chunk left behind is stored, or its last page was a reader's.
WarmBehind ==
  Chunking /\ row =>
    \A n \in Page : n < from => Exists(n) \/ stored[ChunkEnd(ChunkStart(n))] = "reader"

\* The chunk being rendered is stored from its first page up to the next.
WarmInside ==
  /\ warm = "slot" => next = from
  /\ warm = "render" /\ row =>
       \A n \in Page : from <= n /\ n < next => Exists(n)

\* Success is reported once, at the end.
OkIsOver == outcome = "ok" => warm \in {"recheck", "done"}

WarmInv ==
  /\ WarmBegins /\ WarmAhead /\ WarmBehind /\ WarmInside
  /\ OkIsOver /\ WarmIsComplete

-----------------------------------------------------------------------------
\* Most steps store nothing: they move a reader or a flight, and at most
\* bring the warm-up to its first chunk or let its layout fail.
Quiet ==
  /\ UNCHANGED <<row, purge, source, stored, late, from, next>>
  /\ \/ warm' = warm
     \/ /\ warm \in {"idle", "layout", "wait"}
        /\ warm' \in {"layout", "wait", "check", "recheck"}
  /\ outcome' \in {outcome, "failed"}

\* These are the steps of the readers, the reads of the flights, eviction and
\* the start of the warm-up.
LEMMA QuietSteps ==
  ASSUME TypeOK
  PROVE  /\ \A r \in Readers : \A n \in Wanted : Request(r, n) => Quiet
         /\ \A r \in Readers : GetLayout(r) \/ GetImage(r) \/ Leave(r) => Quiet
         /\ \A n \in Artefact :
              FlightRead(n) \/ FlightSlot(n) \/ FlightReread(n) \/ FlightFail(n) => Quiet
         /\ WarmStart \/ WarmLayout \/ Evict => Quiet
<1> USE DEF Quiet, warming, reading
<1>1. ASSUME NEW r \in Readers, NEW n \in Wanted, Request(r, n)
      PROVE  Quiet
  BY <1>1 DEF Request
<1>2. ASSUME NEW r \in Readers, GetLayout(r) \/ GetImage(r) \/ Leave(r)
      PROVE  Quiet
  BY <1>2 DEF GetLayout, GetImage, Leave
<1>3. ASSUME NEW n \in Artefact, NEW ok \in BOOLEAN, Land(n, ok), UNCHANGED <<stored, late>>
      PROVE  Quiet
  BY <1>3, LandShape
<1>4. ASSUME NEW n \in Artefact,
             FlightRead(n) \/ FlightSlot(n) \/ FlightReread(n) \/ FlightFail(n)
      PROVE  Quiet
  BY <1>3, <1>4 DEF FlightRead, FlightSlot, FlightReread, FlightFail
<1>5. WarmStart \/ WarmLayout \/ Evict => Quiet
  BY DEF WarmStart, WarmLayout, Evict
<1> QED BY <1>1, <1>2, <1>4, <1>5

\* Every step is quiet, a flight's store, a step of the warm-up proper or a
\* step of the delete.
LEMMA StepKinds ==
  ASSUME TypeOK, Next
  PROVE  \/ Quiet
         \/ \E n \in Artefact : FlightPut(n)
         \/ WarmCheck \/ WarmChunk \/ WarmSlot \/ WarmRender \/ WarmFail \/ WarmRecheck
         \/ DeleteNext
<1>1. Flown \subseteq Artefact
  BY PinciteAssumption DEF Flown, Artefact, PinciteAssumption
<1> QED BY <1>1, QuietSteps DEF Next, FlightNext, WarmNext

\* What a flight's store does: one artefact becomes a reader's, and a store
\* after the purge is late.
LEMMA PutShape ==
  ASSUME TypeOK, NEW n \in Artefact, FlightPut(n)
  PROVE  /\ stored' = [stored EXCEPT ![n] = "reader"] \/ stored' = stored
         /\ late' = (late \/ (purge = "done" /\ stored' # stored))
         /\ UNCHANGED <<row, purge, source, from, next>>
         /\ \/ warm' = warm
            \/ warm = "wait" /\ warm' \in {"check", "recheck"}
         /\ outcome' \in {outcome, "failed"}
BY LandShape DEF FlightPut

\* Nothing stored stays behind a delete.
THEOREM PurgeInvariant == Spec => []PurgeInv
<1>1. Init => PurgeInv
  BY DEF Init, PurgeInv, PurgeFollowsDelete, SourcePurged, ArtefactsPurged
<1>2. TypeOK /\ PurgeInv /\ [Next]_vars => PurgeInv'
  <2> SUFFICES ASSUME TypeOK, PurgeInv, [Next]_vars PROVE PurgeInv'
    OBVIOUS
  <2> USE DEF PurgeInv, PurgeFollowsDelete, SourcePurged, ArtefactsPurged, Exists, warming
  <2>1. CASE Quiet
    BY <2>1 DEF Quiet
  <2>2. ASSUME NEW n \in Artefact, FlightPut(n)
        PROVE  PurgeInv'
    BY <2>2, PutShape
  <2>3. CASE WarmCheck \/ WarmChunk \/ WarmSlot \/ WarmRender \/ WarmFail
    BY <2>3 DEF WarmCheck, WarmChunk, WarmSlot, WarmRender, WarmFail
  <2>4. CASE WarmRecheck
    BY <2>4 DEF WarmRecheck
  <2>5. CASE DeleteDocument
    BY <2>5 DEF DeleteDocument
  <2>6. CASE PurgeDocuments
    BY <2>6 DEF PurgeDocuments
  <2>7. CASE PurgePincites
    BY <2>7 DEF PurgePincites
  <2>8. CASE UNCHANGED vars
    BY <2>8 DEF vars
  <2> QED BY <2>1, <2>2, <2>3, <2>4, <2>5, <2>6, <2>7, <2>8, StepKinds DEF DeleteNext
<1> QED BY <1>1, <1>2, TypeCorrect, PTL DEF Spec

\* Once the purge and the warm-up of a deleted document are over and nothing
\* was late, neither its source nor any layout or page of it is stored.
THEOREM DeletedLeavesNothing == Spec => []DeletedIsGone
<1>1. PurgeInv => DeletedIsGone
  BY DEF PurgeInv, SourcePurged, ArtefactsPurged, DeletedIsGone
<1> QED BY <1>1, PurgeInvariant, PTL

-----------------------------------------------------------------------------
(***************************************************************************)
(* The arithmetic of chunks.                                               *)
(***************************************************************************)
\* Division rounds down.
LEMMA DivBounds ==
  ASSUME NEW a \in Nat, NEW b \in Nat \ {0}
  PROVE  /\ a \div b \in Nat
         /\ (a \div b) * b <= a
         /\ a < (a \div b) * b + b
OBVIOUS

\* A quotient is determined by the multiple below its dividend.
LEMMA DivUnique ==
  ASSUME NEW a \in Nat, NEW b \in Nat \ {0}, NEW q \in Nat,
         q * b <= a, a < q * b + b
  PROVE  a \div b = q
<1> DEFINE p == a \div b
<1>1. p \in Nat /\ p * b <= a /\ a < p * b + b
  BY DivBounds
<1> HIDE DEF p
<1>2. ASSUME NEW x \in Nat, NEW y \in Nat, x < y
      PROVE  x * b + b <= y * b
  <2>1. y = x + (y - x) /\ y - x >= 1 /\ y - x \in Nat
    BY <1>2
  <2>2. y * b = x * b + (y - x) * b
    BY <2>1
  <2>3. (y - x) * b >= b
    BY <2>1
  <2> QED BY <2>2, <2>3
<1>3. ~(p < q) /\ ~(q < p)
  BY <1>1, <1>2
<1> QED BY <1>1, <1>3 DEF p

\* A chunk's start is a start, and the page is in the chunk.
LEMMA ChunkStartBounds ==
  ASSUME NEW n \in Nat \ {0}
  PROVE  /\ ChunkStart(n) \in 1..n /\ n < ChunkStart(n) + warmChunk
BY DivBounds, PinciteAssumption DEF ChunkStart, PinciteAssumption

\* Every page of the chunk that begins at p has p for its start.
LEMMA ChunkStartInside ==
  ASSUME NEW p \in Nat \ {0}, ChunkStart(p) = p, NEW n \in p..(p + warmChunk - 1)
  PROVE  ChunkStart(n) = p
<1> DEFINE q == (p - 1) \div warmChunk
<1>1. q \in Nat /\ p = q * warmChunk + 1 /\ warmChunk \in Nat \ {0}
  BY DivBounds, PinciteAssumption DEF ChunkStart, PinciteAssumption
<1> HIDE DEF q
<1>2. q * warmChunk \in Nat
  BY <1>1
<1>3. n - 1 \in Nat /\ q * warmChunk <= n - 1 /\ n - 1 < q * warmChunk + warmChunk
  BY <1>1, <1>2
<1>4. (n - 1) \div warmChunk = q
  BY <1>1, <1>3, DivUnique
<1> QED BY <1>1, <1>4 DEF ChunkStart

\* The next chunk begins where this one ends,
LEMMA ChunkStartNext ==
  ASSUME NEW p \in Nat \ {0}, ChunkStart(p) = p
  PROVE  ChunkStart(p + warmChunk) = p + warmChunk
<1> DEFINE q == (p - 1) \div warmChunk
<1>1. q \in Nat /\ p = q * warmChunk + 1 /\ warmChunk \in Nat \ {0}
  BY DivBounds, PinciteAssumption DEF ChunkStart, PinciteAssumption
<1> HIDE DEF q
<1>2. (q + 1) * warmChunk = q * warmChunk + warmChunk /\ q * warmChunk \in Nat
  BY <1>1
<1> DEFINE a == p + warmChunk - 1
<1>3. a \in Nat /\ (q + 1) * warmChunk <= a /\ a < (q + 1) * warmChunk + warmChunk
  BY <1>1, <1>2
<1> HIDE DEF a
<1>4. a \div warmChunk = q + 1
  BY <1>1, <1>3, DivUnique
<1> QED BY <1>1, <1>2, <1>4 DEF ChunkStart, a

\* and an earlier page's chunk ends before this one begins.
LEMMA ChunkStartBefore ==
  ASSUME NEW p \in Nat \ {0}, ChunkStart(p) = p, NEW n \in Nat \ {0}, n < p
  PROVE  ChunkStart(n) + warmChunk <= p
<1> DEFINE q == (p - 1) \div warmChunk
           s == (n - 1) \div warmChunk
<1>1. q \in Nat /\ p = q * warmChunk + 1 /\ warmChunk \in Nat \ {0}
  BY DivBounds, PinciteAssumption DEF ChunkStart, PinciteAssumption
<1>2. s \in Nat /\ s * warmChunk <= n - 1
  BY DivBounds, PinciteAssumption DEF PinciteAssumption
<1>3. ChunkStart(n) = s * warmChunk + 1
  BY DEF ChunkStart
<1> HIDE DEF q, s
<1>4. s < q
  <2>1. s * warmChunk < q * warmChunk
    BY <1>1, <1>2
  <2>2. SUFFICES ASSUME s >= q PROVE s * warmChunk >= q * warmChunk
    BY <1>1, <1>2, <2>1
  <2> QED BY <1>1, <1>2, <2>2
<1>5. q * warmChunk = s * warmChunk + (q - s) * warmChunk /\ (q - s) * warmChunk >= warmChunk
  BY <1>1, <1>2, <1>4
<1> QED BY <1>1, <1>2, <1>3, <1>5

\* The last page of a page's chunk is a page.
LEMMA ChunkLastPage ==
  ASSUME NEW n \in Page
  PROVE  /\ ChunkStart(n) \in 1..n
         /\ ChunkEnd(ChunkStart(n)) \in Page /\ ChunkEnd(ChunkStart(n)) \in Artefact
         /\ ChunkEnd(ChunkStart(n)) < ChunkStart(n) + warmChunk
BY ChunkStartBounds, ChunkEndBounds, PinciteAssumption
DEF Page, Artefact, ChunkEnd, Min2, PinciteAssumption

\* The first chunk is one.
LEMMA FirstChunk == ChunkStart(1) = 1
BY ChunkStartBounds, PinciteAssumption DEF PinciteAssumption

\* Steps that store nothing, or a reader's page, keep what is said of the
\* warm-up's pages.
LEMMA WarmFrame ==
  ASSUME TypeOK, WarmInv,
         stored' = stored \/ \E n \in Artefact : stored' = [stored EXCEPT ![n] = "reader"],
         UNCHANGED <<from, next>>, row' => row,
         \/ warm' = warm
         \/ /\ warm \in {"idle", "layout", "wait"}
            /\ warm' \in {"layout", "wait", "check", "recheck"}
         \/ warm' \in {"recheck", "done"},
         outcome' = "ok" => outcome = "ok"
  PROVE  WarmInv'
<1> USE DEF WarmInv, Chunking
<1>1. /\ \A n \in Artefact : Exists(n) => Exists(n)'
      /\ \A n \in Artefact : stored[n] = "reader" => stored'[n] = "reader"
      /\ \A n \in Artefact : stored'[n] = "warm" => stored[n] = "warm"
  BY DEF TypeOK, Exists
<1>2. Page \subseteq Artefact /\ LastPage \in Artefact
  BY PinciteAssumption DEF Page, Artefact, PinciteAssumption
<1>3. WarmBegins'
  BY <1>1, <1>2 DEF WarmBegins
<1>4. WarmAhead'
  BY <1>1, <1>2 DEF WarmAhead, ChunkStart
<1>5. WarmBehind'
  BY <1>1, <1>2, ChunkLastPage DEF WarmBehind, ChunkStart, ChunkEnd
<1>6. WarmInside'
  BY <1>1, <1>2 DEF WarmInside
<1>7. OkIsOver'
  BY DEF OkIsOver
<1>8. WarmIsComplete'
  BY <1>1, <1>2, ChunkLastPage DEF WarmIsComplete, ChunkStart, ChunkEnd
<1> QED BY <1>3, <1>4, <1>5, <1>6, <1>7, <1>8

\* The check of the last page: if it is there already, a reader stored it.
LEMMA WarmCheckKeeps ==
  ASSUME TypeOK, WarmInv, WarmCheck
  PROVE  WarmInv'
<1> USE DEF WarmInv, Chunking
<1>0. from = 1 /\ (\A n \in Page : stored[n] # "warm") /\ UNCHANGED <<row, stored, from, next>>
  BY DEF WarmCheck, WarmBegins
<1>1. CASE Exists(LastPage) /\ warm' = "recheck" /\ outcome' = "ok"
  <2>1. stored[LastPage] = "reader"
    BY <1>0, <1>1, PinciteAssumption DEF Exists, TypeOK, Author, Page, Artefact, PinciteAssumption
  <2> QED BY <1>0, <1>1, <2>1
          DEF WarmBegins, WarmAhead, WarmBehind, WarmInside, OkIsOver, WarmIsComplete
<1>2. CASE warm' = "chunk" /\ UNCHANGED outcome
  <2>1. outcome # "ok"
    BY DEF WarmCheck, OkIsOver
  <2>2. WarmAhead'
    BY <1>0, <1>2, FirstChunk DEF WarmAhead, ChunkStart
  <2>3. WarmBehind'
    BY <1>0, <1>2 DEF WarmBehind, Page
  <2> QED BY <1>0, <1>2, <2>1, <2>2, <2>3 DEF WarmBegins, WarmInside, OkIsOver, WarmIsComplete
<1>3. CASE warm' = "recheck" /\ outcome' = "failed"
  BY <1>0, <1>3, WarmFrame
<1> QED BY <1>1, <1>2, <1>3 DEF WarmCheck

\* A chunk is skipped only when its last page is a reader's.
LEMMA WarmChunkKeeps ==
  ASSUME SlotsInv, WarmInv, WarmChunk
  PROVE  WarmInv'
<1> USE DEF WarmInv, Chunking
<1>0. /\ TypeOK /\ warm = "chunk" /\ UNCHANGED <<row, stored>>
      /\ from \in Nat \ {0} /\ ChunkStart(from) = from
      /\ LastPage \in Nat /\ warmChunk \in Nat \ {0}
      /\ outcome # "ok"
      /\ \A n \in Page : n >= from => stored[n] # "warm"
  BY PinciteAssumption
  DEF WarmChunk, SlotsInv, TypeOK, WarmAhead, OkIsOver, PinciteAssumption
<1>1. CASE from > LastPage /\ warm' = "recheck" /\ outcome' = "ok" /\ UNCHANGED <<from, next>>
  <2>1. WarmIsComplete'
    BY <1>0, <1>1 DEF WarmBehind, WarmIsComplete, Exists, ChunkStart, ChunkEnd, Page
  <2> QED BY <1>1, <2>1 DEF WarmBegins, WarmAhead, WarmBehind, WarmInside, OkIsOver
<1>2. CASE warm' = "recheck" /\ outcome' = "failed" /\ UNCHANGED <<from, next>>
  BY <1>0, <1>2, WarmFrame
<1>3. CASE /\ from <= LastPage /\ Exists(ChunkEnd(from))
           /\ from' = from + warmChunk /\ UNCHANGED <<warm, next, outcome>>
  <2>1. ChunkEnd(from) \in Page /\ ChunkEnd(from) >= from /\ ChunkEnd(from) \in Artefact
    BY <1>0, <1>3, ChunkEndBounds DEF Page, Artefact
  <2>2. stored[ChunkEnd(from)] = "reader"
    BY <1>0, <1>3, <2>1 DEF Exists, TypeOK, Author
  <2>3. WarmAhead'
    <3>1. ChunkStart(from + warmChunk) = from + warmChunk
      BY <1>0, ChunkStartNext
    <3> QED BY <1>0, <1>3, <3>1 DEF WarmAhead, ChunkStart, Page
  <2>4. WarmBehind'
    <3>1. ASSUME NEW n \in Page, row, n < from + warmChunk
          PROVE  Exists(n) \/ stored[ChunkEnd(ChunkStart(n))] = "reader"
      <4>1. CASE n < from
        BY <1>0, <3>1, <4>1 DEF WarmBehind
      <4>2. CASE n >= from
        <5>1. ChunkStart(n) = from
          BY <1>0, <3>1, <4>2, ChunkStartInside DEF Page
        <5> QED BY <2>2, <5>1
      <4> QED BY <1>0, <4>1, <4>2 DEF Page
    <3> QED BY <1>0, <1>3, <3>1 DEF WarmBehind, Exists, ChunkStart, ChunkEnd
  <2> QED BY <1>0, <1>3, <2>3, <2>4 DEF WarmBegins, WarmInside, OkIsOver, WarmIsComplete
<1>4. CASE from <= LastPage /\ warm' = "slot" /\ next' = from /\ UNCHANGED <<from, outcome>>
  <2>1. WarmAhead' /\ WarmBehind'
    BY <1>0, <1>4 DEF WarmAhead, WarmBehind, Exists, ChunkStart, ChunkEnd
  <2> QED BY <1>0, <1>4, <2>1 DEF WarmBegins, WarmInside, OkIsOver, WarmIsComplete
<1> QED BY <1>1, <1>2, <1>3, <1>4 DEF WarmChunk

\* The render stores page after page of the chunk; the pages behind it, and
\* the readers' pages that excuse them, are left as they are.
LEMMA WarmRenderKeeps ==
  ASSUME SlotsInv, WarmInv, WarmRender
  PROVE  WarmInv'
<1> USE DEF WarmInv, Chunking
<1>0. /\ TypeOK /\ warm = "render" /\ UNCHANGED <<row, outcome>> /\ outcome # "ok"
      /\ from \in 1..LastPage /\ ChunkStart(from) = from
      /\ LastPage \in Nat /\ warmChunk \in Nat \ {0}
      /\ next \in from..ChunkEnd(from) /\ ChunkEnd(from) \in from..LastPage
      /\ ChunkEnd(from) < from + warmChunk
  BY PinciteAssumption, ChunkEndBounds
  DEF WarmRender, SlotsInv, TypeOK, ChunkInBounds, WarmAhead, OkIsOver, ChunkEnd, Min2,
      PinciteAssumption
<1>1. /\ next \in Artefact /\ stored' = [stored EXCEPT ![next] = "warm"]
      /\ stored'[next] = "warm" /\ \A n \in Artefact \ {next} : stored'[n] = stored[n]
      /\ Page \subseteq Artefact
  BY <1>0 DEF WarmRender, TypeOK, Page, Artefact
<1>2. ASSUME NEW n \in Page, row, n < from
      PROVE  Exists(n)' \/ stored'[ChunkEnd(ChunkStart(n))] = "reader"
  <2>1. ChunkStart(n) + warmChunk <= from
    BY <1>0, <1>2, ChunkStartBefore DEF Page
  <2>2. ChunkEnd(ChunkStart(n)) < from /\ ChunkEnd(ChunkStart(n)) \in Artefact
    BY <1>0, <2>1, ChunkLastPage DEF Page
  <2>3. n # next /\ ChunkEnd(ChunkStart(n)) # next
    BY <1>0, <1>2, <2>2 DEF Page, Artefact
  <2> QED BY <1>0, <1>1, <1>2, <2>2, <2>3 DEF WarmBehind, Exists
<1>3. ASSUME NEW n \in Page, row, from <= n, n <= next
      PROVE  Exists(n)'
  BY <1>0, <1>1, <1>3 DEF WarmInside, Exists, Page
<1>4. ASSUME NEW n \in Page, n >= from, stored'[n] = "warm"
      PROVE  n <= next
  BY <1>0, <1>1, <1>4 DEF WarmAhead, Page
<1>5. CASE next = ChunkEnd(from)
  <2>1. from' = from + warmChunk /\ warm' = "chunk" /\ next' = next
    BY <1>5 DEF WarmRender
  <2>2. WarmAhead'
    <3>1. ChunkStart(from + warmChunk) = from + warmChunk
      BY <1>0, ChunkStartNext
    <3>2. \A n \in Page : n >= from + warmChunk => stored'[n] # "warm"
      BY <1>0, <1>4, <1>5 DEF Page
    <3> QED BY <2>1, <3>1, <3>2 DEF WarmAhead, ChunkStart
  <2>3. WarmBehind'
    <3>1. ASSUME NEW n \in Page, row, n < from + warmChunk
          PROVE  Exists(n)' \/ stored'[ChunkEnd(ChunkStart(n))] = "reader"
      <4>1. n < from \/ (from <= n /\ n <= next)
        BY <1>0, <1>5, <3>1 DEF Page, ChunkEnd, Min2
      <4> QED BY <1>2, <1>3, <3>1, <4>1
    <3> QED BY <1>0, <2>1, <3>1 DEF WarmBehind, ChunkStart, ChunkEnd
  <2> QED BY <1>0, <2>1, <2>2, <2>3 DEF WarmBegins, WarmInside, OkIsOver, WarmIsComplete
<1>6. CASE next # ChunkEnd(from)
  <2>1. from' = from /\ warm' = warm /\ next' = next + 1
    BY <1>6 DEF WarmRender
  <2>2. WarmAhead'
    BY <1>0, <1>4, <2>1 DEF WarmAhead, ChunkStart, Page
  <2>3. WarmBehind'
    BY <1>0, <1>2, <2>1 DEF WarmBehind, ChunkStart, ChunkEnd
  <2>4. WarmInside'
    BY <1>0, <1>3, <2>1 DEF WarmInside, Page
  <2> QED BY <1>0, <2>1, <2>2, <2>3, <2>4 DEF WarmBegins, OkIsOver, WarmIsComplete
<1> QED BY <1>5, <1>6

\* What is said of the warm-up holds of every reachable state.
THEOREM WarmInvariant == Spec => []WarmInv
<1>1. Init => WarmInv
  BY PinciteAssumption
  DEF Init, WarmInv, WarmBegins, WarmAhead, WarmBehind, WarmInside, OkIsOver, WarmIsComplete,
      Chunking, Page, Artefact, PinciteAssumption
<1>2. SlotsInv /\ PurgeInv /\ WarmInv /\ [Next]_vars => WarmInv'
  <2> SUFFICES ASSUME SlotsInv, PurgeInv, WarmInv, [Next]_vars PROVE WarmInv'
    OBVIOUS
  <2>0. TypeOK
    BY DEF SlotsInv
  <2>1. CASE Quiet
    BY <2>0, <2>1, WarmFrame DEF Quiet
  <2>2. ASSUME NEW n \in Artefact, FlightPut(n)
        PROVE  WarmInv'
    BY <2>0, <2>2, PutShape, WarmFrame
  <2>3. CASE WarmSlot
    <3>1. /\ warm = "slot" /\ warm' = "render" /\ next = from /\ outcome # "ok"
          /\ UNCHANGED <<row, stored, from, next, outcome>>
      BY <2>3 DEF WarmSlot, WarmInv, WarmInside, OkIsOver
    <3>2. WarmAhead' /\ WarmBehind'
      BY <3>1 DEF WarmInv, WarmAhead, WarmBehind, Chunking, Exists, ChunkStart, ChunkEnd
    <3>3. WarmInside'
      <4>1. from \in Nat
        BY <2>0 DEF TypeOK
      <4> QED BY <3>1, <4>1 DEF WarmInside, Page
    <3> QED BY <3>1, <3>2, <3>3 DEF WarmInv, WarmBegins, OkIsOver, WarmIsComplete
  <2>4. CASE WarmFail
    BY <2>0, <2>4, WarmFrame DEF WarmFail
  <2>5. CASE WarmRecheck
    <3>1. CASE row
      BY <2>0, <2>5, <3>1, WarmFrame DEF WarmRecheck
    <3>2. CASE ~row
      BY <2>5, <3>2 DEF WarmRecheck, WarmInv, WarmBegins, WarmAhead, WarmBehind,
         WarmInside, OkIsOver, WarmIsComplete, Chunking
    <3> QED BY <3>1, <3>2
  <2>6. CASE DeleteDocument \/ PurgeDocuments
    BY <2>0, <2>6, WarmFrame DEF DeleteDocument, PurgeDocuments, warming
  <2>7. CASE PurgePincites
    <3>1. ~row /\ row' = row /\ UNCHANGED warming
      BY <2>7 DEF PurgePincites, PurgeInv, PurgeFollowsDelete
    <3>2. \A n \in Page : stored'[n] # "warm" \/ stored' = stored
      BY <2>7, PinciteAssumption DEF PurgePincites, Page, Artefact, PinciteAssumption
    <3> QED BY <3>1, <3>2 DEF warming, WarmInv, WarmBegins, WarmAhead, WarmBehind,
               WarmInside, OkIsOver, WarmIsComplete, Chunking, ChunkStart
  <2>8. CASE UNCHANGED vars
    BY <2>0, <2>8, WarmFrame DEF vars
  <2> QED BY <2>0, <2>1, <2>2, <2>3, <2>4, <2>5, <2>6, <2>7, <2>8, StepKinds,
             WarmCheckKeeps, WarmChunkKeeps, WarmRenderKeeps DEF DeleteNext
<1> QED BY <1>1, <1>2, SlotsInvariant, PurgeInvariant, PTL DEF Spec

\* A warm-up that reports success on a live document left no page out, other
\* than those a reader's own render made it skip.
THEOREM WarmLeavesNoPageOut == Spec => []WarmIsComplete
BY WarmInvariant, PTL DEF WarmInv
====
