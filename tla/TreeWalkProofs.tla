--------------------------- MODULE TreeWalkProofs ---------------------------
(***************************************************************************)
(* Proofs about the navigation loop, for every document, every reply of    *)
(* the model and every setting of the limits.                              *)
(***************************************************************************)
EXTENDS TreeWalk, OrderingProofs

-----------------------------------------------------------------------------
(***************************************************************************)
(* The last page of a document.                                            *)
(***************************************************************************)
\* Among finitely many things one has the greatest number: the one that the
\* fewest others exceed.
LEMMA GreatestOf ==
  ASSUME NEW S, IsFiniteSet(S), S # {}, NEW f \in [S -> Nat]
  PROVE  \E s \in S : \A t \in S : f[t] <= f[s]
<1> DEFINE Above(s) == {t \in S : f[t] > f[s]}
           Counts == {Cardinality(Above(s)) : s \in S}
<1>1. \A s \in S : IsFiniteSet(Above(s)) /\ Cardinality(Above(s)) \in Nat
  <2> SUFFICES ASSUME NEW s \in S
               PROVE  IsFiniteSet(Above(s)) /\ Cardinality(Above(s)) \in Nat
    OBVIOUS
  <2>1. Above(s) \in SUBSET S
    OBVIOUS
  <2> HIDE DEF Above
  <2> QED BY <2>1, FS_Subset, FS_CardinalityType
<1>2. Counts \in SUBSET Nat /\ Counts # {}
  BY <1>1
<1>3. PICK c \in Counts : \A d \in Counts : c <= d
  <2> HIDE DEF Counts
  <2> QED BY <1>2, LeastNatural
<1>4. PICK s \in S : c = Cardinality(Above(s))
  BY <1>3
<1>5. ASSUME NEW t \in S, f[t] > f[s] PROVE FALSE
  <2>1. Above(t) \in SUBSET Above(s) /\ t \in Above(s) /\ t \notin Above(t)
    BY <1>5
  <2>2. Cardinality(Above(s)) <= Cardinality(Above(t))
    BY <1>3, <1>4
  <2> HIDE DEF Above
  <2>3. Cardinality(Above(t)) <= Cardinality(Above(s))
    BY <1>1, <2>1, FS_Subset
  <2>4. Cardinality(Above(s)) = Cardinality(Above(t))
    BY <1>1, <2>2, <2>3
  <2>5. Above(s) = Above(t)
    BY <1>1, <2>1, <2>4, FS_Subset
  <2> QED BY <2>1, <2>5
<1> QED BY <1>5

\* maxKnownPage is a page number, or 0: a document has finitely many sections.
LEMMA LastPage ==
  ASSUME NEW d \in Documents
  PROVE  maxKnownPage(d) \in Nat
<1>1. d \in Seq(SectionType)
  BY TreeWalkAssumption
<1>2. \A i \in Paged(d) : d[i].end \in Nat
  <2>1. \A i \in Paged(d) : d[i] \in SectionType
    BY <1>1 DEF Paged
  <2> QED BY <2>1 DEF SectionType
<1>3. IsFiniteSet(Paged(d))
  <2>1. Len(d) \in Nat /\ Paged(d) \in SUBSET (1..Len(d))
    BY <1>1 DEF Paged
  <2>2. IsFiniteSet(1..Len(d))
    BY <2>1, FS_Interval
  <2> QED BY <2>1, <2>2, FS_Subset
<1>4. \E m \in {0} \cup {d[i].end : i \in Paged(d)} : \A i \in Paged(d) : d[i].end <= m
  <2>1. CASE Paged(d) = {}
    BY <2>1
  <2>2. CASE Paged(d) # {}
    <3> DEFINE f == [i \in Paged(d) |-> d[i].end]
    <3>1. f \in [Paged(d) -> Nat]
      BY <1>2
    <3>2. PICK s \in Paged(d) : \A t \in Paged(d) : f[t] <= f[s]
      <4> HIDE DEF f
      <4> QED BY <1>3, <2>2, <3>1, GreatestOf
    <3> QED BY <3>2
  <2> QED BY <2>1, <2>2
<1>5. maxKnownPage(d) \in {0} \cup {d[i].end : i \in Paged(d)}
  BY <1>4, Zenon DEF maxKnownPage
<1> QED BY <1>2, <1>5

-----------------------------------------------------------------------------
(***************************************************************************)
(* Ranges stay in the document.                                            *)
(***************************************************************************)

\* A range of pages of a document whose last known page is m; 0 is unknown.
InDocument(r, m) ==
  /\ r.start \in Nat /\ r.end \in Nat
  /\ 1 <= r.start /\ r.start <= r.end
  /\ m > 0 => r.end <= m

RangesOf(m) == {r \in [start: Nat, end: Nat] : InDocument(r, m)}

\* Whatever clampRange accepts lies within the document.
LEMMA ClampInDocument ==
  ASSUME NEW start \in Int, NEW end \in Int, NEW m \in Nat,
         clampRange(start, end, m).ok
  PROVE  clampRange(start, end, m).range \in RangesOf(m)
<1> DEFINE s == IF start <= 0 THEN 1 ELSE start
           e == IF end <= 0 THEN s ELSE end
           lo == IF s > e THEN e ELSE s
           hi == IF s > e THEN s ELSE e
           top == IF m > 0 /\ hi > m THEN m ELSE hi
<1>1. clampRange(start, end, m).range = [start |-> lo, end |-> top]
  BY DEF clampRange, PageRange
<1>2. m > 0 => lo <= m
  BY DEF clampRange
<1>3. lo \in Nat /\ top \in Nat /\ 1 <= lo /\ lo <= top /\ (m > 0 => top <= m)
  BY <1>2
<1> HIDE DEF lo, top
<1> QED  BY <1>1, <1>3 DEF RangesOf, InDocument

\* So does every citation selectCitedRanges keeps.
LEMMA SelectedInDocument ==
  ASSUME NEW citations \in CitationLists, NEW m \in Nat
  PROVE  selectCitedRanges(citations, m) \subseteq RangesOf(m)
<1> SUFFICES ASSUME NEW i \in Kept(citations, m)
             PROVE  Clamped(citations, i, m).range \in RangesOf(m)
  BY Zenon DEF selectCitedRanges
<1>1. i \in DOMAIN citations /\ Clamped(citations, i, m).ok
  BY Zenon DEF Kept, Usable
<1>2. citations[i].start \in Int /\ citations[i].end \in Int
  <2>1. citations \in Seq(CitationType)
    BY TreeWalkAssumption
  <2>2. citations[i] \in CitationType
    BY <2>1, <1>1
  <2> QED  BY <2>2 DEF CitationType
<1> QED  BY <1>1, <1>2, ClampInDocument DEF Clamped

-----------------------------------------------------------------------------
\* What a get_pages call may append for a document.
EntriesOf(d) == {PageReadEntry(d, r) : r \in RangesOf(maxKnownPage(d))}

\* How far the loop has got, and how many calls have come back by then.
HopCount ==
  /\ hop \in 0..MaxHops /\ hopsTaken \in Nat
  /\ phase \in Phase
  /\ phase = "start" => hop = 0 /\ hopsTaken = 0
  /\ phase = "ask" => hop < MaxHops /\ hopsTaken = hop
  /\ phase = "reply" => hop < MaxHops /\ hopsTaken = hop + 1
  /\ phase = "force" => hop = MaxHops /\ hopsTaken = hop
  /\ phase = "forced" => hop = MaxHops /\ hopsTaken = hop + 1
  /\ hopsTaken <= hop + 1

\* The inductive invariant of the loop.
WalkInv ==
  /\ doc \in Documents
  /\ pagesRead \in Seq(EntriesOf(doc)) /\ Len(pagesRead) <= hop
  /\ cited \subseteq RangesOf(maxKnownPage(doc))
  /\ HopCount

\* The loop begins with the invariant.
LEMMA WalkInit == Init => WalkInv
<1> SUFFICES ASSUME Init PROVE WalkInv
  OBVIOUS
<1>1. pagesRead \in Seq(EntriesOf(doc)) /\ Len(pagesRead) = 0
  BY DEF Init
<1>2. HopCount
  BY TreeWalkAssumption DEF Init, HopCount, Phase
<1> QED  BY <1>1, <1>2 DEF Init, WalkInv

\* Counting hops: each action against the phase it ends in.
LEMMA HopStep == ASSUME WalkInv, [Next]_vars PROVE HopCount' /\ hop' >= hop
<1>0. MaxHops \in Nat \ {0} /\ HopCount
  BY TreeWalkAssumption DEF WalkInv
<1>1. CASE Begin
  BY <1>0, <1>1 DEF Begin, HopCount, Phase
<1>2. CASE Complete
  BY <1>0, <1>2 DEF Complete, HopCount, Phase
<1>3. CASE NextHop /\ phase = "reply"
  BY <1>0, <1>3 DEF NextHop, HopCount, Phase
<1>4. CASE ForceComplete
  BY <1>0, <1>4 DEF ForceComplete, HopCount, Phase
<1>5. CASE phase' = "done" /\ UNCHANGED <<hop, hopsTaken>>
  BY <1>0, <1>5 DEF HopCount, Phase
<1>6. CASE UNCHANGED vars
  BY <1>0, <1>6 DEF vars, HopCount
<1> QED
  BY <1>1, <1>2, <1>3, <1>4, <1>5, <1>6, Zenon
  DEF Next, Observe, GetPages, Done, ForcedEmpty

\* What is read and what is cited: only get_pages and done touch them.
LEMMA PageStep ==
  ASSUME WalkInv, [Next]_vars
  PROVE  /\ doc' = doc
         /\ pagesRead' \in Seq(EntriesOf(doc))
         /\ pagesRead' # pagesRead => Len(pagesRead') = Len(pagesRead) + 1 /\ hop' = hop + 1
         /\ cited' \subseteq RangesOf(maxKnownPage(doc))
<1> DEFINE m == maxKnownPage(doc)
<1>0. m \in Nat
  BY LastPage DEF WalkInv
<1> HIDE DEF m
<1>1. ASSUME NEW start \in PageArgs, NEW end \in PageArgs, GetPages(start, end)
      PROVE  /\ doc' = doc /\ cited' = cited
             /\ pagesRead' \in Seq(EntriesOf(doc))
             /\ pagesRead' # pagesRead =>
                  Len(pagesRead') = Len(pagesRead) + 1 /\ hop' = hop + 1
  <2> DEFINE got == clampRange(start, end, m)
             entry == PageReadEntry(doc, got.range)
  <2>1. start \in Int /\ end \in Int
    BY TreeWalkAssumption
  <2>2. got.ok => got.range \in RangesOf(m)
    BY <2>1, <1>0, ClampInDocument
  <2>3. got.ok => entry \in EntriesOf(doc)
    BY <2>2, Zenon DEF EntriesOf, m
  <2>4. pagesRead' = IF got.ok THEN Append(pagesRead, entry) ELSE pagesRead
    BY <1>1, Zenon DEF GetPages, m
  <2>5. doc' = doc /\ cited' = cited /\ hop' = hop + 1
    BY <1>1 DEF GetPages, NextHop, result
  <2> HIDE DEF got, entry
  <2> QED  BY <2>3, <2>4, <2>5 DEF WalkInv
<1>2. ASSUME NEW citations \in CitationLists, NEW conf \in Confidences, Done(citations, conf)
      PROVE  doc' = doc /\ pagesRead' = pagesRead /\ cited' \subseteq RangesOf(m)
  BY <1>2, <1>0, SelectedInDocument DEF Done, m
<1>3. CASE Begin \/ Complete \/ Observe \/ ForceComplete \/ ForcedEmpty \/ UNCHANGED vars
  <2>1. doc' = doc /\ pagesRead' = pagesRead /\ cited' = cited
    BY <1>3 DEF Begin, Complete, Observe, NextHop, ForceComplete, ForcedEmpty, vars, result
  <2> QED  BY <2>1 DEF WalkInv
<1> QED  BY <1>1, <1>2, <1>3, Zenon DEF Next, WalkInv, m

\* The invariant holds throughout.
LEMMA WalkInvariant == Spec => []WalkInv
<1>1. ASSUME WalkInv, [Next]_vars PROVE WalkInv'
  <2>1. Len(pagesRead') <= hop'
    <3>1. hop' >= hop /\ hop \in Nat /\ hop' \in Nat
      BY <1>1, HopStep, TreeWalkAssumption DEF HopCount, WalkInv
    <3>2. Len(pagesRead) \in Nat /\ Len(pagesRead) <= hop
      BY <1>1 DEF WalkInv
    <3> QED  BY <1>1, <3>1, <3>2, PageStep
  <2> QED  BY <1>1, <2>1, HopStep, PageStep DEF WalkInv
<1> QED  BY <1>1, WalkInit, PTL DEF Spec

\* Whatever the model replies, every range the API shows as a citation, cited
\* or merely read, is a range of pages of the document.
THEOREM CitationsAreInDocument == Spec => []ShownInDocument
<1>1. ASSUME WalkInv PROVE ShownInDocument
  <2> DEFINE m == maxKnownPage(doc)
  <2>1. \A i \in DOMAIN pagesRead : pagesRead[i].range \in RangesOf(m)
    <3> TAKE i \in DOMAIN pagesRead
    <3>1. pagesRead[i] \in EntriesOf(doc)
      BY <1>1 DEF WalkInv
    <3>2. PICK r \in RangesOf(m) : pagesRead[i] = PageReadEntry(doc, r)
      BY <3>1, Zenon DEF EntriesOf
    <3> QED  BY <3>2 DEF PageReadEntry
  <2>2. CitationSources \subseteq RangesOf(m)
    BY <1>1, <2>1, Zenon DEF CitationSources, WalkInv
  <2> QED  BY <2>2 DEF ShownInDocument, RangesOf, InDocument
<1> QED  BY <1>1, WalkInvariant, PTL

\* The model never gets more than MaxHops turns and the forced one, and no
\* more page reads than turns.
THEOREM HopsAreBounded == Spec => []HopBudget
<1>1. WalkInv => HopBudget
  BY TreeWalkAssumption DEF WalkInv, HopCount, HopBudget
<1> QED  BY <1>1, WalkInvariant, PTL

-----------------------------------------------------------------------------
(***************************************************************************)
(* The cap on citations keeps the best.                                    *)
(***************************************************************************)
\* above says, of each member of K, which members come before it in a strict
\* order of all of them.
Orders(above, K) ==
  /\ above \in [K -> SUBSET K]
  /\ \A i \in K : i \notin above[i]
  /\ \A i, j \in K : j \in above[i] => above[j] \subseteq above[i]
  /\ \A i, j \in K : i = j \/ i \in above[j] \/ j \in above[i]

\* The members with fewer than M before them.
TopOf(above, K, M) == {i \in K : Cardinality(above[i]) < M}

\* They are M at most; if they leave one out they are M, and each is before it.
LEMMA TopOfOrder ==
  ASSUME NEW K, IsFiniteSet(K), NEW M \in Nat, NEW above, Orders(above, K)
  PROVE  /\ IsFiniteSet(TopOf(above, K, M)) /\ Cardinality(TopOf(above, K, M)) <= M
         /\ \A i \in K \ TopOf(above, K, M) :
              /\ Cardinality(TopOf(above, K, M)) = M
              /\ \A j \in TopOf(above, K, M) : j \in above[i]
<1> DEFINE top == TopOf(above, K, M)
<1> USE DEF Orders
<1> DEFINE rank == [i \in K |-> Cardinality(above[i])]
<1>1. \A i \in K : IsFiniteSet(above[i]) /\ rank[i] = Cardinality(above[i]) /\ rank[i] \in Nat
  BY FS_Subset, FS_CardinalityType
<1>2. rank \in [K -> Nat]
  BY <1>1
<1>3. \A i \in top : i \in K /\ rank[i] < M
  BY DEF TopOf
<1>4. \A i \in K \ top : rank[i] >= M
  BY <1>1 DEF TopOf
<1>5. IsFiniteSet(top) /\ Cardinality(top) \in Nat /\ top \in SUBSET K
  <2>1. top \in SUBSET K
    BY DEF TopOf
  <2> QED BY <2>1, FS_Subset, FS_CardinalityType
<1> HIDE DEF rank, top
<1>6. ASSUME NEW i \in K, NEW j \in K, j \in above[i] PROVE rank[j] < rank[i]
  <2>1. above[j] \in SUBSET above[i] /\ above[j] # above[i]
    BY <1>6
  <2>2. Cardinality(above[j]) <= Cardinality(above[i]) /\ Cardinality(above[j]) # Cardinality(above[i])
    BY <1>1, <2>1, FS_Subset
  <2> QED BY <1>1, <2>2
<1>7. Cardinality(top) <= M
  <2>1. CASE top = {}
    <3>1. Cardinality(top) = 0
      BY <2>1, FS_EmptySet
    <3> QED BY <3>1
  <2>2. CASE top # {}
    <3> DEFINE f == [i \in top |-> rank[i]]
    <3>1. f \in [top -> Nat]
      BY <1>1, <1>3
    <3>2. PICK l \in top : \A t \in top : f[t] <= f[l]
      <4> HIDE DEF f
      <4> QED BY <1>5, <2>2, <3>1, GreatestOf
    <3>3. \A t \in top : rank[t] <= rank[l]
      BY <3>2
    <3>4. \A t \in top : t # l => t \in above[l]
      <4> SUFFICES ASSUME NEW t \in top, t # l, t \notin above[l] PROVE FALSE
        OBVIOUS
      <4>1. t \in K /\ l \in K
        BY <1>3
      <4>2. l \in above[t]
        BY <4>1
      <4>3. rank[l] < rank[t]
        BY <1>6, <4>1, <4>2
      <4> QED BY <1>1, <3>3, <4>1, <4>3
    <3>5. top \ {l} \in SUBSET above[l]
      BY <3>4
    <3>6. Cardinality(top \ {l}) <= rank[l]
      BY <1>1, <1>3, <3>5, FS_Subset
    <3>7. Cardinality(top \ {l}) = Cardinality(top) - 1
      BY <1>5, FS_RemoveElement
    <3> QED BY <1>1, <1>3, <1>5, <3>6, <3>7
  <2> QED BY <2>1, <2>2
<1>8. ASSUME NEW i \in K \ top PROVE Cardinality(top) = M
  <2> DEFINE Out == {rank[k] : k \in K \ top}
  <2>1. Out \in SUBSET Nat /\ Out # {}
    BY <1>1
  <2>2. PICK c \in Out : \A d \in Out : c <= d
    <3> HIDE DEF Out
    <3> QED BY <2>1, LeastNatural
  <2>3. PICK l \in K \ top : c = rank[l]
    BY <2>2
  <2>4. \A k \in K \ top : rank[l] <= rank[k]
    BY <2>2, <2>3
  <2>5. above[l] \in SUBSET top
    <3> SUFFICES ASSUME NEW k \in above[l], k \notin top PROVE FALSE
      OBVIOUS
    <3>1. k \in K \ top
      OBVIOUS
    <3>2. rank[k] < rank[l]
      BY <1>6, <3>1
    <3> QED BY <1>1, <2>4, <3>1, <3>2
  <2>6. rank[l] <= Cardinality(top)
    BY <1>1, <1>5, <2>5, FS_Subset
  <2> QED BY <1>1, <1>4, <1>5, <1>7, <2>6
<1>9. ASSUME NEW i \in K \ top, NEW j \in top PROVE j \in above[i]
  <2> SUFFICES ASSUME j \notin above[i] PROVE FALSE
    OBVIOUS
  <2>1. j \in K /\ i \in K /\ i \in above[j]
    BY <1>3
  <2>2. rank[i] < rank[j]
    BY <1>6, <2>1
  <2> QED BY <1>1, <1>3, <1>4, <2>1, <2>2
<1> QED BY <1>5, <1>7, <1>8, <1>9 DEF top

\* Clamped confidences are tenths.
LEMMA ConfidenceRange ==
  ASSUME NEW citations \in CitationLists, NEW i \in DOMAIN citations
  PROVE  clampConfidence(citations[i].conf) \in 0..One
<1>1. citations \in Seq(CitationType) /\ NaN \notin Int
  BY TreeWalkAssumption
<1>2. citations[i] \in CitationType
  BY <1>1
<1>3. citations[i].conf \in Int
  BY <1>2 DEF CitationType
<1> QED BY <1>1, <1>3 DEF clampConfidence, One

\* The usable citations are finitely many positions.
LEMMA UsableIsFinite ==
  ASSUME NEW citations \in CitationLists, NEW m
  PROVE  IsFiniteSet(Usable(citations, m)) /\ Usable(citations, m) \subseteq Nat
<1>1. citations \in Seq(CitationType)
  BY TreeWalkAssumption
<1>2. Len(citations) \in Nat /\ DOMAIN citations = 1..Len(citations)
  BY <1>1
<1>3. Usable(citations, m) \in SUBSET (1..Len(citations))
  BY <1>2, Zenon DEF Usable
<1>4. IsFiniteSet(1..Len(citations))
  BY <1>2, FS_Interval
<1>5. IsFiniteSet(Usable(citations, m))
  BY <1>3, <1>4, FS_Subset
<1>6. 1..Len(citations) \subseteq Nat
  BY <1>2
<1> QED BY <1>3, <1>5, <1>6

\* Conf is the highest confidence given to a range, and some mention has it.
LEMMA ConfIsHighest ==
  ASSUME NEW citations \in CitationLists, NEW m, NEW i \in Usable(citations, m)
  PROVE  /\ Conf(citations, i, m) \in 0..One
         /\ \A j \in SameRange(citations, i, m) :
              clampConfidence(citations[j].conf) <= Conf(citations, i, m)
         /\ \E j \in SameRange(citations, i, m) :
              clampConfidence(citations[j].conf) = Conf(citations, i, m)
<1> DEFINE S == SameRange(citations, i, m)
           f == [j \in S |-> clampConfidence(citations[j].conf)]
<1>1. i \in S /\ S \in SUBSET Usable(citations, m)
  BY Zenon DEF SameRange
<1>2. IsFiniteSet(S)
  BY <1>1, UsableIsFinite, FS_Subset
<1>3. \A j \in S : clampConfidence(citations[j].conf) \in 0..One
  <2>1. \A j \in S : j \in DOMAIN citations
    BY <1>1, Zenon DEF Usable
  <2> QED BY <2>1, ConfidenceRange
<1>4. f \in [S -> Nat]
  BY <1>3 DEF One
<1>5. PICK s \in S : \A t \in S : f[t] <= f[s]
  <2> HIDE DEF f, S
  <2> QED BY <1>1, <1>2, <1>4, GreatestOf
<1>6. \A t \in S : clampConfidence(citations[t].conf) <= clampConfidence(citations[s].conf)
  BY <1>5
<1> DEFINE C == {clampConfidence(citations[j].conf) : j \in S}
<1>7. \E c \in C : \A j \in S : clampConfidence(citations[j].conf) <= c
  BY <1>6
<1>8. /\ Conf(citations, i, m) \in C
      /\ \A j \in S : clampConfidence(citations[j].conf) <= Conf(citations, i, m)
  BY <1>7, Zenon DEF Conf
<1>9. \E j \in S : clampConfidence(citations[j].conf) = Conf(citations, i, m)
  BY <1>8, Zenon
<1> QED BY <1>3, <1>8, <1>9

\* Every usable citation has a first mention of its range, and first mentions
\* differ in their ranges.
LEMMA FirstMention ==
  ASSUME NEW citations \in CitationLists, NEW m
  PROVE  /\ \A i \in Usable(citations, m) : \E k \in Kept(citations, m) :
              /\ Clamped(citations, k, m).range = Clamped(citations, i, m).range
              /\ i \in SameRange(citations, k, m)
         /\ \A i, j \in Kept(citations, m) :
              Clamped(citations, i, m).range = Clamped(citations, j, m).range => i = j
         /\ IsFiniteSet(Kept(citations, m)) /\ Kept(citations, m) \subseteq Nat
         /\ Kept(citations, m) \subseteq Usable(citations, m)
<1>1. Kept(citations, m) \in SUBSET Usable(citations, m)
  BY Zenon DEF Kept
<1>2. IsFiniteSet(Kept(citations, m)) /\ Kept(citations, m) \subseteq Nat
  BY <1>1, UsableIsFinite, FS_Subset
<1>3. ASSUME NEW i \in Kept(citations, m), NEW j \in Kept(citations, m),
             Clamped(citations, i, m).range = Clamped(citations, j, m).range
      PROVE  i = j
  <2>1. i \in SameRange(citations, j, m) /\ j \in SameRange(citations, i, m)
    BY <1>1, <1>3, Zenon DEF SameRange
  <2>2. i <= j /\ j <= i
    BY <2>1, Zenon DEF Kept
  <2> QED BY <1>2, <2>2
<1>4. ASSUME NEW i \in Usable(citations, m)
      PROVE  \E k \in Kept(citations, m) :
               /\ Clamped(citations, k, m).range = Clamped(citations, i, m).range
               /\ i \in SameRange(citations, k, m)
  <2> DEFINE S == SameRange(citations, i, m)
  <2>1. i \in S /\ S \in SUBSET Usable(citations, m)
    BY Zenon DEF SameRange
  <2>2. S \in SUBSET Nat /\ S # {}
    BY <2>1, UsableIsFinite
  <2>3. PICK k \in S : \A j \in S : k <= j
    <3> HIDE DEF S
    <3> QED BY <2>2, LeastNatural
  <2>4. Clamped(citations, k, m).range = Clamped(citations, i, m).range /\ k \in Usable(citations, m)
    BY <2>3, Zenon DEF SameRange
  <2>5. SameRange(citations, k, m) = S
    BY <2>4 DEF SameRange
  <2>6. k \in Kept(citations, m)
    BY <2>3, <2>4, <2>5, Zenon DEF Kept
  <2> QED BY <2>1, <2>4, <2>5, <2>6
<1> QED BY <1>1, <1>2, <1>3, <1>4

\* What selectCitedRanges promises: no more than the cap; and when it drops a
\* usable citation the cap is used up by ranges the model trusted as much.
LEMMA CapKeepsBest ==
  ASSUME NEW citations \in CitationLists, NEW m,
         NEW ranges, ranges = selectCitedRanges(citations, m)
  PROVE  /\ IsFiniteSet(ranges) /\ Cardinality(ranges) <= MaxCitations
         /\ \A i \in Usable(citations, m) : Clamped(citations, i, m).range \notin ranges =>
              /\ Cardinality(ranges) = MaxCitations
              /\ \A r \in ranges : \E j \in Usable(citations, m) :
                   /\ Clamped(citations, j, m).range = r
                   /\ clampConfidence(citations[j].conf) >= clampConfidence(citations[i].conf)
<1> DEFINE K == Kept(citations, m)
           range(i) == Clamped(citations, i, m).range
           conf(i) == Conf(citations, i, m)
           before(j, i) == conf(j) > conf(i) \/ (conf(j) = conf(i) /\ j < i)
           above == [i \in K |-> {j \in K : before(j, i)}]
           top == TopOf(above, K, MaxCitations)
<1>0. MaxCitations \in Nat
  BY TreeWalkAssumption
<1>1. IsFiniteSet(K) /\ K \subseteq Nat /\ K \subseteq Usable(citations, m)
  BY FirstMention
<1>2. \A i \in K : conf(i) \in Nat
  BY <1>1, ConfIsHighest DEF One
<1>3. ranges = {range(i) : i \in top}
  <2>1. ranges = {range(i) : i \in {i \in K : Cardinality({j \in K : before(j, i)}) < MaxCitations}}
    BY Zenon DEF selectCitedRanges, RanksAbove
  <2>2. \A i \in K : above[i] = {j \in K : before(j, i)}
    BY Zenon
  <2> HIDE DEF above, range
  <2>3. top = {i \in K : Cardinality({j \in K : before(j, i)}) < MaxCitations}
    BY <2>2, Zenon DEF TopOf
  <2> HIDE DEF top
  <2> QED BY <2>1, <2>3, Zenon
<1> HIDE DEF conf, range, K
<1>4. Orders(above, K)
  <2>1. \A i \in K : ~before(i, i)
    BY <1>1, <1>2
  <2>2. \A i, j, k \in K : before(k, j) /\ before(j, i) => before(k, i)
    BY <1>1, <1>2
  <2>3. \A i, j \in K : i = j \/ before(i, j) \/ before(j, i)
    BY <1>1, <1>2
  <2> HIDE DEF before
  <2>4. \A i \in K : above[i] = {j \in K : before(j, i)}
    BY Zenon
  <2>5. above \in [K -> SUBSET K]
    OBVIOUS
  <2> HIDE DEF above
  <2>6. ASSUME NEW i \in K, NEW j \in K, j \in above[i] PROVE above[j] \subseteq above[i]
    BY <2>2, <2>4, <2>6
  <2> QED BY <2>1, <2>3, <2>4, <2>5, <2>6 DEF Orders
<1>5. \A i, j \in K : j \in above[i] => conf(j) >= conf(i)
  BY <1>1, <1>2
<1> HIDE DEF above
<1>6. /\ IsFiniteSet(top) /\ Cardinality(top) <= MaxCitations
      /\ \A i \in K \ top : Cardinality(top) = MaxCitations /\ \A j \in top : j \in above[i]
  BY <1>0, <1>1, <1>4, TopOfOrder
<1>7. top \subseteq K
  BY DEF TopOf
<1> HIDE DEF top
<1>8. IsFiniteSet(ranges) /\ Cardinality(ranges) = Cardinality(top)
  <2> DEFINE f == [i \in top |-> range(i)]
  <2>1. \A i, j \in K : range(i) = range(j) => i = j
    BY FirstMention, Zenon DEF K, range
  <2>2. /\ f \in [top -> ranges] /\ \A i, j \in top : f[i] = f[j] => i = j
        /\ \A r \in ranges : \E i \in top : f[i] = r
    BY <1>3, <1>7, <2>1
  <2> HIDE DEF f
  <2> QED BY <1>6, <2>2, PairedOff
<1>9. ASSUME NEW i \in Usable(citations, m), range(i) \notin ranges
      PROVE  /\ Cardinality(ranges) = MaxCitations
             /\ \A r \in ranges : \E j \in Usable(citations, m) :
                  /\ range(j) = r
                  /\ clampConfidence(citations[j].conf) >= clampConfidence(citations[i].conf)
  <2>1. PICK k \in K : range(k) = range(i) /\ i \in SameRange(citations, k, m)
    BY FirstMention, Zenon DEF K, range
  <2>2. k \in K \ top
    BY <1>3, <1>9, <2>1, Zenon
  <2>3. clampConfidence(citations[i].conf) <= conf(k)
    BY <1>1, <2>1, ConfIsHighest DEF conf
  <2>4. clampConfidence(citations[i].conf) \in Nat
    <3>1. i \in DOMAIN citations
      BY Zenon DEF Usable
    <3> QED BY <3>1, ConfidenceRange DEF One
  <2>5. ASSUME NEW r \in ranges
        PROVE  \E j \in Usable(citations, m) :
                 /\ range(j) = r
                 /\ clampConfidence(citations[j].conf) >= clampConfidence(citations[i].conf)
    <3>1. PICK t \in top : r = range(t)
      BY <1>3, Zenon
    <3>2. t \in K /\ k \in K /\ conf(t) >= conf(k)
      BY <1>5, <1>6, <1>7, <2>2, <3>1
    <3>3. PICK j \in SameRange(citations, t, m) : clampConfidence(citations[j].conf) = conf(t)
      BY <1>1, <3>2, ConfIsHighest DEF conf
    <3>4. j \in Usable(citations, m) /\ range(j) = range(t)
      BY <3>3, Zenon DEF SameRange, range
    <3>5. clampConfidence(citations[j].conf) >= clampConfidence(citations[i].conf)
      BY <1>2, <2>3, <2>4, <3>2, <3>3
    <3> QED BY <3>1, <3>4, <3>5
  <2> QED BY <1>6, <1>8, <2>2, <2>5
<1> QED BY <1>6, <1>8, <1>9 DEF range

\* Two ranges overlap when they share a page.
LEMMA OverlapsIsSharing ==
  ASSUME NEW d \in Documents, NEW k \in Paged(d), NEW m, NEW r \in RangesOf(m)
  PROVE  overlaps(d[k], r) <=> (d[k].start .. d[k].end) \cap (r.start .. r.end) # {}
<1>1. d[k] \in SectionType /\ k \in DOMAIN d
  <2>1. d \in Seq(SectionType)
    BY TreeWalkAssumption
  <2> QED BY <2>1 DEF Paged
<1> DEFINE a == d[k].start
           b == d[k].end
           s == r.start
           e == r.end
<1>2. a \in Nat /\ b \in Nat /\ a > 0 /\ b > 0
  BY <1>1 DEF SectionType, Paged
<1>3. a <= b
  BY <1>1, <1>2, TreeWalkAssumption
<1>4. s \in Nat /\ e \in Nat /\ 1 <= s /\ s <= e
  BY DEF RangesOf, InDocument
<1>5. overlaps(d[k], r) <=> a <= e /\ s <= b
  BY <1>2, <1>4 DEF overlaps
<1> HIDE DEF a, b, s, e
<1>6. ASSUME a <= e, s <= b PROVE (a .. b) \cap (s .. e) # {}
  <2>1. CASE a <= s
    <3>1. s \in a .. b /\ s \in s .. e
      BY <1>2, <1>4, <1>6, <2>1
    <3> QED BY <3>1
  <2>2. CASE ~(a <= s)
    <3>1. a \in a .. b /\ a \in s .. e
      BY <1>2, <1>3, <1>4, <1>6, <2>2
    <3> QED BY <3>1
  <2> QED BY <2>1, <2>2
<1>7. ASSUME (a .. b) \cap (s .. e) # {} PROVE a <= e /\ s <= b
  <2>1. PICK x : x \in a .. b /\ x \in s .. e
    BY <1>7
  <2> QED BY <1>2, <1>4, <2>1
<1> QED BY <1>5, <1>6, <1>7 DEF a, b, s, e

\* The result is what done made of the citations, or empty.
ResultFits ==
  \/ raw = <<>> /\ cited = {} /\ selected = {}
  \/ /\ raw \in CitationLists
     /\ cited = selectCitedRanges(raw, maxKnownPage(doc))
     /\ selected = sectionsOverlapping(doc, cited)

\* Only done writes the result, all of it at once.
LEMMA ResultStep == ASSUME WalkInv, ResultFits, [Next]_vars PROVE ResultFits'
<1>1. ASSUME NEW citations \in CitationLists, NEW conf \in Confidences, Done(citations, conf)
      PROVE  ResultFits'
  <2>1. /\ doc' = doc /\ raw' = citations
        /\ cited' = selectCitedRanges(citations, maxKnownPage(doc))
        /\ selected' = sectionsOverlapping(doc, cited')
    BY <1>1, Zenon DEF Done
  <2>2. /\ raw' \in CitationLists
        /\ cited' = selectCitedRanges(raw', maxKnownPage(doc'))
        /\ selected' = sectionsOverlapping(doc', cited')
    BY <2>1
  <2> QED BY <2>2, Zenon DEF ResultFits
<1>2. ASSUME UNCHANGED <<doc, raw, cited, selected>> PROVE ResultFits'
  BY <1>2 DEF ResultFits
<1>3. ASSUME NEW start \in PageArgs, NEW end \in PageArgs, GetPages(start, end)
      PROVE  UNCHANGED <<doc, raw, cited, selected>>
  BY <1>3 DEF GetPages, NextHop, result
<1>4. CASE Begin \/ Complete \/ Observe \/ ForceComplete \/ ForcedEmpty \/ UNCHANGED vars
  <2>1. UNCHANGED <<doc, raw, cited, selected>>
    BY <1>4 DEF Begin, Complete, Observe, NextHop, ForceComplete, ForcedEmpty, vars, result
  <2> QED BY <1>2, <2>1
<1> QED BY <1>1, <1>2, <1>3, <1>4, Zenon DEF Next

\* Whatever the model cites, however often and in whatever order: the cap
\* keeps the ranges it trusts most, and the sections are those on their pages.
THEOREM CapKeepsTrusted == Spec => []BestCitationsKept
<1>1. Init => ResultFits
  BY DEF Init, ResultFits
<1>2. ASSUME WalkInv, ResultFits PROVE BestCitationsKept
  <2> DEFINE m == maxKnownPage(doc)
             named == {i \in DOMAIN raw : clampRange(raw[i].start, raw[i].end, m).ok}
             range(i) == clampRange(raw[i].start, raw[i].end, m).range
  <2>1. doc \in Documents /\ cited \subseteq RangesOf(m) /\ MaxCitations \in Nat
    BY <1>2, TreeWalkAssumption DEF WalkInv
  <2>2. /\ Cardinality(cited) <= MaxCitations
        /\ \A i \in named : range(i) \notin cited =>
             /\ Cardinality(cited) = MaxCitations
             /\ \A r \in cited : \E j \in named :
                  range(j) = r /\ clampConfidence(raw[j].conf) >= clampConfidence(raw[i].conf)
    <3>1. CASE raw = <<>> /\ cited = {}
      <4>1. Cardinality(cited) = 0
        BY <3>1, FS_EmptySet
      <4>2. named = {}
        BY <3>1
      <4> QED BY <2>1, <4>1, <4>2
    <3>2. CASE raw \in CitationLists /\ cited = selectCitedRanges(raw, m)
      <4>1. named = Usable(raw, m) /\ \A i : range(i) = Clamped(raw, i, m).range
        BY Zenon DEF Usable, Clamped
      <4> HIDE DEF m, named, range
      <4>2. \A c \in CitationLists : \A r : r = selectCitedRanges(c, m) =>
              /\ Cardinality(r) <= MaxCitations
              /\ \A i \in Usable(c, m) : Clamped(c, i, m).range \notin r =>
                   /\ Cardinality(r) = MaxCitations
                   /\ \A x \in r : \E j \in Usable(c, m) :
                        /\ Clamped(c, j, m).range = x
                        /\ clampConfidence(c[j].conf) >= clampConfidence(c[i].conf)
        BY CapKeepsBest
      <4> QED BY <3>2, <4>1, <4>2
    <3> QED BY <1>2, <3>1, <3>2 DEF ResultFits
  <2>3. selected = {doc[i].id : i \in {k \in Paged(doc) :
           \E r \in cited : (doc[k].start .. doc[k].end) \cap (r.start .. r.end) # {}}}
    <3>1. selected = sectionsOverlapping(doc, cited)
      BY <1>2 DEF ResultFits, sectionsOverlapping
    <3>2. \A k \in Paged(doc) : \A r \in cited :
            overlaps(doc[k], r) <=> (doc[k].start .. doc[k].end) \cap (r.start .. r.end) # {}
      BY <2>1, OverlapsIsSharing
    <3>3. {k \in Paged(doc) : \E r \in cited : overlaps(doc[k], r)}
            = {k \in Paged(doc) : \E r \in cited :
                 (doc[k].start .. doc[k].end) \cap (r.start .. r.end) # {}}
      BY <3>2, Zenon
    <3> QED BY <3>1, <3>3, Zenon DEF sectionsOverlapping
  <2> QED BY <2>2, <2>3, Zenon DEF BestCitationsKept
<1>3. WalkInv /\ ResultFits /\ [Next]_vars => ResultFits'
  BY ResultStep
<1> QED BY <1>1, <1>2, <1>3, WalkInvariant, PTL DEF Spec


-----------------------------------------------------------------------------
(***************************************************************************)
(* What get_pages shows.                                                   *)
(***************************************************************************)

\* The sections in page order are sections of the document.
LEMMA SectionsByPage ==
  ASSUME NEW d \in Documents
  PROVE  flattenSectionsByPage(d) \in Seq(SectionType)
<1> DEFINE S == Paged(d)
           precedes(i, j) ==
             \/ d[i].start < d[j].start
             \/ d[i].start = d[j].start /\ d[i].end < d[j].end
             \/ d[i].start = d[j].start /\ d[i].end = d[j].end /\ i < j
           R == {p \in S \X S : precedes(p[1], p[2])}
           order == InOrder(S, precedes)
<1>1. d \in Seq(SectionType)
  BY TreeWalkAssumption
<1>2. S \subseteq 1..Len(d) /\ Len(d) \in Nat
  BY <1>1 DEF Paged
<1>3. IsFiniteSet(S)
  <2>1. IsFiniteSet(1..Len(d))
    BY <1>2, FS_Interval
  <2> QED BY <1>2, <2>1, FS_Subset
<1>4. ASSUME NEW i \in S PROVE i \in Int /\ d[i] \in SectionType /\ d[i].start \in Int /\ d[i].end \in Int
  <2>1. i \in 1..Len(d)
    BY <1>2
  <2>2. d[i] \in SectionType
    BY <1>1, <2>1
  <2> QED BY <2>1, <2>2 DEF SectionType
<1>5. StrictOrder(S, R)
  <2>1. ASSUME NEW i \in S, NEW j \in S PROVE <<i, j>> \in R <=> precedes(i, j)
    OBVIOUS
  <2>2. ASSUME NEW i \in S PROVE ~precedes(i, i)
    BY <1>4
  <2>3. ASSUME NEW i \in S, NEW j \in S, NEW k \in S, precedes(i, j), precedes(j, k) PROVE precedes(i, k)
    BY <1>4, <2>3
  <2>4. ASSUME NEW i \in S, NEW j \in S PROVE i = j \/ precedes(i, j) \/ precedes(j, i)
    BY <1>4
  <2> HIDE DEF R, precedes, S
  <2> QED BY <2>1, <2>2, <2>3, <2>4 DEF StrictOrder
<1>6. ASSUME NEW i \in S PROVE Below(S, R, i) = {j \in S : precedes(j, i)}
  <2> HIDE DEF precedes, S
  <2> QED BY DEF Below
<1>7. order = [k \in 1..Cardinality(S) |-> CHOOSE i \in S : Cardinality({j \in S : precedes(j, i)}) = k - 1]
  BY DEF InOrder
<1> HIDE DEF order, precedes, S, R
<1>8. ASSUME NEW k \in DOMAIN order PROVE order[k] \in S
  <2>1. k \in 1..Cardinality(S)
    BY <1>7
  <2>2. \E i \in S : Cardinality(Below(S, R, i)) = k - 1
    BY <1>3, <1>5, <2>1, Ranks
  <2>3. \E i \in S : Cardinality({j \in S : precedes(j, i)}) = k - 1
    BY <1>6, <2>2
  <2> QED BY <1>7, <2>1, <2>3
<1>9. flattenSectionsByPage(d) = [k \in DOMAIN order |-> d[order[k]]]
  BY DEF flattenSectionsByPage, order, S, precedes
<1>10. Cardinality(S) \in Nat /\ DOMAIN order = 1..Cardinality(S)
  BY <1>3, <1>7, FS_CardinalityType
<1>11. flattenSectionsByPage(d) \in [1..Cardinality(S) -> SectionType]
  BY <1>4, <1>8, <1>9, <1>10
<1> QED BY <1>10, <1>11

\* What has been rendered: never more than the limit, and only the last
\* section listed may be without text, when there was no room for more.
Rendered ==
  {acc \in [ids : Seq(Nat), chars : 0..PageContentLimit, textless : SUBSET Nat, full : BOOLEAN] :
     /\ \A k \in acc.textless : k = Len(acc.ids)
     /\ acc.textless # {} => acc.full}

\* A section rendered after others.
LEMMA RenderKeeps ==
  ASSUME NEW acc \in Rendered, NEW sec \in SectionType
  PROVE  RenderSection(acc, sec) \in Rendered
<1> DEFINE room == PageContentLimit - acc.chars
           text == IF sec.header + sec.body > room THEN room ELSE sec.header + sec.body
           full == sec.header >= room \/ sec.header + sec.body > room
           textless == IF text = 0 THEN acc.textless \cup {Len(acc.ids) + 1} ELSE acc.textless
           new == [ids |-> Append(acc.ids, sec.id), chars |-> acc.chars + text, textless |-> textless, full |-> full]
<1>1. CASE acc.full
  BY <1>1 DEF RenderSection
<1>2. CASE ~acc.full
  <2>1. RenderSection(acc, sec) = new
    BY <1>2 DEF RenderSection
  <2>2. /\ acc.ids \in Seq(Nat) /\ acc.chars \in 0..PageContentLimit /\ acc.textless = {}
        /\ sec.id \in Nat /\ sec.header \in Nat \ {0} /\ sec.body \in Nat /\ PageContentLimit \in Nat
    BY <1>2, TreeWalkAssumption DEF Rendered, SectionType
  <2>3. acc.chars + text \in 0..PageContentLimit
    BY <2>2
  <2>4. text = 0 => full
    BY <2>2
  <2>5. Append(acc.ids, sec.id) \in Seq(Nat) /\ Len(Append(acc.ids, sec.id)) = Len(acc.ids) + 1 /\ Len(acc.ids) + 1 \in Nat
    BY <2>2
  <2>6. textless \in SUBSET Nat /\ (\A k \in textless : k = Len(acc.ids) + 1) /\ (textless # {} => full)
    BY <2>2, <2>4, <2>5
  <2>7. full \in BOOLEAN
    OBVIOUS
  <2> HIDE DEF text, full, textless, room
  <2>8. new \in [ids : Seq(Nat), chars : 0..PageContentLimit, textless : SUBSET Nat, full : BOOLEAN]
    BY <2>3, <2>5, <2>6, <2>7
  <2>9. new.ids = Append(acc.ids, sec.id) /\ new.textless = textless /\ new.full = full
    OBVIOUS
  <2> HIDE DEF new
  <2>10. new \in Rendered
    BY <2>5, <2>6, <2>8, <2>9 DEF Rendered
  <2> QED BY <2>1, <2>10
<1>3. acc.full \in BOOLEAN
  BY DEF Rendered
<1> QED BY <1>1, <1>2, <1>3

\* So is everything renderPages renders.
LEMMA PagesRendered ==
  ASSUME NEW d \in Documents, NEW range
  PROVE  renderPages(d, range) \in Rendered
<1> DEFINE sections == flattenSectionsByPage(d)
           n == Len(sections)
           step(acc, k) == IF overlaps(sections[k], range) THEN RenderSection(acc, sections[k]) ELSE acc
           after[k \in 0..n] ==
             IF k = 0 THEN NothingRendered
             ELSE IF overlaps(sections[k], range) THEN RenderSection(after[k - 1], sections[k]) ELSE after[k - 1]
           G == [p \in Rendered \X (1..n) |-> step(p[1], p[2])]
<1>1. sections \in Seq(SectionType) /\ n \in Nat
  BY SectionsByPage
<1>2. NothingRendered \in Rendered
  BY TreeWalkAssumption DEF NothingRendered, Rendered
<1>3. ASSUME NEW acc \in Rendered, NEW k \in 1..n PROVE step(acc, k) \in Rendered
  <2>1. sections[k] \in SectionType
    BY <1>1
  <2> QED BY <2>1, RenderKeeps
<1>4. renderPages(d, range) = after[n]
  BY DEF renderPages
<1> HIDE DEF sections, n, step
<1>5. G \in [Rendered \X (1..n) -> Rendered]
  BY <1>3
<1>6. PICK f \in [0..n -> Rendered] : f[0] = NothingRendered /\ \A k \in 1..n : f[k] = G[<<f[k - 1], k>>]
  <2> HIDE DEF G
  <2>1. \E f : GoesOn(f, n, Rendered, NothingRendered, G)
    BY <1>1, <1>2, <1>5, PrefixRecursion, Zenon
  <2> QED BY <2>1 DEF GoesOn
<1>7. ASSUME NEW k \in 1..n PROVE f[k] = step(f[k - 1], k)
  <2>1. k - 1 \in 0..n
    BY <1>1
  <2>2. f[k - 1] \in Rendered
    BY <2>1
  <2> QED BY <1>6, <2>2
<1> HIDE DEF G
<1>8. f = [k \in 0..n |-> IF k = 0 THEN NothingRendered ELSE step(f[k - 1], k)]
  <2>1. \A k \in 0..n : k # 0 => k \in 1..n
    BY <1>1
  <2> QED BY <1>6, <1>7, <2>1
<1>9. after = [k \in 0..n |-> IF k = 0 THEN NothingRendered ELSE step(after[k - 1], k)]
  BY <1>8 DEF step
<1> HIDE DEF after
<1> DEFINE T == {k \in 0..n : after[k] \in Rendered}
<1>10. 0 \in T
  BY <1>1, <1>2, <1>9
<1>11. ASSUME NEW k \in 1..n, k - 1 \in T PROVE k \in T
  <2>1. k \in 0..n /\ k # 0 /\ after[k - 1] \in Rendered
    BY <1>1, <1>11
  <2>2. after[k] = step(after[k - 1], k)
    BY <1>9, <2>1
  <2> QED BY <1>3, <2>1, <2>2
<1>12. after[n] \in Rendered
  <2> HIDE DEF T
  <2>1. \A k \in 0..n : k \in T
    BY <1>1, <1>10, <1>11, UpTo
  <2>2. n \in 0..n
    BY <1>1
  <2>3. n \in T
    BY <2>1, <2>2
  <2> QED BY <2>3 DEF T
<1> QED BY <1>4, <1>12


\* Every read on record was rendered.
ReadsFit ==
  \A i \in DOMAIN pagesRead :
    /\ pagesRead[i].chars <= PageContentLimit
    /\ \A k \in pagesRead[i].textless : k = Len(pagesRead[i].ids)

\* A page read is put on record as it was rendered.
LEMMA ReadStep == ASSUME WalkInv, ReadsFit, [Next]_vars PROVE ReadsFit'
<1>1. CASE pagesRead' = pagesRead
  BY <1>1 DEF ReadsFit
<1>2. ASSUME NEW start \in PageArgs, NEW end \in PageArgs, GetPages(start, end) PROVE ReadsFit'
  <2> DEFINE range == clampRange(start, end, maxKnownPage(doc)).range
             page == renderPages(doc, range)
             entry == PageReadEntry(doc, range)
  <2>1. pagesRead' = Append(pagesRead, entry) \/ pagesRead' = pagesRead
    BY <1>2 DEF GetPages
  <2>2. doc \in Documents /\ pagesRead \in Seq(EntriesOf(doc))
    BY DEF WalkInv
  <2>3. page \in Rendered
    BY <2>2, PagesRendered
  <2>4. entry.ids = page.ids /\ entry.chars = page.chars /\ entry.textless = page.textless
    BY DEF PageReadEntry
  <2> HIDE DEF page, entry
  <2>5. entry.chars <= PageContentLimit /\ \A k \in entry.textless : k = Len(entry.ids)
    BY <2>3, <2>4, TreeWalkAssumption DEF Rendered
  <2>6. CASE pagesRead' = Append(pagesRead, entry)
    <3>1. \A i \in DOMAIN pagesRead' : (i \in DOMAIN pagesRead /\ pagesRead'[i] = pagesRead[i]) \/ pagesRead'[i] = entry
      BY <2>2, <2>6
    <3> QED BY <2>5, <3>1 DEF ReadsFit
  <2> QED BY <2>1, <2>6, <1>1
<1> QED BY <1>1, <1>2 DEF Next, vars, Begin, Complete, Observe, ForceComplete, ForcedEmpty, Done

\* Whatever pages the model asks for and however long the sections are, an
\* observation keeps to the limit and only its last section may lack text.
THEOREM ReadsAreRendered == Spec => []ReadIsRendered
<1>1. Init => ReadsFit
  BY DEF Init, ReadsFit
<1>2. WalkInv /\ ReadsFit /\ [Next]_vars => ReadsFit'
  BY ReadStep
<1>3. ReadsFit => ReadIsRendered
  BY DEF ReadsFit, ReadIsRendered
<1> QED BY <1>1, <1>2, <1>3, WalkInvariant, PTL DEF Spec
====
