--------------------------- MODULE OrderingProofs ---------------------------
(***************************************************************************)
(* What the proofs share: the members of a finite set put in order,        *)
(* functions defined by recursion on the prefixes of a list, and channels. *)
(***************************************************************************)
EXTENDS Integers, Sequences, FiniteSetTheorems, WellFoundedInduction, TLAPS

\* A set of natural numbers has a least one.
LEMMA LeastNatural ==
  ASSUME NEW T \in SUBSET Nat, T # {}
  PROVE  \E x \in T : \A y \in T : x <= y
<1> DEFINE R == OpToRel(<, Nat)
<1>1. IsWellFoundedOn(R, Nat)
  BY NatLessThanWellFounded, Zenon
<1>2. \A x, y \in Nat : x < y => <<x, y>> \in R
  BY DEF OpToRel
<1> HIDE DEF R
<1>3. PICK x \in T : \A y \in T : ~(<<y, x>> \in R)
  BY <1>1, WFMin, Zenon
<1>4. ASSUME NEW y \in T PROVE x <= y
  <2>1. x \in Nat /\ y \in Nat
    OBVIOUS
  <2>2. ~(y < x)
    BY <1>2, <1>3, <2>1, Zenon
  <2> QED BY <2>1, <2>2
<1> QED BY <1>4

\* What holds of 0, and of a number when it holds of the one before, holds of
\* all numbers up to n; the numbers it holds of are given as a set.
LEMMA UpTo ==
  ASSUME NEW n \in Nat, NEW T, 0 \in T, \A k \in 1..n : k - 1 \in T => k \in T
  PROVE  \A k \in 0..n : k \in T
<1> DEFINE F == {k \in 0..n : k \notin T}
<1>1. SUFFICES ASSUME F # {} PROVE FALSE
  OBVIOUS
<1>2. F \in SUBSET Nat
  OBVIOUS
<1>3. PICK x \in F : \A y \in F : x <= y
  BY <1>1, <1>2, LeastNatural
<1>4. x \in 1..n /\ x - 1 \in 0..n /\ ~(x <= x - 1)
  BY <1>3
<1>5. x - 1 \in T
  BY <1>3, <1>4
<1> QED BY <1>3, <1>4, <1>5

-----------------------------------------------------------------------------
(***************************************************************************)
(* Finite sets and their sizes.                                            *)
(***************************************************************************)
\* A finite set has a size, and so have its parts.
LEMMA PartsAreFinite ==
  ASSUME NEW S, IsFiniteSet(S), NEW T \in SUBSET S
  PROVE  IsFiniteSet(T) /\ Cardinality(T) \in Nat /\ Cardinality(S) \in Nat
BY FS_Subset, FS_CardinalityType

\* A part has no more members than the whole.
LEMMA FewerParts ==
  ASSUME NEW S, IsFiniteSet(S), NEW T \in SUBSET S
  PROVE  Cardinality(T) <= Cardinality(S)
BY FS_Subset

\* Nothing is a set of no members.
LEMMA NoMembers == Cardinality({}) = 0
BY FS_EmptySet

\* One member more.
LEMMA OneMore == ASSUME NEW S, IsFiniteSet(S), NEW x PROVE IsFiniteSet(S \cup {x})
BY FS_AddElement

\* One member less.
LEMMA OneLess == ASSUME NEW S, IsFiniteSet(S), NEW x \in S PROVE Cardinality(S \ {x}) = Cardinality(S) - 1
BY FS_RemoveElement

\* Two sets together.
LEMMA Together ==
  ASSUME NEW S, IsFiniteSet(S), NEW T, IsFiniteSet(T)
  PROVE  Cardinality(S \cup T) = Cardinality(S) + Cardinality(T) - Cardinality(S \cap T)
BY FS_Union

\* The places of a list are finitely many.
LEMMA PlacesAreFinite == ASSUME NEW n \in Nat PROVE IsFiniteSet(1..n)
BY FS_Interval

\* There are n places in a list of n items.
LEMMA PlacesCount == ASSUME NEW n \in Nat PROVE Cardinality(1..n) = n
BY FS_Interval

\* At most one member.
LEMMA AtMostOne ==
  ASSUME NEW S, \A x, y \in S : x = y
  PROVE  IsFiniteSet(S) /\ Cardinality(S) <= 1
<1>1. CASE S = {}
  BY <1>1, FS_EmptySet
<1>2. CASE S # {}
  <2>1. PICK x : x \in S
    BY <1>2
  <2>2. S = {x}
    BY <2>1
  <2>3. IsFiniteSet({x}) /\ Cardinality({x}) = 1
    BY FS_Singleton
  <2>4. IsFiniteSet(S) /\ Cardinality(S) = 1
    BY <2>2, <2>3
  <2> QED BY <2>4
<1> QED BY <1>1, <1>2

\* Two sets whose members can be paired off are of one size.
LEMMA PairedOff ==
  ASSUME NEW S, IsFiniteSet(S), NEW T, NEW f \in [S -> T],
         \A x, y \in S : f[x] = f[y] => x = y, \A t \in T : \E x \in S : f[x] = t
  PROVE  IsFiniteSet(T) /\ Cardinality(T) = Cardinality(S)
<1>1. f \in Bijection(S, T)
  BY DEF Bijection, Injection, Surjection, IsInjective
<1>2. ExistsBijection(S, T)
  BY <1>1, Zenon DEF ExistsBijection
<1> QED BY <1>2, FS_Bijection

\* What a finite set is mapped onto has at most as many members.
LEMMA ImageCount ==
  ASSUME NEW S, IsFiniteSet(S), NEW T, NEW f \in [S -> T], \A t \in T : \E x \in S : f[x] = t
  PROVE  IsFiniteSet(T) /\ Cardinality(T) <= Cardinality(S)
<1>1. f \in Surjection(S, T)
  BY DEF Surjection
<1> QED BY <1>1, FS_Surjection

-----------------------------------------------------------------------------
(***************************************************************************)
(* InOrder.                                                                *)
(***************************************************************************)
StrictOrder(S, R) ==
  /\ \A x \in S : <<x, x>> \notin R
  /\ \A x, y, z \in S : <<x, y>> \in R /\ <<y, z>> \in R => <<x, z>> \in R
  /\ \A x, y \in S : x = y \/ <<x, y>> \in R \/ <<y, x>> \in R
Below(S, R, x) == {y \in S : <<y, x>> \in R}

\* The members of a finite set have the ranks 0, 1, 2 and so on, each once.
LEMMA Ranks ==
  ASSUME NEW S, IsFiniteSet(S), NEW R, StrictOrder(S, R)
  PROVE  /\ Cardinality(S) \in Nat
         /\ \A x \in S : Cardinality(Below(S, R, x)) \in 0..(Cardinality(S) - 1)
         /\ \A x, y \in S : <<x, y>> \in R => Cardinality(Below(S, R, x)) < Cardinality(Below(S, R, y))
         /\ \A k \in 1..Cardinality(S) : \E x \in S : Cardinality(Below(S, R, x)) = k - 1
<1> DEFINE n == Cardinality(S)
           rank == [x \in S |-> Cardinality(Below(S, R, x))]
<1>1. n \in Nat
  BY FS_CardinalityType
<1>2. ASSUME NEW x \in S PROVE rank[x] \in 0..(n - 1)
  <2>1. Below(S, R, x) \in SUBSET S /\ x \notin Below(S, R, x)
    BY DEF Below, StrictOrder
  <2>2. IsFiniteSet(Below(S, R, x)) /\ Cardinality(Below(S, R, x)) <= n
        /\ (n = Cardinality(Below(S, R, x)) => S = Below(S, R, x))
    BY <2>1, FS_Subset
  <2>3. Cardinality(Below(S, R, x)) \in Nat /\ Cardinality(Below(S, R, x)) # n
    BY <2>1, <2>2, FS_CardinalityType
  <2> QED BY <1>1, <2>2, <2>3
<1>3. ASSUME NEW x \in S, NEW y \in S, <<x, y>> \in R PROVE rank[x] < rank[y]
  <2>1. Below(S, R, x) \in SUBSET Below(S, R, y) /\ x \in Below(S, R, y) /\ x \notin Below(S, R, x)
    BY <1>3 DEF Below, StrictOrder
  <2>2. Below(S, R, y) \in SUBSET S
    BY DEF Below
  <2>3. IsFiniteSet(Below(S, R, y))
    BY <2>2, FS_Subset
  <2>4. /\ Cardinality(Below(S, R, x)) <= Cardinality(Below(S, R, y))
        /\ Cardinality(Below(S, R, y)) = Cardinality(Below(S, R, x)) => Below(S, R, y) = Below(S, R, x)
    BY <2>1, <2>3, FS_Subset
  <2>5. rank[x] <= rank[y] /\ rank[x] # rank[y]
    BY <2>1, <2>4
  <2> QED BY <1>1, <1>2, <2>5
<1>4. \A k \in 1..n : \E x \in S : rank[x] = k - 1
  <2>1. rank \in [S -> 0..(n - 1)]
    BY <1>2
  <2>2. \A x, y \in S : rank[x] = rank[y] => x = y
    <3> SUFFICES ASSUME NEW x \in S, NEW y \in S, rank[x] = rank[y], x # y PROVE FALSE
      OBVIOUS
    <3>1. <<x, y>> \in R \/ <<y, x>> \in R
      BY DEF StrictOrder
    <3>2. rank[x] < rank[y] \/ rank[y] < rank[x]
      BY <1>3, <3>1
    <3>3. rank[x] \in Int /\ rank[y] \in Int
      BY <1>2
    <3> HIDE DEF rank
    <3> QED BY <3>2, <3>3
  <2>3. rank \in Injection(S, 0..(n - 1))
    BY <2>1, <2>2 DEF Injection, IsInjective
  <2>4. IsFiniteSet(0..(n - 1)) /\ Cardinality(0..(n - 1)) = n
    BY <1>1, FS_Interval
  <2>5. rank \in Surjection(S, 0..(n - 1))
    BY <2>3, <2>4, FS_Injection
  <2>6. \A r \in 0..(n - 1) : \E x \in S : rank[x] = r
    BY <2>5 DEF Surjection
  <2>7. \A k \in 1..n : k - 1 \in 0..(n - 1)
    BY <1>1
  <2> HIDE DEF rank, n
  <2> QED BY <2>6, <2>7
<1> QED BY <1>1, <1>2, <1>3, <1>4

\* A list that has at place k the member with k - 1 others before it has every
\* member once, in order.
LEMMA Enumerated ==
  ASSUME NEW S, IsFiniteSet(S), NEW R, StrictOrder(S, R),
         NEW s \in Seq(S), Len(s) = Cardinality(S),
         \A k \in DOMAIN s : Cardinality(Below(S, R, s[k])) = k - 1
  PROVE  /\ \A x \in S : \E k \in DOMAIN s : s[k] = x
         /\ \A j, k \in DOMAIN s : j < k => <<s[j], s[k]>> \in R
         /\ \A j, k \in DOMAIN s : s[j] = s[k] => j = k
<1> DEFINE n == Cardinality(S)
           rank(x) == Cardinality(Below(S, R, x))
<1>1. n \in Nat /\ (\A x \in S : rank(x) \in 0..(n - 1)) /\ (\A x, y \in S : <<x, y>> \in R => rank(x) < rank(y))
  BY Ranks
<1>2. DOMAIN s = 1..n /\ \A k \in DOMAIN s : s[k] \in S
  OBVIOUS
<1>3. ASSUME NEW x \in S, NEW y \in S, rank(x) = rank(y) PROVE x = y
  <2>1. ~(rank(x) < rank(y)) /\ ~(rank(y) < rank(x))
    BY <1>1, <1>3
  <2> HIDE DEF rank
  <2> QED BY <1>1, <2>1 DEF StrictOrder
<1>4. ASSUME NEW x \in S PROVE \E k \in DOMAIN s : s[k] = x
  <2>1. rank(x) + 1 \in 1..n /\ (rank(x) + 1) - 1 = rank(x)
    <3>1. rank(x) \in 0..(n - 1)
      BY <1>1
    <3> HIDE DEF rank, n
    <3> QED BY <1>1, <3>1
  <2>2. s[rank(x) + 1] \in S /\ rank(s[rank(x) + 1]) = rank(x)
    BY <2>1
  <2> QED BY <1>3, <2>1, <2>2
<1>5. ASSUME NEW j \in DOMAIN s, NEW k \in DOMAIN s, j < k PROVE <<s[j], s[k]>> \in R
  <2>1. s[j] \in S /\ s[k] \in S /\ rank(s[j]) = j - 1 /\ rank(s[k]) = k - 1 /\ j \in Int /\ k \in Int
    BY <1>1
  <2>2. s[j] # s[k] /\ ~(rank(s[k]) < rank(s[j]))
    <3> HIDE DEF rank
    <3> QED BY <1>5, <2>1
  <2> HIDE DEF rank
  <2> QED BY <1>1, <2>1, <2>2 DEF StrictOrder
<1>6. ASSUME NEW j \in DOMAIN s, NEW k \in DOMAIN s, s[j] = s[k] PROVE j = k
  <2>1. j - 1 = k - 1 /\ j \in Int /\ k \in Int
    BY <1>1, <1>6
  <2> QED BY <2>1
<1> QED BY <1>1, <1>2, <1>4, <1>5, <1>6


-----------------------------------------------------------------------------
(***************************************************************************)
(* Recursion on prefixes.                                                  *)
(***************************************************************************)

\* f[k] is what the first k items leave of a start value.
GoesOn(f, n, A, base, G) ==
  f \in [0..n -> A] /\ f[0] = base /\ \A k \in 1..n : f[k] = G[<<f[k - 1], k>>]

\* What a list leaves of a start value, item by item, is defined for all its
\* prefixes; the step from one prefix to the next is given as a function.
LEMMA PrefixRecursion ==
  ASSUME NEW n \in Nat, NEW A, NEW base \in A, NEW G \in [A \X (1..n) -> A]
  PROVE  \E f : GoesOn(f, n, A, base, G)
<1> DEFINE Goes(f, m) == f[0] = base /\ \A k \in 1..m : f[k] = G[<<f[k - 1], k>>]
           T == {m \in 0..n : \E f \in [0..m -> A] : Goes(f, m)}
<1>1. 0 \in T
  <2> DEFINE f == [k \in 0..0 |-> base]
  <2>1. f \in [0..0 -> A] /\ Goes(f, 0) /\ 0 \in 0..n
    OBVIOUS
  <2> HIDE DEF f, Goes
  <2> QED BY <2>1
<1>2. ASSUME NEW m \in 1..n, m - 1 \in T PROVE m \in T
  <2>1. PICK f \in [0..(m - 1) -> A] : Goes(f, m - 1)
    BY <1>2
  <2> DEFINE next == G[<<f[m - 1], m>>]
             g == [k \in 0..m |-> IF k = m THEN next ELSE f[k]]
  <2>2. next \in A
    <3>1. m - 1 \in 0..(m - 1)
      OBVIOUS
    <3>2. f[m - 1] \in A
      BY <3>1
    <3> QED BY <3>2
  <2> HIDE DEF next
  <2>3. g \in [0..m -> A] /\ \A k \in 0..(m - 1) : g[k] = f[k]
    BY <2>2
  <2>4. g[m] = next /\ g[0] = base
    <3>1. 0 \in 0..(m - 1) /\ m \in 0..m
      OBVIOUS
    <3> QED BY <2>1, <2>3, <3>1
  <2> HIDE DEF g
  <2>5. ASSUME NEW k \in 1..m PROVE g[k] = G[<<g[k - 1], k>>]
    <3>1. CASE k = m
      <4>1. m - 1 \in 0..(m - 1)
        OBVIOUS
      <4>2. g[m - 1] = f[m - 1]
        BY <2>3, <4>1
      <4> QED BY <2>4, <3>1, <4>2 DEF next
    <3>2. CASE k # m
      <4>1. k \in 0..(m - 1) /\ k - 1 \in 0..(m - 1) /\ k \in 1..(m - 1)
        BY <3>2
      <4>2. g[k] = f[k] /\ g[k - 1] = f[k - 1]
        BY <2>3, <4>1
      <4> QED BY <2>1, <4>1, <4>2
    <3> QED BY <3>1, <3>2
  <2>6. Goes(g, m)
    BY <2>4, <2>5
  <2> HIDE DEF Goes
  <2> QED BY <2>3, <2>6
<1>3. n \in T
  <2> HIDE DEF T
  <2>1. \A k \in 0..n : k \in T
    BY <1>1, <1>2, UpTo
  <2>2. n \in 0..n
    OBVIOUS
  <2> QED BY <2>1, <2>2
<1> QED BY <1>3 DEF GoesOn


\* A list put behind another one.
LEMMA Joined ==
  ASSUME NEW E, NEW s \in Seq(E), NEW t \in Seq(E)
  PROVE  s \o t \in Seq(E) /\ Len(s \o t) = Len(s) + Len(t)
OBVIOUS

\* A part of the first n numbers that holds with a number all before it is
\* again the first so many.
LEMMA FromTheFront ==
  ASSUME NEW n \in Nat, NEW S \in SUBSET (1..n), \A k \in S : \A j \in 1..k : j \in S
  PROVE  \E m \in 0..n : S = 1..m
<1> DEFINE F == {k \in 0..n : k + 1 \notin S}
<1>1. n \in F /\ F \in SUBSET Nat
  OBVIOUS
<1>2. PICK m \in F : \A y \in F : m <= y
  BY <1>1, LeastNatural
<1>3. m \in 0..n /\ m + 1 \notin S
  BY <1>2
<1>4. ASSUME NEW k \in 1..m PROVE k \in S
  <2>1. k - 1 \in 0..n /\ ~(m <= k - 1) /\ (k - 1) + 1 = k
    BY <1>3
  <2>2. k - 1 \notin F
    BY <1>2, <2>1
  <2> QED BY <2>1, <2>2
<1>5. ASSUME NEW k \in S PROVE k \in 1..m
  <2>1. k \in 1..n
    OBVIOUS
  <2>2. k > m => m + 1 \in 1..k
    BY <1>3, <2>1
  <2> QED BY <1>3, <2>1, <2>2
<1>6. S = 1..m
  BY <1>4, <1>5
<1> QED BY <1>3, <1>6

-----------------------------------------------------------------------------
(***************************************************************************)
(* A channel that several send into: the events of one sender, in the      *)
(* order they are in it.                                                   *)
(***************************************************************************)
Mail(E) == [at : Nat, type : E]

\* The events of sender i in a channel, at the places pos, are "ahead".
CarriesAt(ch, i, ahead, pos) ==
  /\ pos \in [1..Len(ahead) -> DOMAIN ch]
  /\ \A a, b \in 1..Len(ahead) : a < b => pos[a] < pos[b]
  /\ \A a \in 1..Len(ahead) : ch[pos[a]].at = i /\ ch[pos[a]].type = ahead[a]
  /\ \A p \in DOMAIN ch : ch[p].at = i => \E a \in 1..Len(ahead) : pos[a] = p
Carries(E, ch, i, ahead) == ahead \in Seq(E) /\ \E pos : CarriesAt(ch, i, ahead, pos)

\* An event of another sender is put behind.
LEMMA OthersSent ==
  ASSUME NEW E, NEW ch \in Seq(Mail(E)), NEW i, NEW ahead, Carries(E, ch, i, ahead), NEW e \in Mail(E), e.at # i
  PROVE  Carries(E, Append(ch, e), i, ahead)
<1> DEFINE c == Append(ch, e)
<1>1. PICK pos : CarriesAt(ch, i, ahead, pos)
  BY DEF Carries
<1>2. /\ Len(ch) \in Nat /\ DOMAIN ch = 1..Len(ch) /\ DOMAIN c = 1..(Len(ch) + 1)
      /\ \A p \in DOMAIN ch : p \in DOMAIN c /\ c[p] = ch[p]
      /\ c[Len(ch) + 1] = e /\ \A p \in DOMAIN c : p \in DOMAIN ch \/ p = Len(ch) + 1
  OBVIOUS
<1> HIDE DEF c
<1>3. /\ pos \in [1..Len(ahead) -> DOMAIN ch]
      /\ \A a \in 1..Len(ahead) : pos[a] \in DOMAIN ch /\ ch[pos[a]].at = i /\ ch[pos[a]].type = ahead[a]
      /\ \A a, b \in 1..Len(ahead) : a < b => pos[a] < pos[b]
  BY <1>1 DEF CarriesAt
<1>4. pos \in [1..Len(ahead) -> DOMAIN c]
  BY <1>2, <1>3
<1>5. \A a \in 1..Len(ahead) : c[pos[a]].at = i /\ c[pos[a]].type = ahead[a]
  BY <1>2, <1>3
<1>6. \A p \in DOMAIN c : c[p].at = i => \E a \in 1..Len(ahead) : pos[a] = p
  BY <1>1, <1>2 DEF CarriesAt
<1>7. CarriesAt(c, i, ahead, pos)
  BY <1>3, <1>4, <1>5, <1>6 DEF CarriesAt
<1> QED BY <1>7 DEF Carries, c

\* An event of this sender is put behind.
LEMMA OwnSent ==
  ASSUME NEW E, NEW ch \in Seq(Mail(E)), NEW i, NEW ahead, Carries(E, ch, i, ahead), NEW e \in Mail(E), e.at = i
  PROVE  Carries(E, Append(ch, e), i, Append(ahead, e.type))
<1> DEFINE c == Append(ch, e)
           n == Len(ahead)
           more == Append(ahead, e.type)
<1>1. PICK pos : CarriesAt(ch, i, ahead, pos)
  BY DEF Carries
<1>2. /\ Len(ch) \in Nat /\ DOMAIN ch = 1..Len(ch) /\ DOMAIN c = 1..(Len(ch) + 1)
      /\ \A p \in DOMAIN ch : p \in DOMAIN c /\ c[p] = ch[p]
      /\ c[Len(ch) + 1] = e /\ \A p \in DOMAIN c : p \in DOMAIN ch \/ p = Len(ch) + 1
  OBVIOUS
<1>3. /\ more \in Seq(E) /\ n \in Nat /\ Len(more) = n + 1
      /\ \A a \in 1..n : more[a] = ahead[a]
      /\ more[n + 1] = e.type
  <2>1. ahead \in Seq(E) /\ e.type \in E
    BY DEF Carries, Mail
  <2> QED BY <2>1
<1> HIDE DEF c, more
<1>4. /\ pos \in [1..n -> DOMAIN ch]
      /\ \A a \in 1..n : pos[a] \in DOMAIN ch /\ ch[pos[a]].at = i /\ ch[pos[a]].type = ahead[a]
      /\ \A a, b \in 1..n : a < b => pos[a] < pos[b]
  BY <1>1 DEF CarriesAt
<1> HIDE DEF n
<1> DEFINE q == [a \in 1..(n + 1) |-> IF a = n + 1 THEN Len(ch) + 1 ELSE pos[a]]
<1>5. \A a \in 1..(n + 1) : a \in 1..n \/ a = n + 1
  BY <1>3
<1>6. /\ \A a \in 1..n : a \in 1..(n + 1) /\ a # n + 1 /\ q[a] = pos[a]
      /\ n + 1 \in 1..(n + 1) /\ q[n + 1] = Len(ch) + 1 /\ DOMAIN q = 1..(n + 1)
  BY <1>3
<1>7. q \in [1..(n + 1) -> DOMAIN c]
  BY <1>2, <1>4, <1>5
<1> HIDE DEF q
<1>8. ASSUME NEW a \in 1..(n + 1), NEW b \in 1..(n + 1), a < b PROVE q[a] < q[b]
  <2>1. a \in 1..n
    BY <1>3, <1>8
  <2>2. CASE b \in 1..n
    BY <1>4, <1>6, <1>8, <2>1, <2>2
  <2>3. CASE b = n + 1
    BY <1>2, <1>4, <1>6, <2>1, <2>3
  <2> QED BY <1>5, <2>2, <2>3
<1>9. ASSUME NEW a \in 1..(n + 1) PROVE c[q[a]].at = i /\ c[q[a]].type = more[a]
  BY <1>2, <1>3, <1>4, <1>5, <1>6
<1>10. ASSUME NEW p \in DOMAIN c, c[p].at = i PROVE \E a \in 1..(n + 1) : q[a] = p
  <2>1. CASE p \in DOMAIN ch
    <3>1. ch[p].at = i
      BY <1>2, <1>10, <2>1
    <3>2. PICK a \in 1..n : pos[a] = p
      BY <1>1, <2>1, <3>1 DEF CarriesAt, n
    <3> QED BY <1>6, <3>2
  <2>2. CASE p = Len(ch) + 1
    BY <1>6, <2>2
  <2> QED BY <1>2, <2>1, <2>2
<1>11. CarriesAt(c, i, more, q)
  BY <1>3, <1>7, <1>8, <1>9, <1>10 DEF CarriesAt
<1> QED BY <1>3, <1>11 DEF Carries, c, more

\* The event in front is of another sender.
LEMMA OthersWritten ==
  ASSUME NEW E, NEW ch \in Seq(Mail(E)), ch # <<>>, NEW i, NEW ahead, Carries(E, ch, i, ahead), Head(ch).at # i
  PROVE  Carries(E, Tail(ch), i, ahead)
<1> DEFINE c == Tail(ch)
           n == Len(ahead)
<1>1. PICK pos : CarriesAt(ch, i, ahead, pos)
  BY DEF Carries
<1>2. /\ Len(ch) \in Nat /\ DOMAIN ch = 1..Len(ch) /\ DOMAIN c = 1..(Len(ch) - 1)
      /\ \A p \in DOMAIN c : p + 1 \in DOMAIN ch /\ c[p] = ch[p + 1]
      /\ 1 \in DOMAIN ch /\ ch[1] = Head(ch)
      /\ \A p \in DOMAIN ch : p # 1 => p - 1 \in DOMAIN c /\ c[p - 1] = ch[p] /\ p \in Int
  OBVIOUS
<1> HIDE DEF c
<1>3. /\ ahead \in Seq(E) /\ pos \in [1..n -> DOMAIN ch]
      /\ \A a \in 1..n : pos[a] \in DOMAIN ch /\ ch[pos[a]].at = i /\ ch[pos[a]].type = ahead[a]
      /\ \A a, b \in 1..n : a < b => pos[a] < pos[b]
  BY <1>1 DEF CarriesAt, Carries
<1> HIDE DEF n
<1> DEFINE q == [a \in 1..n |-> pos[a] - 1]
<1>4. \A a \in 1..n : pos[a] # 1 /\ q[a] \in DOMAIN c /\ c[q[a]] = ch[pos[a]] /\ pos[a] \in Int
  BY <1>2, <1>3
<1>5. q \in [1..n -> DOMAIN c]
  BY <1>4
<1>6. \A a, b \in 1..n : a < b => q[a] < q[b]
  BY <1>3, <1>4
<1>7. \A a \in 1..n : c[q[a]].at = i /\ c[q[a]].type = ahead[a]
  BY <1>3, <1>4
<1>8. ASSUME NEW p \in DOMAIN c, c[p].at = i PROVE \E a \in 1..n : q[a] = p
  <2>1. p + 1 \in DOMAIN ch /\ ch[p + 1].at = i
    BY <1>2, <1>8
  <2>2. PICK a \in 1..n : pos[a] = p + 1
    BY <1>1, <2>1 DEF CarriesAt, n
  <2>3. q[a] = p
    BY <1>2, <2>2
  <2> QED BY <2>3
<1> HIDE DEF q
<1>9. CarriesAt(c, i, ahead, q)
  BY <1>5, <1>6, <1>7, <1>8 DEF CarriesAt, n
<1> QED BY <1>3, <1>9 DEF Carries, c

\* The event in front is of this sender: it is the first of those ahead.
LEMMA OwnWritten ==
  ASSUME NEW E, NEW ch \in Seq(Mail(E)), ch # <<>>, NEW i, NEW ahead, Carries(E, ch, i, ahead), Head(ch).at = i
  PROVE  ahead # <<>> /\ Head(ch).type = Head(ahead) /\ Carries(E, Tail(ch), i, Tail(ahead))
<1> DEFINE c == Tail(ch)
           n == Len(ahead)
           left == Tail(ahead)
<1>1. PICK pos : CarriesAt(ch, i, ahead, pos)
  BY DEF Carries
<1>2. /\ Len(ch) \in Nat /\ DOMAIN ch = 1..Len(ch) /\ DOMAIN c = 1..(Len(ch) - 1)
      /\ \A p \in DOMAIN c : p + 1 \in DOMAIN ch /\ c[p] = ch[p + 1]
      /\ 1 \in DOMAIN ch /\ ch[1] = Head(ch)
      /\ \A p \in DOMAIN ch : p # 1 => p - 1 \in DOMAIN c /\ c[p - 1] = ch[p]
      /\ \A p \in DOMAIN ch : p \in Int /\ p >= 1
  OBVIOUS
<1> HIDE DEF c
<1>3. /\ ahead \in Seq(E) /\ pos \in [1..n -> DOMAIN ch] /\ n \in Nat
      /\ \A a \in 1..n : pos[a] \in DOMAIN ch /\ ch[pos[a]].at = i /\ ch[pos[a]].type = ahead[a]
      /\ \A a, b \in 1..n : a < b => pos[a] < pos[b]
  BY <1>1 DEF CarriesAt, Carries
<1>4. PICK o \in 1..n : pos[o] = 1
  BY <1>1, <1>2 DEF CarriesAt
<1>5. n >= 1 /\ 1 \in 1..n /\ pos[1] = 1
  <2>1. n >= 1 /\ 1 \in 1..n
    BY <1>3
  <2>2. CASE o = 1
    BY <1>4, <2>1, <2>2
  <2>3. CASE o # 1
    <3>1. pos[1] < pos[o]
      BY <1>3, <2>1, <2>3
    <3> QED BY <1>2, <1>3, <1>4, <2>1, <3>1
  <2> QED BY <2>1, <2>2, <2>3
<1>6. ahead # <<>> /\ Head(ahead) = ahead[1] /\ Head(ch).type = Head(ahead)
  <2>1. ahead # <<>> /\ Head(ahead) = ahead[1]
    BY <1>3, <1>5
  <2> QED BY <1>2, <1>3, <1>5, <2>1
<1>7. left \in Seq(E) /\ Len(left) = n - 1 /\ \A a \in 1..(n - 1) : left[a] = ahead[a + 1] /\ a + 1 \in 1..n
  BY <1>3, <1>6
<1> HIDE DEF left, n
<1> DEFINE q == [a \in 1..(n - 1) |-> pos[a + 1] - 1]
<1>8. ASSUME NEW a \in 1..(n - 1)
      PROVE  pos[a + 1] # 1 /\ q[a] \in DOMAIN c /\ c[q[a]] = ch[pos[a + 1]] /\ pos[a + 1] \in Int
  <2>1. a + 1 \in 1..n /\ 1 < a + 1
    BY <1>7
  <2>2. pos[1] < pos[a + 1] /\ pos[a + 1] \in DOMAIN ch
    BY <1>3, <1>5, <2>1
  <2>3. pos[a + 1] \in Int /\ pos[a + 1] # 1
    BY <1>2, <1>5, <2>2
  <2>4. q[a] = pos[a + 1] - 1
    OBVIOUS
  <2> QED BY <1>2, <2>2, <2>3, <2>4
<1>9. q \in [1..(n - 1) -> DOMAIN c]
  BY <1>8
<1>10. ASSUME NEW a \in 1..(n - 1), NEW b \in 1..(n - 1), a < b PROVE q[a] < q[b]
  <2>1. a + 1 \in 1..n /\ b + 1 \in 1..n /\ a + 1 < b + 1
    BY <1>7, <1>10
  <2>2. pos[a + 1] < pos[b + 1]
    BY <1>3, <2>1
  <2> QED BY <1>8, <2>2
<1>11. ASSUME NEW a \in 1..(n - 1) PROVE c[q[a]].at = i /\ c[q[a]].type = left[a]
  <2>1. a + 1 \in 1..n /\ left[a] = ahead[a + 1]
    BY <1>7
  <2>2. ch[pos[a + 1]].at = i /\ ch[pos[a + 1]].type = ahead[a + 1] /\ c[q[a]] = ch[pos[a + 1]]
    BY <1>3, <1>8, <2>1
  <2> QED BY <2>1, <2>2
<1>12. ASSUME NEW p \in DOMAIN c, c[p].at = i PROVE \E a \in 1..(n - 1) : q[a] = p
  <2>1. p + 1 \in DOMAIN ch /\ ch[p + 1].at = i /\ p \in Int /\ p >= 1
    BY <1>2, <1>12
  <2>2. PICK b \in 1..n : pos[b] = p + 1
    BY <1>1, <2>1 DEF CarriesAt, n
  <2>3. b # 1
    BY <1>5, <2>1, <2>2
  <2>4. b - 1 \in 1..(n - 1) /\ (b - 1) + 1 = b
    BY <1>3, <2>3
  <2>5. q[b - 1] = p
    BY <2>1, <2>2, <2>4
  <2> QED BY <2>4, <2>5
<1> HIDE DEF q
<1>13. CarriesAt(c, i, left, q)
  BY <1>7, <1>9, <1>10, <1>11, <1>12 DEF CarriesAt
<1> QED BY <1>6, <1>7, <1>13 DEF Carries, c, left

\* What was seen, what is in the channel and what is to be sent.
Whole(seen, ahead, ev) == (seen \o ahead) \o ev

\* Two lists that agree everywhere are one.
LEMMA SameList ==
  ASSUME NEW E, NEW s \in Seq(E), NEW t \in Seq(E), Len(s) = Len(t), \A k \in 1..Len(s) : s[k] = t[k]
  PROVE  s = t
OBVIOUS

\* Sending an event moves it from the worker's list to the channel's.
LEMMA SendMoves ==
  ASSUME NEW E, NEW seen \in Seq(E), NEW ahead \in Seq(E), NEW ev \in Seq(E), ev # <<>>
  PROVE  Whole(seen, Append(ahead, Head(ev)), Tail(ev)) = Whole(seen, ahead, ev)
<1> DEFINE s == (seen \o Append(ahead, Head(ev))) \o Tail(ev)
           t == (seen \o ahead) \o ev
<1>1. /\ Head(ev) \in E /\ Head(ev) = ev[1] /\ Tail(ev) \in Seq(E) /\ Len(Tail(ev)) = Len(ev) - 1
      /\ Len(seen) \in Nat /\ Len(ahead) \in Nat /\ Len(ev) \in Nat /\ Len(ev) >= 1
  OBVIOUS
<1>2. s \in Seq(E) /\ t \in Seq(E) /\ Len(s) = Len(seen) + Len(ahead) + Len(ev) /\ Len(t) = Len(seen) + Len(ahead) + Len(ev)
  BY <1>1
<1>3. ASSUME NEW k \in 1..Len(s) PROVE s[k] = t[k]
  <2>1. CASE k <= Len(seen)
    BY <1>1, <1>2, <2>1
  <2>2. CASE k > Len(seen) /\ k <= Len(seen) + Len(ahead)
    BY <1>1, <1>2, <2>2
  <2>3. CASE k = Len(seen) + Len(ahead) + 1
    BY <1>1, <1>2, <2>3
  <2>4. CASE k > Len(seen) + Len(ahead) + 1
    BY <1>1, <1>2, <2>4
  <2> DEFINE a == Len(seen)
             b == Len(ahead)
  <2>5. a \in Nat /\ b \in Nat /\ k \in Nat
    BY <1>1, <1>2
  <2> HIDE DEF a, b
  <2>6. k <= a \/ (k > a /\ k <= a + b) \/ k = a + b + 1 \/ k > a + b + 1
    BY <2>5
  <2> QED BY <2>1, <2>2, <2>3, <2>4, <2>6, Zenon DEF a, b
<1> HIDE DEF s, t
<1>4. s = t
  BY <1>2, <1>3, SameList
<1> QED BY <1>4 DEF s, t, Whole

\* Writing an event moves it from the channel to what was seen.
LEMMA WriteMoves ==
  ASSUME NEW E, NEW seen \in Seq(E), NEW ahead \in Seq(E), NEW ev \in Seq(E), ahead # <<>>
  PROVE  Whole(Append(seen, Head(ahead)), Tail(ahead), ev) = Whole(seen, ahead, ev)
<1> DEFINE s == Append(seen, Head(ahead)) \o Tail(ahead)
           t == seen \o ahead
<1>1. /\ Head(ahead) \in E /\ Head(ahead) = ahead[1] /\ Tail(ahead) \in Seq(E) /\ Len(Tail(ahead)) = Len(ahead) - 1
      /\ Len(seen) \in Nat /\ Len(ahead) \in Nat /\ Len(ahead) >= 1
  OBVIOUS
<1>2. s \in Seq(E) /\ t \in Seq(E) /\ Len(s) = Len(seen) + Len(ahead) /\ Len(t) = Len(seen) + Len(ahead)
  BY <1>1
<1>3. ASSUME NEW k \in 1..Len(s) PROVE s[k] = t[k]
  <2>1. CASE k <= Len(seen)
    BY <1>1, <1>2, <2>1
  <2>2. CASE k = Len(seen) + 1
    BY <1>1, <1>2, <2>2
  <2>3. CASE k > Len(seen) + 1
    BY <1>1, <1>2, <2>3
  <2> QED BY <1>1, <1>2, <2>1, <2>2, <2>3
<1> HIDE DEF s, t
<1>4. s = t
  BY <1>2, <1>3, SameList
<1> QED BY <1>4 DEF s, t, Whole
====
