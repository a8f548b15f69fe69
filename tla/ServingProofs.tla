--------------------------- MODULE ServingProofs ----------------------------
(***************************************************************************)
(* Proofs about the engine's serving side as one system, part by part: the *)
(* gates, the model settings, the library of a collection, the query over  *)
(* a collection, the requests that share the planner, the caches and the   *)
(* replay store, and the question put to several documents.                *)
(***************************************************************************)
EXTENDS Serving, OrderingProofs, TLAPS

-----------------------------------------------------------------------------
(***************************************************************************)
(* The parts of a composition.                                             *)
(***************************************************************************)
\* Each part begins in use or idle.
LEMMA PartsStart ==
  ASSUME ServingInit
  PROVE  (RegInit \/ RegIdle) /\ (GtInit \/ GtIdle) /\ (QPInit \/ QPIdle) /\ LibInit /\ CWInit
         /\ (MQInit \/ MQIdle)
BY Zenon DEF ServingInit

\* A step of the whole is a step of each part, or leaves the part alone.
LEMMA PartsStep ==
  ASSUME [ServingNext]_servingVars
  PROVE  [RegNext]_regVars /\ [GtNext]_gtVars /\ [QPNext]_qpVars /\ [LibNext]_libVars /\ [CWNext]_cwVars
         /\ [MQNext]_mqVars
<1>1. CASE UNCHANGED servingVars
  BY <1>1, Zenon DEF servingVars
<1>2. CASE ServingNext
  <2>1. RegNext \/ UNCHANGED regVars
    BY <1>2, Zenon DEF ServingNext, servingVars
  <2>2. GtNext \/ UNCHANGED gtVars
    BY <1>2, Zenon DEF ServingNext, servingVars
  <2>3. QPNext \/ UNCHANGED qpVars
    BY <1>2, Zenon DEF ServingNext, servingVars
  <2>4. LibNext \/ UNCHANGED libVars
    BY <1>2, Zenon DEF ServingNext, servingVars
  <2>5. CWNext \/ UNCHANGED cwVars
    BY <1>2, Zenon DEF ServingNext, servingVars
  <2>6. MQNext \/ UNCHANGED mqVars
    BY <1>2, Zenon DEF ServingNext, servingVars
  <2> QED BY <2>1, <2>2, <2>3, <2>4, <2>5, <2>6, Zenon
<1> QED BY <1>1, <1>2, Zenon

-----------------------------------------------------------------------------
(***************************************************************************)
(* THE GATES, for any requests, limits and clock, any interval of the      *)
(* reaper of a minute or more, and any number of buckets.                  *)
(***************************************************************************)

-----------------------------------------------------------------------------
(***************************************************************************)
(* Whole tokens: time that is split earns no more than time in one piece,  *)
(* and a minute earns the limit.                                           *)
(***************************************************************************)
Earned(t, rpm) == (t * rpm) \div GtMinute

\* Division rounds down.
LEMMA RoundsDown ==
  ASSUME NEW a \in Nat, NEW m \in Nat \ {0}
  PROVE  a \div m \in Nat /\ m * (a \div m) <= a /\ a < m * (a \div m) + m
OBVIOUS

\* A quotient is at least any number whose multiple fits.
LEMMA QuotientAtLeast ==
  ASSUME NEW a \in Nat, NEW m \in Nat \ {0}, NEW q \in Nat, m * q <= a
  PROVE  q <= a \div m
<1> DEFINE p == a \div m
<1>1. p \in Nat /\ a < m * p + m
  BY RoundsDown
<1> HIDE DEF p
<1>2. ASSUME p < q PROVE FALSE
  <2>1. q = p + 1 + (q - p - 1) /\ q - p - 1 \in Nat
    BY <1>1, <1>2
  <2>2. m * q = m * p + m + m * (q - p - 1)
    BY <1>1, <2>1
  <2>3. m * (q - p - 1) \in Nat /\ m * p \in Nat
    BY <1>1, <2>1
  <2> QED BY <1>1, <2>2, <2>3
<1> QED BY <1>1, <1>2 DEF p

\* The tokens of two stretches of time are no more than those of both.
LEMMA EarnedInParts ==
  ASSUME NEW s \in Nat, NEW t \in Nat, NEW rpm \in Nat
  PROVE  /\ {Earned(s, rpm), Earned(t, rpm), Earned(s + t, rpm)} \subseteq Nat
         /\ Earned(s, rpm) + Earned(t, rpm) <= Earned(s + t, rpm)
<1> DEFINE a == s * rpm
           b == t * rpm
           p == a \div GtMinute
           q == b \div GtMinute
<1>0. GtMinute \in Nat \ {0}
  BY GatesAssumption DEF GatesAssumption
<1>1. a \in Nat /\ b \in Nat /\ (s + t) * rpm = a + b
  OBVIOUS
<1> HIDE DEF a, b
<1>2. p \in Nat /\ q \in Nat /\ GtMinute * p <= a /\ GtMinute * q <= b
      /\ (a + b) \div GtMinute \in Nat
  BY <1>0, <1>1, RoundsDown
<1> HIDE DEF p, q
<1>3. GtMinute * (p + q) <= a + b
  <2>1. GtMinute * (p + q) = GtMinute * p + GtMinute * q /\ GtMinute * p \in Nat /\ GtMinute * q \in Nat
    BY <1>0, <1>2
  <2> QED BY <1>1, <1>2, <2>1
<1>4. p + q <= (a + b) \div GtMinute
  BY <1>0, <1>1, <1>2, <1>3, QuotientAtLeast
<1> QED BY <1>1, <1>2, <1>4 DEF Earned, a, b, p, q

\* A minute earns a full bucket.
LEMMA EarnedInAMinute ==
  ASSUME NEW t \in Nat, NEW rpm \in Nat, t >= GtMinute
  PROVE  rpm <= Earned(t, rpm)
<1>0. GtMinute \in Nat \ {0} /\ t * rpm \in Nat
  BY GatesAssumption DEF GatesAssumption
<1>1. GtMinute * rpm <= t * rpm
  <2>1. t = GtMinute + (t - GtMinute) /\ t - GtMinute \in Nat
    BY <1>0
  <2>2. t * rpm = GtMinute * rpm + (t - GtMinute) * rpm
    BY <1>0, <2>1
  <2>3. (t - GtMinute) * rpm \in Nat
    BY <2>1
  <2> QED BY <1>0, <2>2, <2>3
<1> QED BY <1>0, <1>1, QuotientAtLeast DEF Earned

\* Time only adds.
LEMMA EarnedGrows ==
  ASSUME NEW s \in Nat, NEW t \in Nat, NEW rpm \in Nat, s <= t
  PROVE  Earned(s, rpm) + Earned(t - s, rpm) <= Earned(t, rpm) /\ Earned(s, rpm) <= Earned(t, rpm)
<1> DEFINE d == t - s
<1>1. d \in Nat /\ s + d = t
  OBVIOUS
<1> HIDE DEF d
<1>2. /\ {Earned(s, rpm), Earned(d, rpm), Earned(s + d, rpm)} \subseteq Nat
      /\ Earned(s, rpm) + Earned(d, rpm) <= Earned(s + d, rpm)
  BY <1>1, EarnedInParts
<1>3. Earned(s, rpm) + Earned(d, rpm) <= Earned(t, rpm) /\ Earned(s, rpm) <= Earned(t, rpm)
  BY <1>1, <1>2
<1> QED BY <1>3 DEF d


-----------------------------------------------------------------------------
(***************************************************************************)
(* The inductive invariant.  A bucket is charged as of the time it was     *)
(* last asked: what has passed and what is left in it are no more than a   *)
(* full bucket and the time until then.  A principal whose bucket was      *)
(* reaped has been away for longer than a full bucket takes.  The requests *)
(* that still hold a bucket reaped meanwhile have their pass set aside.    *)
(***************************************************************************)
GtTypeOK ==
  /\ gtConf.rpm \in Nat /\ gtConf.global \in Nat
  /\ gtNow \in Nat
  /\ gtGlobal \in [tokens : Nat, last : 0..gtNow]
  /\ gtBuckets \in Seq([tokens : Nat, last : 0..gtNow])
  /\ gtStore \in [Principals -> 0..Len(gtBuckets)]
  /\ gtReq \in [GtRequests -> [at : {"outside", "server", "principal", "ask"},
                               who : Principals, bucket : 0..Len(gtBuckets)]]
  /\ gtPassed \in [Principals \cup {"server"} -> Nat]
  /\ gtStrays \in [Principals -> Nat]

\* A bucket is one principal's: two principals have different ones, and the
\* requests that hold a principal's bucket are its own.
BucketsOwned ==
  /\ \A p, q \in Principals : gtStore[p] > 0 /\ gtStore[p] = gtStore[q] => p = q
  /\ \A r \in GtRequests : gtReq[r].at = "ask" =>
       /\ gtReq[r].bucket > 0
       /\ \A p \in Principals : gtStore[p] = gtReq[r].bucket => p = gtReq[r].who

\* Requests of p that hold a bucket which is no longer p's.
Strays(p) ==
  {r \in GtRequests : gtReq[r].at = "ask" /\ gtReq[r].who = p /\ gtReq[r].bucket # gtStore[p]}

PrincipalCharged(p) ==
  LET owed == gtPassed[p] + Cardinality(Strays(p))
      b == gtBuckets[gtStore[p]]
  IN  IF gtStore[p] = 0
      THEN owed <= Earned(gtNow, gtConf.rpm) + gtStrays[p]
      ELSE owed + b.tokens <= gtConf.rpm + Earned(b.last, gtConf.rpm) + gtStrays[p]

ServerCharged ==
  gtConf.global > 0 =>
    gtPassed["server"] + gtGlobal.tokens <= gtConf.global + Earned(gtGlobal.last, gtConf.global)

GatesInv ==
  /\ GtTypeOK
  /\ BucketsOwned
  /\ ServerCharged
  /\ \A p \in Principals : PrincipalCharged(p)


\* A number in use names a bucket.
LEMMA BucketTyped ==
  ASSUME GtTypeOK, NEW k \in 1..Len(gtBuckets)
  PROVE  gtBuckets[k] \in [tokens : Nat, last : 0..gtNow]
<1> DEFINE S == [tokens : Nat, last : 0..gtNow]
<1>1. gtBuckets \in Seq(S)
  BY DEF GtTypeOK
<1> HIDE DEF S
<1>2. gtBuckets[k] \in S
  BY <1>1
<1> QED BY <1>2 DEF S

\* The invariant says what the runs check.
LEMMA GatesInvImpliesRate == GatesInv => RateHonoured
<1> SUFFICES ASSUME GatesInv PROVE RateHonoured
  OBVIOUS
<1> USE DEF GatesInv
<1>1. ASSUME gtConf.rpm > 0, NEW p \in Principals
      PROVE  gtPassed[p] <= gtConf.rpm + Earned(gtNow, gtConf.rpm) + gtStrays[p]
  <2> DEFINE n == Cardinality(Strays(p))
             b == gtBuckets[gtStore[p]]
  <2>1. n \in Nat
    BY GatesAssumption, PartsAreFinite DEF Strays, GatesAssumption
  <2>2. /\ gtPassed[p] \in Nat /\ gtStrays[p] \in Nat /\ gtConf.rpm \in Nat /\ gtNow \in Nat
        /\ Earned(gtNow, gtConf.rpm) \in Nat
        /\ PrincipalCharged(p)
    BY EarnedInParts DEF GtTypeOK
  <2>3. CASE gtStore[p] = 0
    <3>1. gtPassed[p] + n <= Earned(gtNow, gtConf.rpm) + gtStrays[p]
      BY <2>2, <2>3 DEF PrincipalCharged
    <3> HIDE DEF n
    <3> QED BY <2>1, <2>2, <3>1
  <2>4. CASE gtStore[p] # 0
    <3>1. b \in [tokens : Nat, last : 0..gtNow]
      <4>1. gtStore[p] \in 1..Len(gtBuckets)
        BY <2>4 DEF GtTypeOK
      <4> QED BY <4>1, BucketTyped
    <3>2. gtPassed[p] + n + b.tokens <= gtConf.rpm + Earned(b.last, gtConf.rpm) + gtStrays[p]
      BY <2>2, <2>4 DEF PrincipalCharged
    <3> HIDE DEF n, b
    <3>3. b.tokens \in Nat /\ b.last \in Nat /\ b.last <= gtNow
      BY <2>2, <3>1
    <3>4. Earned(b.last, gtConf.rpm) \in Nat /\ Earned(b.last, gtConf.rpm) <= Earned(gtNow, gtConf.rpm)
      BY <2>2, <3>3, EarnedInParts, EarnedGrows
    <3> QED BY <2>1, <2>2, <3>2, <3>3, <3>4
  <2> QED BY <2>3, <2>4
<1>2. ASSUME gtConf.global > 0
      PROVE  gtPassed["server"] <= gtConf.global + Earned(gtNow, gtConf.global)
  <2>1. /\ gtPassed["server"] \in Nat /\ gtConf.global \in Nat /\ gtNow \in Nat
        /\ gtGlobal.tokens \in Nat /\ gtGlobal.last \in Nat /\ gtGlobal.last <= gtNow
    BY DEF GtTypeOK
  <2>2. /\ Earned(gtGlobal.last, gtConf.global) \in Nat /\ Earned(gtNow, gtConf.global) \in Nat
        /\ Earned(gtGlobal.last, gtConf.global) <= Earned(gtNow, gtConf.global)
    BY <2>1, EarnedInParts, EarnedGrows
  <2> QED BY <1>2, <2>1, <2>2 DEF ServerCharged
<1> QED BY <1>1, <1>2 DEF RateHonoured, Earned

-----------------------------------------------------------------------------
(***************************************************************************)
(* Steps.                                                                  *)
(***************************************************************************)
TokenTaken(b, rpm) == IF Allowed(b, rpm) THEN 1 ELSE 0

\* A bucket that is asked pays for the request from what it held and the
\* time since.
LEMMA AskedBucket ==
  ASSUME NEW rpm \in Nat, gtNow \in Nat, NEW b \in [tokens : Nat, last : 0..gtNow]
  PROVE  /\ TakeToken(b, rpm) \in [tokens : Nat, last : 0..gtNow]
         /\ TakeToken(b, rpm).last = gtNow
         /\ TakeToken(b, rpm).tokens + TokenTaken(b, rpm) + Earned(b.last, rpm)
              <= b.tokens + Earned(gtNow, rpm)
<1> DEFINE e == Earned(gtNow - b.last, rpm)
           n == IF b.tokens + e > rpm THEN rpm ELSE b.tokens + e
<1>1. Refilled(b, rpm) = [tokens |-> n, last |-> gtNow]
  BY DEF Refilled, Earned
<1>2. b.tokens \in Nat /\ b.last \in Nat /\ b.last <= gtNow /\ gtNow - b.last \in Nat
  OBVIOUS
<1>3. /\ e \in Nat /\ Earned(b.last, rpm) \in Nat /\ Earned(gtNow, rpm) \in Nat
      /\ Earned(b.last, rpm) + e <= Earned(gtNow, rpm)
  BY <1>2, EarnedInParts, EarnedGrows
<1> HIDE DEF e
<1>4. n \in Nat /\ n <= b.tokens + e
  BY <1>2, <1>3
<1> HIDE DEF n
<1>5. CASE n > 0
  <2>1. TakeToken(b, rpm) = [tokens |-> n - 1, last |-> gtNow] /\ TokenTaken(b, rpm) = 1
    BY <1>1, <1>5 DEF TakeToken, Allowed, TokenTaken
  <2> QED BY <1>2, <1>3, <1>4, <1>5, <2>1
<1>6. CASE ~(n > 0)
  <2>1. TakeToken(b, rpm) = [tokens |-> n, last |-> gtNow] /\ TokenTaken(b, rpm) = 0
    BY <1>1, <1>6 DEF TakeToken, Allowed, TokenTaken
  <2> QED BY <1>2, <1>3, <1>4, <2>1
<1> QED BY <1>5, <1>6

\* Requests can be counted.
LEMMA StraysCounted ==
  ASSUME NEW S \in SUBSET GtRequests
  PROVE  IsFiniteSet(S) /\ Cardinality(S) \in Nat
BY GatesAssumption, PartsAreFinite DEF GatesAssumption

\* A principal is charged the same after a step that leaves its bucket, its
\* count and its strays alone, at the same time or later.
LEMMA ChargeKept ==
  ASSUME GtTypeOK, NEW p \in Principals, PrincipalCharged(p),
         gtNow' \in Nat, gtNow <= gtNow', UNCHANGED gtConf,
         gtStore'[p] = gtStore[p],
         gtStore[p] # 0 => gtBuckets'[gtStore[p]] = gtBuckets[gtStore[p]],
         gtPassed'[p] = gtPassed[p], gtStrays'[p] = gtStrays[p], Strays(p)' = Strays(p)
  PROVE  PrincipalCharged(p)'
<1>1. CASE gtStore[p] = 0
  <2>1. /\ gtPassed[p] \in Nat /\ gtStrays[p] \in Nat /\ gtConf.rpm \in Nat /\ gtNow \in Nat
        /\ Cardinality(Strays(p)) \in Nat
    BY StraysCounted DEF GtTypeOK, Strays
  <2>2. /\ Earned(gtNow, gtConf.rpm) \in Nat /\ Earned(gtNow', gtConf.rpm) \in Nat
        /\ Earned(gtNow, gtConf.rpm) <= Earned(gtNow', gtConf.rpm)
    BY <2>1, EarnedInParts, EarnedGrows
  <2>3. gtPassed[p] + Cardinality(Strays(p)) <= Earned(gtNow, gtConf.rpm) + gtStrays[p]
    BY <1>1 DEF PrincipalCharged
  <2>4. gtPassed'[p] + Cardinality(Strays(p)') <= Earned(gtNow', gtConf.rpm) + gtStrays'[p]
    BY <2>1, <2>2, <2>3
  <2> QED BY <1>1, <2>4 DEF PrincipalCharged, Earned
<1>2. CASE gtStore[p] # 0
  BY <1>2 DEF PrincipalCharged, Earned
<1> QED BY <1>1, <1>2

\* A request that holds no bucket before or after its step is no stray.
LEMMA StraysKept ==
  ASSUME GtTypeOK, NEW r \in GtRequests, UNCHANGED gtStore,
         \A x \in GtRequests \ {r} : gtReq'[x] = gtReq[x],
         gtReq[r].at # "ask", gtReq'[r].at # "ask"
  PROVE  \A p \in Principals : Strays(p)' = Strays(p)
BY DEF Strays


\* The clock moves on.
LEMMA TickKeeps ==
  ASSUME GatesInv, Tick
  PROVE  GatesInv'
<1> USE DEF GatesInv
<1>1. gtNow \in Nat /\ gtNow' = gtNow + 1 /\ gtNow' \in Nat /\ gtNow <= gtNow'
      /\ UNCHANGED <<gtConf, gtGlobal, gtBuckets, gtStore, gtReq, gtPassed, gtStrays>>
  BY DEF Tick, GtTypeOK
<1>2. GtTypeOK'
  <2> DEFINE S == [tokens : Nat, last : 0..gtNow]
             T == [tokens : Nat, last : 0..gtNow']
  <2>1. S \subseteq T
    BY <1>1
  <2>2. gtGlobal \in S /\ gtBuckets \in Seq(S)
    BY DEF GtTypeOK
  <2> HIDE DEF S, T
  <2>3. gtGlobal \in T /\ gtBuckets \in Seq(T)
    BY <2>1, <2>2
  <2> QED BY <1>1, <2>3 DEF GtTypeOK, T
<1>3. BucketsOwned' /\ ServerCharged'
  BY <1>1 DEF BucketsOwned, ServerCharged, Earned
<1>4. \A p \in Principals : Strays(p)' = Strays(p)
  BY <1>1 DEF Strays
<1>5. ASSUME NEW p \in Principals PROVE PrincipalCharged(p)'
  BY <1>1, <1>4, ChargeKept
<1> QED BY <1>2, <1>3, <1>5

\* The steps on the way to a bucket.
LEMMA ApproachKeeps ==
  ASSUME GatesInv, NEW r \in GtRequests,
         (\E open, keyed \in BOOLEAN : Auth(r, open, keyed)) \/ RateLimit(r) \/ NoPrincipalLimit(r)
  PROVE  GatesInv'
<1> USE DEF GatesInv
<1> DEFINE Req == [at : {"outside", "server", "principal", "ask"}, who : Principals, bucket : 0..Len(gtBuckets)]
<1>1. UNCHANGED <<gtConf, gtNow, gtBuckets, gtStore, gtStrays>>
  BY DEF Auth, RateLimit, NoPrincipalLimit
<1>2. /\ gtReq[r].at # "ask" /\ gtReq' \in [GtRequests -> Req] /\ gtReq'[r].at # "ask"
      /\ \A x \in GtRequests \ {r} : gtReq'[x] = gtReq[x]
  <2>1. PICK q : gtReq' = [gtReq EXCEPT ![r] = q] /\ q \in Req /\ q.at # "ask"
    <3>0. gtReq[r] \in Req /\ Outside \in Req /\ Outside.at # "ask"
      BY DEF GtTypeOK, Outside, Principals
    <3>1. CASE \E open, keyed \in BOOLEAN : Auth(r, open, keyed)
      <4>1. PICK open, keyed \in BOOLEAN : Auth(r, open, keyed)
        BY <3>1
      <4> DEFINE q == [at |-> "server", bucket |-> 0,
                       who |-> IF open \/ gtConf.auth = "none" THEN "anonymous" ELSE "api_key"]
      <4>2. gtReq' = [gtReq EXCEPT ![r] = q]
        BY <4>1 DEF Auth
      <4>3. q \in Req /\ q.at # "ask"
        BY <3>0 DEF GtTypeOK, Principals
      <4> QED BY <4>2, <4>3
    <3>2. CASE RateLimit(r)
      <4>1. \/ gtReq' = [gtReq EXCEPT ![r] = Outside]
            \/ gtReq' = [gtReq EXCEPT ![r] = [gtReq[r] EXCEPT !.at = "principal"]]
        BY <3>2 DEF RateLimit, Leave
      <4>2. [gtReq[r] EXCEPT !.at = "principal"] \in Req
            /\ [gtReq[r] EXCEPT !.at = "principal"].at # "ask"
        BY <3>0
      <4> QED BY <3>0, <4>1, <4>2
    <3>3. CASE NoPrincipalLimit(r)
      BY <3>0, <3>3 DEF NoPrincipalLimit, Leave
    <3> QED BY <3>1, <3>2, <3>3
  <2>2. gtReq \in [GtRequests -> Req]
    BY DEF GtTypeOK
  <2>3. gtReq[r].at # "ask"
    BY DEF Auth, RateLimit, NoPrincipalLimit
  <2> HIDE DEF Req
  <2> QED BY <2>1, <2>2, <2>3
<1>3. \/ UNCHANGED <<gtGlobal, gtPassed>>
      \/ /\ gtConf.global # 0 /\ gtGlobal' = TakeToken(gtGlobal, gtConf.global)
         /\ gtPassed' = [gtPassed EXCEPT !["server"] = @ + TokenTaken(gtGlobal, gtConf.global)]
  <2>1. CASE RateLimit(r) /\ gtConf.global # 0
    <3>1. gtPassed \in [Principals \cup {"server"} -> Nat]
      BY DEF GtTypeOK
    <3>2. gtGlobal' = TakeToken(gtGlobal, gtConf.global)
      BY <2>1 DEF RateLimit
    <3>3. CASE Allowed(gtGlobal, gtConf.global)
      BY <2>1, <3>1, <3>2, <3>3 DEF RateLimit, Count, TokenTaken
    <3>4. CASE ~Allowed(gtGlobal, gtConf.global)
      BY <2>1, <3>1, <3>2, <3>4 DEF RateLimit, TokenTaken
    <3> QED BY <3>3, <3>4
  <2> QED BY <2>1 DEF Auth, RateLimit, NoPrincipalLimit
<1>4. /\ gtGlobal' \in [tokens : Nat, last : 0..gtNow]
      /\ gtPassed' \in [Principals \cup {"server"} -> Nat]
      /\ \A p \in Principals : gtPassed'[p] = gtPassed[p]
      /\ ServerCharged'
  <2>0. /\ gtGlobal \in [tokens : Nat, last : 0..gtNow] /\ gtNow \in Nat /\ gtConf.global \in Nat
        /\ gtPassed \in [Principals \cup {"server"} -> Nat] /\ "server" \notin Principals
    BY DEF GtTypeOK, Principals
  <2>1. CASE UNCHANGED <<gtGlobal, gtPassed>>
    BY <1>1, <2>0, <2>1 DEF ServerCharged, Earned
  <2>2. CASE /\ gtConf.global # 0 /\ gtGlobal' = TakeToken(gtGlobal, gtConf.global)
             /\ gtPassed' = [gtPassed EXCEPT !["server"] = @ + TokenTaken(gtGlobal, gtConf.global)]
    <3> DEFINE k == TokenTaken(gtGlobal, gtConf.global)
               g == gtConf.global
    <3>1. k \in Nat
      BY DEF TokenTaken
    <3>2. /\ gtGlobal' \in [tokens : Nat, last : 0..gtNow] /\ gtGlobal'.last = gtNow
          /\ gtGlobal'.tokens + k + Earned(gtGlobal.last, g) <= gtGlobal.tokens + Earned(gtNow, g)
      BY <2>0, <2>2, AskedBucket
    <3> HIDE DEF k
    <3>3. /\ gtPassed' \in [Principals \cup {"server"} -> Nat]
          /\ gtPassed'["server"] = gtPassed["server"] + k
          /\ \A p \in Principals : gtPassed'[p] = gtPassed[p]
      BY <2>0, <2>2, <3>1 DEF k
    <3>4. Earned(gtGlobal.last, g) \in Nat /\ Earned(gtNow, g) \in Nat
      <4>1. gtGlobal.last \in Nat
        BY <2>0
      <4> QED BY <2>0, <4>1, EarnedInParts
    <3>5. gtPassed["server"] + gtGlobal.tokens <= g + Earned(gtGlobal.last, g)
      BY <2>0, <2>2 DEF ServerCharged
    <3>6. gtPassed'["server"] + gtGlobal'.tokens <= g + Earned(gtNow, g)
      BY <2>0, <3>1, <3>2, <3>3, <3>4, <3>5
    <3>7. ServerCharged'
      BY <1>1, <3>2, <3>6 DEF ServerCharged, Earned
    <3> QED BY <3>2, <3>3, <3>7
  <2> QED BY <1>3, <2>1, <2>2
<1>5. GtTypeOK'
  BY <1>1, <1>2, <1>4 DEF GtTypeOK
<1>6. BucketsOwned'
  BY <1>1, <1>2 DEF BucketsOwned
<1>7. \A p \in Principals : Strays(p)' = Strays(p)
  BY <1>1, <1>2, StraysKept
<1>8. ASSUME NEW p \in Principals PROVE PrincipalCharged(p)'
  BY <1>1, <1>4, <1>7, ChargeKept DEF GtTypeOK
<1> QED BY <1>4, <1>5, <1>6, <1>8


\* A principal's bucket is fetched, or made full when it was reaped or never
\* there.
LEMMA GetBucketKeeps ==
  ASSUME GatesInv, NEW r \in GtRequests, GetBucket(r)
  PROVE  GatesInv'
<1> USE DEF GatesInv
<1> DEFINE who == gtReq[r].who
           n == gtReq'[r].bucket
<1>0. /\ UNCHANGED <<gtConf, gtNow, gtGlobal, gtPassed, gtStrays>> /\ who \in Principals
      /\ gtReq[r].at # "ask" /\ gtNow \in Nat /\ gtConf.rpm \in Nat /\ Len(gtBuckets) \in Nat
  BY DEF GetBucket, GtTypeOK
<1>1. /\ gtReq' = [gtReq EXCEPT ![r] = [at |-> "ask", who |-> who, bucket |-> n]]
      /\ \/ /\ gtStore[who] > 0 /\ n = gtStore[who] /\ UNCHANGED <<gtBuckets, gtStore>>
         \/ /\ gtStore[who] = 0 /\ n = Len(gtBuckets) + 1
            /\ gtBuckets' = Append(gtBuckets, Bucket(gtConf.rpm))
            /\ gtStore' = [gtStore EXCEPT ![who] = n]
  <2>1. /\ gtReq \in [GtRequests -> [at : {"outside", "server", "principal", "ask"},
                                     who : Principals, bucket : 0..Len(gtBuckets)]]
        /\ gtStore[who] \in Nat
    BY <1>0 DEF GtTypeOK
  <2>2. CASE gtStore[who] > 0
    BY <2>1, <2>2 DEF GetBucket
  <2>3. CASE ~(gtStore[who] > 0)
    <3>1. Len(gtBuckets') = Len(gtBuckets) + 1
      BY <2>3 DEF GetBucket, GtTypeOK
    <3> QED BY <2>1, <2>3, <3>1 DEF GetBucket
  <2> QED BY <2>2, <2>3
<1>2. /\ \A x \in GtRequests \ {r} : gtReq'[x] = gtReq[x]
      /\ gtReq'[r] = [at |-> "ask", who |-> who, bucket |-> n]
  BY <1>1 DEF GtTypeOK
<1> HIDE DEF n
<1>3. ServerCharged'
  BY <1>0 DEF ServerCharged, Earned
<1>4. CASE gtStore[who] > 0 /\ n = gtStore[who] /\ UNCHANGED <<gtBuckets, gtStore>>
  <2>1. GtTypeOK'
    <3>1. n \in 0..Len(gtBuckets)
      BY <1>0, <1>4 DEF GtTypeOK
    <3>2. gtReq' \in [GtRequests -> [at : {"outside", "server", "principal", "ask"},
                                     who : Principals, bucket : 0..Len(gtBuckets)]]
      BY <1>0, <1>1, <3>1 DEF GtTypeOK
    <3> QED BY <1>0, <1>4, <3>2 DEF GtTypeOK
  <2>2. BucketsOwned'
    BY <1>0, <1>2, <1>4 DEF BucketsOwned
  <2>3. \A p \in Principals : Strays(p)' = Strays(p)
    BY <1>0, <1>2, <1>4 DEF Strays
  <2>4. ASSUME NEW p \in Principals PROVE PrincipalCharged(p)'
    BY <1>0, <1>4, <2>3, ChargeKept
  <2> QED BY <1>3, <2>1, <2>2, <2>4
<1>5. CASE /\ gtStore[who] = 0 /\ n = Len(gtBuckets) + 1
           /\ gtBuckets' = Append(gtBuckets, Bucket(gtConf.rpm))
           /\ gtStore' = [gtStore EXCEPT ![who] = n]
  <2> DEFINE S == [tokens : Nat, last : 0..gtNow]
  <2>1. gtBuckets \in Seq(S) /\ Bucket(gtConf.rpm) \in S
    BY <1>0 DEF GtTypeOK, Bucket
  <2>2. /\ gtBuckets' \in Seq(S) /\ Len(gtBuckets') = n
        /\ gtBuckets'[n] = Bucket(gtConf.rpm)
        /\ \A k \in 1..Len(gtBuckets) : gtBuckets'[k] = gtBuckets[k]
    <3> HIDE DEF S
    <3> QED BY <1>0, <1>5, <2>1
  <2>3. /\ gtStore'[who] = n /\ \A p \in Principals \ {who} : gtStore'[p] = gtStore[p]
        /\ \A p \in Principals : gtStore[p] \in 0..Len(gtBuckets)
        /\ \A x \in GtRequests : gtReq[x].bucket \in 0..Len(gtBuckets)
    BY <1>0, <1>5 DEF GtTypeOK
  <2>4. GtTypeOK'
    <3>1. gtStore' \in [Principals -> 0..n]
      BY <1>0, <1>5, <2>3 DEF GtTypeOK
    <3>2. gtReq' \in [GtRequests -> [at : {"outside", "server", "principal", "ask"},
                                     who : Principals, bucket : 0..n]]
      <4>1. \A x \in GtRequests : gtReq[x] \in [at : {"outside", "server", "principal", "ask"},
                                                who : Principals, bucket : 0..n]
        BY <1>0, <1>5 DEF GtTypeOK
      <4>2. n \in 0..n
        BY <1>0, <1>5
      <4> QED BY <1>0, <1>1, <4>1, <4>2 DEF GtTypeOK
    <3> QED BY <1>0, <2>2, <3>1, <3>2 DEF GtTypeOK
  <2>5. BucketsOwned'
    BY <1>0, <1>2, <1>5, <2>3 DEF BucketsOwned
  <2>6. \A p \in Principals : Strays(p)' = Strays(p)
    <3>1. \A x \in GtRequests : gtReq[x].at = "ask" => gtReq[x].bucket > 0 /\ gtReq[x].bucket # n
      BY <1>0, <1>5, <2>3 DEF BucketsOwned
    <3> QED BY <1>0, <1>2, <1>5, <2>3, <3>1 DEF Strays
  <2>7. ASSUME NEW p \in Principals PROVE PrincipalCharged(p)'
    <3>1. CASE p = who
      <4> DEFINE m == Cardinality(Strays(who))
      <4>1. /\ gtPassed[who] \in Nat /\ gtStrays[who] \in Nat /\ m \in Nat
            /\ Earned(gtNow, gtConf.rpm) \in Nat
        BY <1>0, StraysCounted, EarnedInParts DEF Strays, GtTypeOK
      <4>2. gtPassed[who] + m <= Earned(gtNow, gtConf.rpm) + gtStrays[who]
        BY <1>0, <1>5 DEF PrincipalCharged
      <4>3. gtPassed[who] + m + gtConf.rpm <= gtConf.rpm + Earned(gtNow, gtConf.rpm) + gtStrays[who]
        <5> DEFINE g == gtPassed[who]
                   w == gtStrays[who]
                   e == Earned(gtNow, gtConf.rpm)
                   rpm == gtConf.rpm
        <5>1. {g, w, e, m, rpm} \subseteq Nat /\ g + m <= e + w
          BY <1>0, <4>1, <4>2
        <5> HIDE DEF m, g, w, e, rpm
        <5>2. g + m + rpm <= rpm + e + w
          BY <5>1
        <5> QED BY <5>2 DEF g, w, e, rpm
      <4>4. gtBuckets'[gtStore'[p]].tokens = gtConf.rpm /\ gtBuckets'[gtStore'[p]].last = gtNow
            /\ gtStore'[p] # 0
        BY <1>0, <1>5, <2>2, <2>3, <3>1 DEF Bucket
      <4>5. Strays(p)' = Strays(who)
        BY <1>0, <2>6, <3>1
      <4> QED BY <1>0, <3>1, <4>3, <4>4, <4>5 DEF PrincipalCharged, Earned
    <3>2. CASE p # who
      <4>1. gtStore'[p] = gtStore[p] /\ (gtStore[p] # 0 => gtBuckets'[gtStore[p]] = gtBuckets[gtStore[p]])
        BY <2>2, <2>3, <3>2
      <4> QED BY <1>0, <2>6, <4>1, ChargeKept
    <3> QED BY <3>1, <3>2
  <2> QED BY <1>3, <2>4, <2>5, <2>7
<1> QED BY <1>1, <1>4, <1>5


\* A bucket is asked, be it the principal's own or one reaped meanwhile.
LEMMA AskKeeps ==
  ASSUME GatesInv, NEW r \in GtRequests, PrincipalRateLimit(r)
  PROVE  GatesInv'
<1> USE DEF GatesInv
<1>t. /\ gtReq[r].who \in Principals /\ gtReq[r].bucket \in Nat
      /\ gtPassed \in [Principals \cup {"server"} -> Nat] /\ gtStrays \in [Principals -> Nat]
      /\ \A p \in Principals : gtStore[p] \in 0..Len(gtBuckets)
      /\ Len(gtBuckets) \in Nat
  BY DEF GtTypeOK
<1> PICK who \in Principals, k \in Nat : who = gtReq[r].who /\ k = gtReq[r].bucket
  BY <1>t
<1> PICK b, rpm : b = gtBuckets[k] /\ rpm = gtConf.rpm
  OBVIOUS
<1> DEFINE one == TokenTaken(b, rpm)
<1>0. /\ UNCHANGED <<gtConf, gtNow, gtGlobal, gtStore, gtStrays>>
      /\ gtReq[r].at = "ask" /\ gtNow \in Nat /\ rpm \in Nat
  BY DEF PrincipalRateLimit, GtTypeOK
<1>1. k \in 1..Len(gtBuckets) /\ \A p \in Principals : gtStore[p] = k => p = who
  BY <1>0 DEF GtTypeOK, BucketsOwned
<1>2. b \in [tokens : Nat, last : 0..gtNow]
  BY <1>1, BucketTyped
<1>3. /\ gtBuckets' = [gtBuckets EXCEPT ![k] = TakeToken(b, rpm)]
      /\ gtReq' = [gtReq EXCEPT ![r] = Outside]
      /\ gtPassed' = [gtPassed EXCEPT ![who] = @ + one]
  <2>1. gtPassed \in [Principals \cup {"server"} -> Nat]
    BY DEF GtTypeOK
  <2>2. gtBuckets' = [gtBuckets EXCEPT ![k] = TakeToken(b, rpm)] /\ gtReq' = [gtReq EXCEPT ![r] = Outside]
    BY DEF PrincipalRateLimit, Leave
  <2>3. CASE Allowed(b, rpm)
    BY <2>1, <2>2, <2>3 DEF PrincipalRateLimit, Count, TokenTaken
  <2>4. CASE ~Allowed(b, rpm)
    BY <1>0, <2>1, <2>2, <2>4 DEF PrincipalRateLimit, TokenTaken
  <2> QED BY <2>3, <2>4
<1>4. /\ one \in 0..1
      /\ TakeToken(b, rpm) \in [tokens : Nat, last : 0..gtNow] /\ TakeToken(b, rpm).last = gtNow
      /\ TakeToken(b, rpm).tokens + one + Earned(b.last, rpm) <= b.tokens + Earned(gtNow, rpm)
  BY <1>0, <1>2, AskedBucket DEF TokenTaken
<1> HIDE DEF one
<1>5. /\ gtPassed' \in [Principals \cup {"server"} -> Nat] /\ gtPassed'[who] = gtPassed[who] + one
      /\ gtPassed'["server"] = gtPassed["server"]
      /\ \A p \in Principals \ {who} : gtPassed'[p] = gtPassed[p]
  <2>1. who # "server" /\ "server" \notin Principals
    BY DEF Principals
  <2>2. gtPassed[who] \in Nat /\ gtPassed[who] + one \in Nat
    BY <1>t, <1>4
  <2>3. gtPassed' = [gtPassed EXCEPT ![who] = gtPassed[who] + one]
    BY <1>3
  <2> QED BY <1>t, <2>1, <2>2, <2>3
<1>6. /\ gtReq'[r] = Outside /\ \A x \in GtRequests \ {r} : gtReq'[x] = gtReq[x]
      /\ Outside.at # "ask"
  BY <1>3 DEF GtTypeOK, Outside
<1>7. /\ Len(gtBuckets') = Len(gtBuckets) /\ gtBuckets'[k] = TakeToken(b, rpm)
      /\ \A j \in 1..Len(gtBuckets) : j # k => gtBuckets'[j] = gtBuckets[j]
      /\ gtBuckets' \in Seq([tokens : Nat, last : 0..gtNow])
  <2> DEFINE S == [tokens : Nat, last : 0..gtNow]
             t == TakeToken(b, rpm)
  <2>1. gtBuckets \in Seq(S) /\ t \in S
    BY <1>4 DEF GtTypeOK
  <2> HIDE DEF S, t
  <2>2. gtBuckets' = [gtBuckets EXCEPT ![k] = t]
    BY <1>3 DEF t
  <2>3. /\ Len(gtBuckets') = Len(gtBuckets) /\ gtBuckets'[k] = t
        /\ \A j \in 1..Len(gtBuckets) : j # k => gtBuckets'[j] = gtBuckets[j]
        /\ gtBuckets' \in Seq(S)
    BY <1>1, <2>1, <2>2
  <2> QED BY <2>3 DEF S, t
<1>8. GtTypeOK'
  <2>1. gtReq' \in [GtRequests -> [at : {"outside", "server", "principal", "ask"},
                                   who : Principals, bucket : 0..Len(gtBuckets)]]
    BY <1>3 DEF GtTypeOK, Outside, Principals
  <2> QED BY <1>0, <1>5, <1>7, <2>1 DEF GtTypeOK
<1>9. BucketsOwned' /\ ServerCharged'
  BY <1>0, <1>5, <1>6 DEF BucketsOwned, ServerCharged, Earned
<1>10. ASSUME NEW p \in Principals PROVE PrincipalCharged(p)'
  <2>1. CASE p # who
    <3>1. Strays(p)' = Strays(p)
      BY <1>0, <1>6, <2>1 DEF Strays
    <3>2. gtStore[p] # 0 => gtBuckets'[gtStore[p]] = gtBuckets[gtStore[p]]
      <4>1. SUFFICES ASSUME gtStore[p] # 0 PROVE gtBuckets'[gtStore[p]] = gtBuckets[gtStore[p]]
        OBVIOUS
      <4>2. gtStore[p] \in 1..Len(gtBuckets)
        BY <1>t, <4>1
      <4>3. gtStore[p] # k
        BY <1>1, <2>1
      <4> QED BY <1>7, <4>2, <4>3
    <3> QED BY <1>0, <1>5, <2>1, <3>1, <3>2, ChargeKept
  <2>2. CASE p = who /\ k = gtStore[who]
    <3> DEFINE m == Cardinality(Strays(who))
    <3>1. Strays(who)' = Strays(who)
      BY <1>0, <1>6, <2>2 DEF Strays
    <3>2. m \in Nat /\ gtPassed[who] \in Nat /\ gtStrays[who] \in Nat /\ b.tokens \in Nat /\ b.last \in Nat
      BY <1>t, <1>0, <1>2, StraysCounted DEF Strays
    <3>3. Earned(b.last, rpm) \in Nat /\ Earned(gtNow, rpm) \in Nat
      BY <1>0, <3>2, EarnedInParts
    <3>4. gtPassed[who] + m + b.tokens <= rpm + Earned(b.last, rpm) + gtStrays[who]
      BY <1>0, <1>1, <2>2 DEF PrincipalCharged
    <3>5. TakeToken(b, rpm).tokens \in Nat
      BY <1>4
    <3>6. gtPassed'[who] + m + TakeToken(b, rpm).tokens <= rpm + Earned(gtNow, rpm) + gtStrays[who]
      <4> DEFINE t == TakeToken(b, rpm).tokens
      <4> HIDE DEF m, t
      <4> QED BY <1>0, <1>4, <1>5, <3>2, <3>3, <3>4, <3>5 DEF t
    <3>7. gtStore'[p] # 0 /\ gtBuckets'[gtStore'[p]] = TakeToken(b, rpm)
      BY <1>0, <1>1, <1>7, <2>2
    <3>8. Strays(p)' = Strays(who)
      BY <2>2, <3>1
    <3> QED BY <1>0, <1>4, <2>2, <3>6, <3>7, <3>8 DEF PrincipalCharged, Earned
  <2>3. CASE p = who /\ k # gtStore[who]
    <3> DEFINE S == Strays(who)
               m == Cardinality(S)
    <3>1. Strays(who)' = S \ {r} /\ r \in S /\ S \in SUBSET GtRequests
      BY <1>0, <1>6, <2>3 DEF Strays
    <3>2. IsFiniteSet(S) /\ m \in Nat
      <4> HIDE DEF S
      <4> QED BY <3>1, StraysCounted
    <3>3. Cardinality(S \ {r}) = m - 1
      <4> HIDE DEF S
      <4> QED BY <3>1, <3>2, OneLess
    <3>4. /\ gtPassed'[who] + (m - 1) <= gtPassed[who] + m
          /\ gtPassed[who] \in Nat /\ gtPassed'[who] \in Nat /\ gtStrays[who] \in Nat
      <4>1. gtPassed[who] \in Nat /\ gtPassed'[who] \in Nat /\ gtStrays[who] \in Nat
        BY <1>t, <1>5
      <4> HIDE DEF m
      <4> QED BY <1>4, <1>5, <3>2, <4>1
    <3>5. Cardinality(Strays(p)') = m - 1 /\ gtPassed'[p] = gtPassed'[who] /\ gtStrays'[p] = gtStrays[who]
          /\ gtStore'[p] = gtStore[who]
      BY <1>0, <2>3, <3>1, <3>3
    <3> HIDE DEF m
    <3>6. CASE gtStore[who] = 0
      <4>1. gtPassed[who] + m <= Earned(gtNow, rpm) + gtStrays[who]
        BY <1>0, <3>6 DEF PrincipalCharged, m
      <4>2. Earned(gtNow, rpm) \in Nat
        BY <1>0, EarnedInParts
      <4>3. gtPassed'[who] + (m - 1) <= Earned(gtNow, rpm) + gtStrays[who]
        BY <3>2, <3>4, <4>1, <4>2
      <4> QED BY <1>0, <3>5, <3>6, <4>3 DEF PrincipalCharged, Earned
    <3>7. CASE gtStore[who] # 0
      <4> DEFINE c == gtBuckets[gtStore[who]]
      <4>1. gtStore[who] \in 1..Len(gtBuckets)
        BY <1>0, <3>7 DEF GtTypeOK
      <4>2. c \in [tokens : Nat, last : 0..gtNow] /\ gtBuckets'[gtStore[who]] = c
        BY <1>7, <2>3, <4>1, BucketTyped
      <4>3. gtPassed[who] + m + c.tokens <= rpm + Earned(c.last, rpm) + gtStrays[who]
        BY <1>0, <3>7 DEF PrincipalCharged, m
      <4>4. c.tokens \in Nat /\ c.last \in Nat
        <5> HIDE DEF c
        <5> QED BY <4>2
      <4>5. Earned(c.last, rpm) \in Nat
        BY <1>0, <4>4, EarnedInParts
      <4>6. gtPassed'[who] + (m - 1) + c.tokens <= rpm + Earned(c.last, rpm) + gtStrays[who]
        <5> HIDE DEF c
        <5> QED BY <1>0, <3>2, <3>4, <4>3, <4>4, <4>5
      <4> QED BY <1>0, <3>5, <3>7, <4>2, <4>6 DEF PrincipalCharged, Earned
    <3> QED BY <3>6, <3>7
  <2> QED BY <2>1, <2>2, <2>3
<1> QED BY <1>8, <1>9, <1>10


\* The reaper forgets buckets that would be full again.
LEMMA ReapKeeps ==
  ASSUME GatesInv, Reap
  PROVE  GatesInv'
<1> USE DEF GatesInv
<1>0. /\ UNCHANGED <<gtConf, gtNow, gtGlobal, gtBuckets, gtReq, gtPassed>>
      /\ gtStore' = [p \in Principals |-> IF Stale(p) THEN 0 ELSE gtStore[p]]
      /\ gtStrays' = [p \in Principals |-> gtStrays[p] + IF Stale(p) THEN Cardinality(Holding(p)) ELSE 0]
  BY DEF Reap
<1>t. /\ gtNow \in Nat /\ gtConf.rpm \in Nat /\ Len(gtBuckets) \in Nat
      /\ gtPassed \in [Principals \cup {"server"} -> Nat] /\ gtStrays \in [Principals -> Nat]
      /\ \A p \in Principals : gtStore[p] \in 0..Len(gtBuckets)
  BY DEF GtTypeOK
<1>1. \A p \in Principals : IsFiniteSet(Holding(p)) /\ Cardinality(Holding(p)) \in Nat
  BY StraysCounted DEF Holding
<1>2. GtTypeOK'
  <2>1. gtStore' \in [Principals -> 0..Len(gtBuckets)]
    BY <1>0, <1>t
  <2>2. gtStrays' \in [Principals -> Nat]
    BY <1>0, <1>t, <1>1
  <2> QED BY <1>0, <2>1, <2>2 DEF GtTypeOK
<1>3. BucketsOwned' /\ ServerCharged'
  <2>1. \A p \in Principals : gtStore'[p] \in {0, gtStore[p]}
    BY <1>0
  <2> QED BY <1>0, <2>1 DEF BucketsOwned, ServerCharged, Earned
<1>4. ASSUME NEW p \in Principals PROVE PrincipalCharged(p)'
  <2>1. CASE ~Stale(p)
    <3>1. gtStore'[p] = gtStore[p] /\ gtStrays'[p] = gtStrays[p]
      BY <1>0, <1>t, <2>1
    <3>2. Strays(p)' = Strays(p)
      BY <1>0, <3>1 DEF Strays
    <3> QED BY <1>0, <1>t, <3>1, <3>2, ChargeKept
  <2>2. CASE Stale(p)
    <3> DEFINE b == gtBuckets[gtStore[p]]
               m == Cardinality(Strays(p))
               h == Cardinality(Holding(p))
               rpm == gtConf.rpm
    <3>1. gtStore[p] \in 1..Len(gtBuckets) /\ b.last < gtNow - GtReap
      BY <1>t, <2>2 DEF Stale
    <3>2. b \in [tokens : Nat, last : 0..gtNow]
      BY <3>1, BucketTyped
    <3>3. b.tokens \in Nat /\ b.last \in Nat /\ b.last <= gtNow
      <4> HIDE DEF b
      <4> QED BY <1>t, <3>2
    <3>4. gtPassed[p] + m + b.tokens <= rpm + Earned(b.last, rpm) + gtStrays[p]
      BY <3>1 DEF PrincipalCharged
    <3>5. Cardinality(Strays(p)') = m + h /\ m \in Nat /\ h \in Nat
      <4>1. gtStore'[p] = 0
        BY <1>0, <2>2
      <4>2. \A r \in GtRequests : gtReq[r].at = "ask" =>
              gtReq[r].bucket > 0 /\ (gtStore[p] = gtReq[r].bucket => p = gtReq[r].who)
        BY DEF BucketsOwned
      <4>3. Strays(p)' = Strays(p) \cup Holding(p) /\ Strays(p) \cap Holding(p) = {}
        BY <1>0, <3>1, <4>1, <4>2 DEF Strays, Holding
      <4>4. Strays(p) \in SUBSET GtRequests /\ Holding(p) \in SUBSET GtRequests
        BY DEF Strays, Holding
      <4>5. /\ IsFiniteSet(Strays(p)) /\ m \in Nat /\ IsFiniteSet(Holding(p)) /\ h \in Nat
        BY <4>4, StraysCounted
      <4>6. Cardinality(Strays(p) \cup Holding(p)) = m + h - Cardinality(Strays(p) \cap Holding(p))
        BY <4>5, Together
      <4>7. Cardinality(Strays(p) \cap Holding(p)) = 0
        BY <4>3, NoMembers
      <4> HIDE DEF m, h
      <4> QED BY <4>3, <4>5, <4>6, <4>7
    <3>6. /\ gtStore'[p] = 0 /\ gtStrays'[p] = gtStrays[p] + h
          /\ gtPassed[p] \in Nat /\ gtStrays[p] \in Nat
      BY <1>0, <1>t, <2>2
    <3>7. /\ Earned(b.last, rpm) \in Nat /\ Earned(gtNow, rpm) \in Nat
          /\ Earned(b.last, rpm) + rpm <= Earned(gtNow, rpm)
      <4> DEFINE d == gtNow - b.last
      <4>1. d \in Nat /\ d >= GtMinute
        BY <1>t, <3>1, <3>3, GatesAssumption DEF GatesAssumption
      <4>2. Earned(b.last, rpm) + Earned(d, rpm) <= Earned(gtNow, rpm)
        BY <1>t, <3>3, EarnedGrows
      <4> HIDE DEF d, b
      <4>3. Earned(d, rpm) \in Nat /\ Earned(b.last, rpm) \in Nat /\ Earned(gtNow, rpm) \in Nat
        BY <1>t, <3>3, <4>1, EarnedInParts
      <4>4. rpm <= Earned(d, rpm)
        BY <1>t, <4>1, EarnedInAMinute
      <4> QED BY <1>t, <4>2, <4>3, <4>4
    <3>8. gtPassed[p] + (m + h) <= Earned(gtNow, rpm) + (gtStrays[p] + h)
      <4> DEFINE e0 == Earned(b.last, rpm)
                 e1 == Earned(gtNow, rpm)
                 g == gtPassed[p]
                 s == gtStrays[p]
                 t == b.tokens
      <4>1. {g, m, h, t, s, e0, e1, rpm} \subseteq Nat
        BY <1>t, <3>3, <3>5, <3>6, <3>7
      <4>2. g + m + t <= rpm + e0 + s /\ e0 + rpm <= e1
        BY <3>4, <3>7
      <4> HIDE DEF m, h, b, rpm, e0, e1, g, s, t
      <4>3. g + (m + h) <= e1 + (s + h)
        BY <4>1, <4>2
      <4> QED BY <4>3 DEF g, e1, s
    <3> QED BY <1>0, <3>5, <3>6, <3>8 DEF PrincipalCharged, Earned
  <2> QED BY <2>1, <2>2
<1> QED BY <1>2, <1>3, <1>4

\* The gates begin with the invariant, in use or idle.
LEMMA GatesStart == ASSUME GtInit \/ GtIdle PROVE GatesInv
<1>1. gtConf.rpm \in Nat /\ gtConf.global \in Nat
  BY GatesAssumption DEF GtInit, GtIdle, GatesAssumption
<1>2. /\ gtNow = 0 /\ gtGlobal = [tokens |-> gtConf.global, last |-> 0]
      /\ gtBuckets = <<>> /\ gtStore = [p \in Principals |-> 0]
      /\ gtReq = [r \in GtRequests |-> Outside]
      /\ gtPassed = [p \in Principals \cup {"server"} |-> 0]
      /\ gtStrays = [p \in Principals |-> 0]
  BY DEF GtInit, GtIdle, GtBlank
<1>3. GtTypeOK
  BY <1>1, <1>2 DEF GtTypeOK, Outside, Principals
<1>4. BucketsOwned
  BY <1>2 DEF BucketsOwned, Outside
<1>5. Earned(0, gtConf.rpm) \in Nat /\ Earned(0, gtConf.global) \in Nat
  BY <1>1, EarnedInParts
<1>6. ServerCharged
  BY <1>1, <1>2, <1>5 DEF ServerCharged
<1>7. ASSUME NEW p \in Principals PROVE PrincipalCharged(p)
  <2>1. Strays(p) = {}
    BY <1>2 DEF Strays, Outside
  <2>2. Cardinality(Strays(p)) = 0
    BY <2>1, NoMembers
  <2> QED BY <1>2, <1>5, <2>2 DEF PrincipalCharged
<1> QED BY <1>3, <1>4, <1>6, <1>7 DEF GatesInv

\* Every step keeps it.
LEMMA GatesStep == ASSUME GatesInv, [GtNext]_gtVars PROVE GatesInv'
<1>1. CASE UNCHANGED gtVars
  BY <1>1 DEF gtVars, GatesInv, GtTypeOK, BucketsOwned, ServerCharged, PrincipalCharged, Strays, Earned
<1>2. ASSUME NEW r \in GtRequests,
             \/ \E open, keyed \in BOOLEAN : Auth(r, open, keyed)
             \/ RateLimit(r) \/ GetBucket(r) \/ NoPrincipalLimit(r) \/ PrincipalRateLimit(r)
      PROVE  GatesInv'
  BY <1>2, ApproachKeeps, GetBucketKeeps, AskKeeps
<1> QED BY <1>1, <1>2, TickKeeps, ReapKeeps DEF GtNext

\* Every bucket is charged for what it let through, in every reachable state.
THEOREM GatesInvariant == GtSpec => []GatesInv
BY GatesStart, GatesStep, PTL DEF GtSpec

\* No principal passes more often than a full bucket and its time allow, but
\* for requests that held a bucket while it was reaped, and the server as a
\* whole passes no more than its own bucket allows.
THEOREM RateIsHonoured == GtSpec => []RateHonoured
BY GatesInvariant, GatesInvImpliesRate, PTL

\* The gates of a serving engine let through what their buckets allow.
THEOREM ServedRate == ServingSpec => []RateHonoured
<1>1. ServingInit => GatesInv
  BY PartsStart, GatesStart
<1>2. GatesInv /\ [ServingNext]_servingVars => GatesInv'
  BY PartsStep, GatesStep
<1>3. GatesInv => RateHonoured
  BY GatesInvImpliesRate
<1> QED BY <1>1, <1>2, <1>3, PTL DEF ServingSpec

-----------------------------------------------------------------------------
(***************************************************************************)
(* THE MODEL SETTINGS, for any replicas, administrators, updates and       *)
(* environment: what the settings in use are, that saves of a replica do   *)
(* not overwrite each other, and that the registry is a register.          *)
(***************************************************************************)
Processes == Replicas \cup SaveCalls

\* Whose mutex a process takes.
Of(x) == IF x \in SaveCalls THEN Target[x] ELSE x

\* The process holds a snapshot it has built and not yet stored.
Building(x) == IF x \in SaveCalls THEN call[x].step = "store" ELSE watcher[x] = "read"

RowType == [set : Storable, by : Replicas, at : Nat]
SnapType == [set : SettingsType, at : Nat, ver : Nat]
CallSteps == {"new", "read", "write", "reload", "store", "done", "failed", "invalid"}
CallType == [step : CallSteps, update : Updates \cup {Nothing}, base : Nat, next : Storable]

RegTypeOK ==
  /\ log \in Seq(RowType)
  /\ snap \in [Replicas -> SnapType]
  /\ call \in [SaveCalls -> CallType]
  /\ watcher \in [Replicas -> {"idle", "stale", "read"}]
  /\ loaded \in [Processes -> SnapType \cup {Nothing}]
  /\ opens \in [Replicas -> {"yes", "corrupt", "nokey"}]

\* A row is dated by its place, and a request that is under way has an update.
Dated ==
  /\ \A k \in DOMAIN log : log[k].at = k
  /\ \A c \in SaveCalls : call[c].step \in {"read", "write"} => call[c].update \in Updates

\* The mutex: a replica has one save, or one reload of its watcher, at a time.
OneAtATime ==
  /\ \A c, d \in SaveCalls : Target[c] = Target[d] /\ InSave(c) /\ InSave(d) => c = d
  /\ \A c \in SaveCalls : InSave(c) => watcher[Target[c]] # "read"

\* Settings that may be stored: they are valid and keys fit.
Usable(set) ==
  /\ set.gen # Nothing => ValidGenerative(set.gen)
  /\ set.judge # Nothing => ValidJudge(set.judge)
Sound(set) == KeyFits(set) /\ Usable(set)

\* ... and settings a replica may run with: those, or the environment's.
InUse(set) ==
  /\ KeyFits(set)
  /\ set.gen \notin {Nothing, EnvSettings.gen} => ValidGenerative(set.gen)
  /\ set.judge \notin {Nothing, EnvSettings.judge} => ValidJudge(set.judge)

SettingsSound ==
  /\ \A k \in DOMAIN log : Sound(log[k].set)
  /\ \A c \in SaveCalls : Sound(call[c].next)
  /\ \A r \in Replicas : InUse(snap[r].set)
  /\ \A x \in Processes : Building(x) => loaded[x] \in SnapType /\ InUse(loaded[x].set)

\* Rows written since a save read the row are of other replicas.
NotMine ==
  /\ \A c \in SaveCalls : call[c].step = "write" =>
       call[c].base <= Len(log) /\ \A k \in DOMAIN log : k > call[c].base => log[k].by # Target[c]
  /\ SavesOfOneReplicaMerge

\* The settings of the first v rows.
Version(v) == IF v = 0 THEN Over(Empty) ELSE Over(log[v].set)

\* What is being built is no older than what it will replace, and is of its
\* version, or is the environment's.
VersionsInOrder ==
  /\ \A r \in Replicas : snap[r].ver <= Len(log)
  /\ \A x \in Processes : Building(x) =>
       /\ loaded[x].ver >= snap[Of(x)].ver /\ loaded[x].ver <= Len(log)
       /\ \/ loaded[x].set = Version(loaded[x].ver)
          \/ loaded[x].set = Over(Empty) /\ loaded[x].ver = snap[Of(x)].ver

RegInv == RegTypeOK /\ Dated /\ OneAtATime /\ SettingsSound /\ NotMine /\ VersionsInOrder


-----------------------------------------------------------------------------
(***************************************************************************)
(* Settings.                                                               *)
(***************************************************************************)
Gens == {u.gen : u \in Updates} \ {Nothing}
JudgesAsked == {u.judge : u \in Updates} \ {Nothing}

\* What an administrator may send.
LEMMA UpdateTyped ==
  ASSUME NEW u \in Updates
  PROVE  /\ u \in UpdateType /\ KeyFits(u)
         /\ u.gen # Nothing => u.gen \in Gens
         /\ u.judge # Nothing => u.judge \in JudgesAsked
<1>1. PICK c \in SaveCalls : u \in Asks[c]
  BY DEF Updates
<1>2. u \in UpdateType /\ KeyFits(u)
  BY <1>1, RegistryAssumption DEF RegistryAssumption
<1> QED BY <1>2 DEF Gens, JudgesAsked

\* The parts of the updates are typed.
LEMMA GensTyped == Gens \subseteq GenerativeType /\ JudgesAsked \subseteq JudgeType
<1>1. \A u \in Updates : u.gen \in GenerativeType \cup {Nothing} /\ u.judge \in JudgeType \cup {Nothing}
  BY UpdateTyped DEF UpdateType
<1> QED BY <1>1 DEF Gens, JudgesAsked

\* A stored group is an update's, with an update's key.
WithKey(g, key) == [g EXCEPT !.key = key]
StoredGens == {WithKey(g, h.key) : g, h \in Gens}
StoredJudges == {WithKey(j, h.key) : j, h \in JudgesAsked}

\* Storable says that of both groups.
LEMMA StorableParts ==
  /\ Storable = [gen : {Nothing} \cup StoredGens, judge : {Nothing} \cup StoredJudges]
  /\ StoredGens \subseteq GenerativeType /\ StoredJudges \subseteq JudgeType
  /\ Gens \subseteq StoredGens /\ JudgesAsked \subseteq StoredJudges
<1>1. Storable = [gen : {Nothing} \cup StoredGens, judge : {Nothing} \cup StoredJudges]
  BY DEF Storable, StoredGens, StoredJudges, Gens, JudgesAsked, WithKey
<1>2. \A g, h \in GenerativeType : WithKey(g, h.key) \in GenerativeType
  BY DEF GenerativeType, WithKey
<1>3. \A j, h \in JudgeType : WithKey(j, h.key) \in JudgeType
  BY DEF JudgeType, WithKey
<1>4. \A g \in GenerativeType : WithKey(g, g.key) = g
  BY DEF GenerativeType, WithKey
<1>5. \A j \in JudgeType : WithKey(j, j.key) = j
  BY DEF JudgeType, WithKey
<1>6. StoredGens \subseteq GenerativeType /\ Gens \subseteq StoredGens
  BY <1>2, <1>4, GensTyped DEF StoredGens
<1>7. StoredJudges \subseteq JudgeType /\ JudgesAsked \subseteq StoredJudges
  BY <1>3, <1>5, GensTyped DEF StoredJudges
<1> QED BY <1>1, <1>6, <1>7

\* Keeping a stored key gives a group that may be stored.
LEMMA KeptKey ==
  /\ \A g \in Gens, s \in StoredGens : WithKey(g, s.key) \in StoredGens
  /\ \A j \in JudgesAsked, s \in StoredJudges : WithKey(j, s.key) \in StoredJudges
<1>1. ASSUME NEW g \in Gens, NEW s \in StoredGens
      PROVE  WithKey(g, s.key) \in StoredGens
  <2>1. PICK a, h \in Gens : s = WithKey(a, h.key)
    BY DEF StoredGens
  <2>2. a \in GenerativeType
    BY GensTyped
  <2>3. s.key = h.key
    BY <2>1, <2>2 DEF GenerativeType, WithKey
  <2> QED BY <2>3 DEF StoredGens
<1>2. ASSUME NEW j \in JudgesAsked, NEW s \in StoredJudges
      PROVE  WithKey(j, s.key) \in StoredJudges
  <2>1. PICK a, h \in JudgesAsked : s = WithKey(a, h.key)
    BY DEF StoredJudges
  <2>2. a \in JudgeType
    BY GensTyped
  <2>3. s.key = h.key
    BY <2>1, <2>2 DEF JudgeType, WithKey
  <2> QED BY <2>3 DEF StoredJudges
<1> QED BY <1>1, <1>2

\* No settings are sound settings.
LEMMA EmptySound == Empty \in Storable /\ Sound(Empty)
BY StorableParts DEF Empty, Sound, KeyFits, Usable

\* A key that is kept is kept for the same provider.
LEMMA KeepKeyFits ==
  ASSUME NEW g \in GenerativeType, NEW s \in GenerativeType \cup {Nothing},
         g.key \in {NoKey, g.provider},
         s # Nothing => s.key \in {NoKey, s.provider}
  PROVE  /\ KeepKey(g, s) \in GenerativeType
         /\ KeepKey(g, s).key \in {NoKey, KeepKey(g, s).provider}
<1>1. CASE g.key = NoKey /\ s # Nothing /\ s.provider = g.provider
  <2>1. KeepKey(g, s) = [g EXCEPT !.key = s.key]
    BY <1>1 DEF KeepKey
  <2> QED BY <1>1, <2>1 DEF GenerativeType
<1>2. CASE ~(g.key = NoKey /\ s # Nothing /\ s.provider = g.provider)
  BY <1>2 DEF KeepKey
<1> QED BY <1>1, <1>2

\* What an update makes of sound settings, once it is accepted, is sound.
LEMMA ApplySound ==
  ASSUME NEW u \in Updates, NEW stored \in Storable, Sound(stored), Accepts(u, stored)
  PROVE  apply(u, stored) \in Storable /\ Sound(apply(u, stored))
<1> DEFINE gen == IF u.clearGen THEN Nothing ELSE stored.gen
           judge == IF u.clearJudge THEN Nothing ELSE stored.judge
           g == IF u.gen = Nothing THEN gen ELSE KeepKey(u.gen, gen)
           j == IF u.judge = Nothing THEN judge
                ELSE IF u.judge.key = NoKey /\ judge # Nothing THEN [u.judge EXCEPT !.key = judge.key]
                ELSE u.judge
<1>0. apply(u, stored) = [gen |-> g, judge |-> j]
  BY Zenon DEF apply
<1>1. /\ gen \in {Nothing} \cup StoredGens /\ judge \in {Nothing} \cup StoredJudges
      /\ gen # Nothing => gen.key \in {NoKey, gen.provider} /\ ValidGenerative(gen)
      /\ judge # Nothing => ValidJudge(judge)
  <2>1. stored.gen \in {Nothing} \cup StoredGens /\ stored.judge \in {Nothing} \cup StoredJudges
    BY StorableParts
  <2> QED BY <2>1 DEF Sound, Usable, KeyFits
<1>2. /\ u.gen # Nothing => u.gen \in Gens /\ u.gen.key \in {NoKey, u.gen.provider}
      /\ u.judge # Nothing => u.judge \in JudgesAsked
  BY UpdateTyped DEF KeyFits
<1>3. /\ u.gen # Nothing => ValidGenerative(g)
      /\ u.judge # Nothing => ValidJudge(j)
  <2>1. apply(u, stored).gen = g /\ apply(u, stored).judge = j
    BY <1>0
  <2> QED BY <2>1, Zenon DEF Accepts
<1> HIDE DEF gen, judge
<1>4. j \in {Nothing} \cup StoredJudges
  BY <1>1, <1>2, KeptKey, StorableParts DEF WithKey
<1>5. g \in {Nothing} \cup StoredGens
  <2>1. u.gen # Nothing => KeepKey(u.gen, gen) \in {u.gen, [u.gen EXCEPT !.key = gen.key]}
    BY DEF KeepKey
  <2>2. u.gen # Nothing /\ gen # Nothing => KeepKey(u.gen, gen) \in StoredGens
    BY <1>1, <1>2, <2>1, KeptKey, StorableParts DEF WithKey
  <2>3. u.gen # Nothing /\ gen = Nothing => KeepKey(u.gen, gen) = u.gen
    BY DEF KeepKey
  <2> QED BY <1>1, <1>2, <2>2, <2>3, StorableParts
<1>6. g # Nothing => g.key \in {NoKey, g.provider}
  <2>1. u.gen # Nothing => u.gen \in GenerativeType
    BY <1>2, GensTyped
  <2>2. gen \in GenerativeType \cup {Nothing}
    BY <1>1, StorableParts
  <2>3. u.gen # Nothing => KeepKey(u.gen, gen).key \in {NoKey, KeepKey(u.gen, gen).provider}
    BY <1>1, <1>2, <2>1, <2>2, KeepKeyFits
  <2> QED BY <1>1, <2>3
<1>7. (g # Nothing => ValidGenerative(g)) /\ (j # Nothing => ValidJudge(j))
  <2>1. u.gen = Nothing => g = gen
    OBVIOUS
  <2>2. u.judge = Nothing => j = judge
    OBVIOUS
  <2> HIDE DEF g, j
  <2> QED BY <1>1, <1>3, <2>1, <2>2, Zenon
<1> HIDE DEF g, j
<1>8. [gen |-> g, judge |-> j] \in Storable
  BY <1>4, <1>5, StorableParts
<1>9. Sound([gen |-> g, judge |-> j])
  BY <1>6, <1>7 DEF Sound, KeyFits, Usable
<1> QED BY <1>0, <1>8, <1>9

\* Sound settings over the environment's may be run with.
LEMMA OverInUse ==
  ASSUME NEW set \in Storable, Sound(set)
  PROVE  Over(set) \in SettingsType /\ InUse(Over(set))
<1>1. /\ set.gen \in {Nothing} \cup GenerativeType /\ set.judge \in {Nothing} \cup JudgeType
      /\ EnvSettings.gen \in {Nothing} \cup GenerativeType /\ EnvSettings.judge \in {Nothing} \cup JudgeType
      /\ KeyFits(EnvSettings)
  BY StorableParts, RegistryAssumption DEF RegistryAssumption, SettingsType
<1>2. Over(set) \in SettingsType
  BY <1>1 DEF Over, SettingsType
<1>3. /\ Over(set).gen = IF set.gen # Nothing THEN set.gen ELSE EnvSettings.gen
      /\ Over(set).judge = IF set.judge # Nothing THEN set.judge ELSE EnvSettings.judge
  BY DEF Over
<1>4. InUse(Over(set))
  BY <1>1, <1>3 DEF InUse, Sound, KeyFits, Usable
<1> QED BY <1>2, <1>4

\* A connection test sends a key to its provider.
LEMMA TestFits ==
  ASSUME NEW r \in Replicas, NEW u \in Updates,
         snap[r].set \in SettingsType, KeyFits(snap[r].set)
  PROVE  KeyFits(TestTarget(r, u))
<1> DEFINE set == snap[r].set
           gen == IF u.clearGen THEN Nothing ELSE set.gen
           g == IF u.gen = Nothing THEN gen ELSE KeepKey(u.gen, gen)
<1>1. apply(u, set).gen = g
  BY DEF apply
<1>2. gen \in GenerativeType \cup {Nothing} /\ (gen # Nothing => gen.key \in {NoKey, gen.provider})
  BY DEF KeyFits, SettingsType
<1>3. u.gen # Nothing => u.gen \in GenerativeType /\ u.gen.key \in {NoKey, u.gen.provider}
  BY UpdateTyped DEF KeyFits, UpdateType
<1> HIDE DEF gen
<1>4. g # Nothing => g.key \in {NoKey, g.provider}
  BY <1>2, <1>3, KeepKeyFits
<1>5. TestTarget(r, u).gen \in {g, EnvSettings.gen}
  BY <1>1 DEF TestTarget
<1>6. EnvSettings.gen # Nothing => EnvSettings.gen.key \in {NoKey, EnvSettings.gen.provider}
  BY RegistryAssumption DEF RegistryAssumption, KeyFits
<1> HIDE DEF g
<1> QED BY <1>4, <1>5, <1>6 DEF KeyFits


-----------------------------------------------------------------------------
(***************************************************************************)
(* What a reload finds.                                                    *)
(***************************************************************************)
\* The row is the last one written, or none.
LEMMA RowFacts ==
  ASSUME RegInv
  PROVE  /\ Row.set \in Storable /\ Sound(Row.set) /\ Row.at \in Nat
         /\ Row.at = 0 => Row.set = Empty
         /\ Over(Row.set) = Version(Len(log)) /\ Len(log) \in Nat
<1>0. log \in Seq(RowType) /\ Len(log) \in Nat
  BY DEF RegInv, RegTypeOK
<1>1. CASE log = <<>>
  <2>1. Row = [set |-> Empty, by |-> Nothing, at |-> 0] /\ Len(log) = 0
    BY <1>1 DEF Row
  <2> QED BY <2>1, EmptySound DEF Version
<1>2. CASE log # <<>>
  <2>1. Len(log) \in DOMAIN log /\ Len(log) > 0
    BY <1>0, <1>2
  <2>2. /\ log[Len(log)] \in RowType /\ log[Len(log)].at = Len(log)
        /\ Sound(log[Len(log)].set)
    BY <1>0, <2>1 DEF RegInv, Dated, SettingsSound
  <2>3. log[Len(log)].set \in Storable
    BY <2>2 DEF RowType
  <2>4. CASE log[Len(log)].set = Empty
    <3>1. Row = [set |-> Empty, by |-> Nothing, at |-> 0]
      BY <2>4 DEF Row
    <3> QED BY <1>0, <2>1, <2>4, <3>1, EmptySound DEF Version
  <2>5. CASE log[Len(log)].set # Empty
    <3>1. Row = log[Len(log)]
      BY <1>2, <2>5 DEF Row
    <3> QED BY <1>0, <2>1, <2>2, <2>3, <3>1 DEF Version
  <2> QED BY <2>4, <2>5
<1> QED BY <1>1, <1>2

\* What a snapshot of replica r may be replaced by.
Replaces(l, r) ==
  /\ l \in SnapType /\ InUse(l.set)
  /\ l.ver >= snap[r].ver /\ l.ver <= Len(log)
  /\ l.set = Version(l.ver) \/ (l.set = Over(Empty) /\ l.ver = snap[r].ver)

\* A reload finds the last row, or the environment.
LEMMA LoadedFacts ==
  ASSUME RegInv, NEW r \in Replicas
  PROVE  Replaces(Loaded(r), r) /\ Replaces(Unread(r), r)
<1>0. /\ Row.set \in Storable /\ Sound(Row.set) /\ Row.at \in Nat
      /\ Row.at = 0 => Row.set = Empty
      /\ Over(Row.set) = Version(Len(log)) /\ Len(log) \in Nat
  BY RowFacts
<1>1. snap[r].ver \in Nat /\ snap[r].ver <= Len(log)
  BY DEF RegInv, RegTypeOK, SnapType, VersionsInOrder
<1>2. /\ Over(Row.set) \in SettingsType /\ InUse(Over(Row.set))
      /\ Over(Empty) \in SettingsType /\ InUse(Over(Empty))
  BY <1>0, OverInUse, EmptySound
<1>3. ASSUME NEW at \in Nat PROVE Replaces(build(Empty, at, snap[r].ver), r)
  BY <1>0, <1>1, <1>2 DEF Replaces, build, SnapType
<1>4. ASSUME NEW at \in Nat PROVE Replaces(build(Row.set, at, Len(log)), r)
  BY <1>0, <1>1, <1>2 DEF Replaces, build, SnapType
<1>5. ASSUME Row.at = 0 PROVE Replaces(Loaded(r), r)
  <2>1. Loaded(r) = build(Row.set, Row.at, Len(log))
    BY <1>0, <1>5 DEF Loaded
  <2> QED BY <1>0, <1>4, <2>1
<1>6. ASSUME Row.at # 0 PROVE Replaces(Loaded(r), r)
  <2>1. \/ Loaded(r) = build(Row.set, Row.at, Len(log))
        \/ Loaded(r) = build(Empty, Row.at, snap[r].ver)
    BY <1>6 DEF Loaded
  <2> QED BY <1>0, <1>3, <1>4, <2>1
<1>7. Replaces(Unread(r), r)
  BY <1>3 DEF Unread
<1> QED BY <1>5, <1>6, <1>7

\* One process of a replica builds at a time.
LEMMA OneBuilder ==
  ASSUME RegInv, NEW x \in Processes, NEW y \in Processes, x # y, Building(x), Building(y)
  PROVE  Of(x) # Of(y) /\ Of(x) \in Replicas /\ Of(y) \in Replicas
<1>1. /\ \A c \in SaveCalls : Target[c] \in Replicas /\ c \notin Replicas
      /\ \A c \in SaveCalls : Building(c) => InSave(c)
  BY RegistryAssumption DEF RegistryAssumption, Building, InSave
<1> QED BY <1>1 DEF RegInv, OneAtATime, Of, Building, Processes

\* Fewer processes in the mutex exclude each other.
LEMMA FewerInMutex ==
  ASSUME RegInv, \A c \in SaveCalls : InSave(c)' => InSave(c),
         \A r \in Replicas : watcher'[r] = "read" => watcher[r] = "read"
  PROVE  OneAtATime'
BY RegistryAssumption DEF RegInv, OneAtATime, RegistryAssumption

-----------------------------------------------------------------------------
(***************************************************************************)
(* Steps.                                                                  *)
(***************************************************************************)
\* A step that only changes a request, which does not get to its store.
LEMMA CallKeeps ==
  ASSUME RegInv, NEW c \in SaveCalls, NEW to \in CallType,
         call' = [call EXCEPT ![c] = to], to.step # "store", Sound(to.next),
         to.step \in {"read", "write"} => to.update \in Updates,
         to.step = "write" => to.base = Len(log),
         to.step \in {"read", "write", "reload"} => InSave(c) \/ ~Locked(Target[c]),
         UNCHANGED <<log, snap, watcher, loaded, clobbered, opens>>
  PROVE  RegInv'
<1> USE DEF RegInv
<1>1. /\ call'[c] = to /\ \A d \in SaveCalls \ {c} : call'[d] = call[d]
      /\ call' \in [SaveCalls -> CallType]
  BY DEF RegTypeOK
<1>2. RegTypeOK'
  BY <1>1 DEF RegTypeOK
<1>3. Dated'
  BY <1>1 DEF Dated
<1>4. OneAtATime'
  <2>1. CASE InSave(c)
    <3>1. \A d \in SaveCalls : InSave(d)' => InSave(d)
      BY <1>1, <2>1 DEF InSave
    <3> QED BY <3>1, FewerInMutex
  <2>2. CASE ~Locked(Target[c])
    <3>1. watcher[Target[c]] # "read" /\ \A d \in SaveCalls : Target[d] = Target[c] => ~InSave(d)
      BY <2>2 DEF Locked
    <3>2. \A d \in SaveCalls \ {c} : InSave(d)' <=> InSave(d)
      BY <1>1 DEF InSave
    <3> QED BY <3>1, <3>2 DEF OneAtATime
  <2>3. CASE to.step \notin {"read", "write", "reload"}
    <3>1. \A d \in SaveCalls : InSave(d)' => InSave(d)
      BY <1>1, <2>3 DEF InSave
    <3> QED BY <3>1, FewerInMutex
  <2> QED BY <2>1, <2>2, <2>3
<1>5. \A x \in Processes : Building(x)' => Building(x)
  BY <1>1 DEF Building
<1>6. SettingsSound'
  BY <1>1, <1>5 DEF SettingsSound
<1>7. NotMine'
  <2>1. Len(log) \in Nat /\ DOMAIN log = 1..Len(log)
    BY DEF RegTypeOK
  <2> QED BY <1>1, <2>1 DEF NotMine, SavesOfOneReplicaMerge
<1>8. VersionsInOrder'
  BY <1>5 DEF VersionsInOrder, Version
<1> QED BY <1>2, <1>3, <1>4, <1>6, <1>7, <1>8

\* A request that ends.
LEMMA EndKeeps ==
  ASSUME RegInv, NEW c \in SaveCalls, NEW s \in {"done", "failed", "invalid"}, End(c, s),
         UNCHANGED <<log, snap, watcher, loaded, clobbered, opens>>
  PROVE  RegInv'
<1> DEFINE to == [NoCall EXCEPT !.step = s]
<1>1. /\ to = [step |-> s, update |-> Nothing, base |-> 0, next |-> Empty]
      /\ call' = [call EXCEPT ![c] = to]
  BY DEF End, NoCall
<1>2. to \in CallType /\ to.step = s /\ to.next = Empty
  BY <1>1, EmptySound DEF CallType, CallSteps
<1> HIDE DEF to
<1> QED BY <1>1, <1>2, EmptySound, CallKeeps

\* The steps of a save before it writes.
LEMMA SaveReadKeeps ==
  ASSUME RegInv, NEW c \in SaveCalls, BeginSave(c) \/ ReadForSave(c) \/ RegCallFails(c)
  PROVE  RegInv'
<1> USE DEF RegInv
<1>0. /\ UNCHANGED <<log, snap, watcher, loaded, clobbered, opens>>
      /\ call \in [SaveCalls -> CallType] /\ call[c] \in CallType /\ Sound(call[c].next)
  BY DEF BeginSave, ReadForSave, RegCallFails, RegTypeOK, SettingsSound
<1>1. CASE BeginSave(c)
  <2>1. PICK u \in Asks[c] : call' = [call EXCEPT ![c].step = "read", ![c].update = u] /\ ~Locked(Target[c])
    BY <1>1 DEF BeginSave
  <2> DEFINE to == [call[c] EXCEPT !.step = "read", !.update = u]
  <2>2. u \in Updates
    BY <2>1 DEF Updates
  <2>3. call' = [call EXCEPT ![c] = to]
    BY <1>0, <2>1
  <2>4. /\ to \in CallType /\ to.step = "read" /\ to.update = u /\ to.next = call[c].next
    BY <1>0, <2>2 DEF CallType, CallSteps
  <2> HIDE DEF to
  <2> QED BY <1>0, <2>1, <2>2, <2>3, <2>4, CallKeeps
<1>2. CASE ReadForSave(c)
  <2> DEFINE readable == Row.at = 0 \/ opens[Target[c]] = "yes"
             stored == IF readable THEN Row.set ELSE Empty
             u == call[c].update
             to == [call[c] EXCEPT !.step = "write", !.next = apply(u, stored), !.base = Len(log)]
  <2>1. \/ End(c, "failed") \/ End(c, "invalid")
        \/ Accepts(u, stored) /\ call' = [call EXCEPT ![c].step = "write", ![c].next = apply(u, stored), ![c].base = Len(log)]
    BY <1>2 DEF ReadForSave
  <2>2. CASE End(c, "failed") \/ End(c, "invalid")
    BY <1>0, <2>2, EndKeeps
  <2>3. CASE Accepts(u, stored) /\ call' = [call EXCEPT ![c].step = "write", ![c].next = apply(u, stored), ![c].base = Len(log)]
    <3>1. u \in Updates /\ InSave(c)
      BY <1>2 DEF ReadForSave, Dated, InSave
    <3>2. stored \in Storable /\ Sound(stored)
      BY RowFacts, EmptySound
    <3>3. apply(u, stored) \in Storable /\ Sound(apply(u, stored))
      BY <2>3, <3>1, <3>2, ApplySound
    <3>4. call' = [call EXCEPT ![c] = to]
      BY <1>0, <2>3
    <3> DEFINE next == apply(u, stored)
    <3>5. Len(log) \in Nat
      BY DEF RegTypeOK
    <3> HIDE DEF stored, next
    <3>6. /\ to \in CallType /\ to.step = "write" /\ to.update = u /\ to.base = Len(log)
          /\ to.next = apply(u, stored)
      BY <1>0, <3>3, <3>5 DEF CallType, CallSteps
    <3> HIDE DEF to
    <3> QED BY <1>0, <3>1, <3>3, <3>4, <3>6, CallKeeps
  <2> QED BY <2>1, <2>2, <2>3
<1>3. CASE RegCallFails(c)
  BY <1>0, <1>3, EndKeeps DEF RegCallFails
<1> QED BY <1>1, <1>2, <1>3


\* A row is written over rows of other replicas at most.
LEMMA WriteKeeps ==
  ASSUME RegInv, NEW c \in SaveCalls, WriteRow(c)
  PROVE  RegInv'
<1> USE DEF RegInv
<1> DEFINE entry == [set |-> call[c].next, by |-> Target[c], at |-> Len(log) + 1]
           n == Len(log)
<1>0. /\ UNCHANGED <<snap, watcher, loaded, opens>> /\ call[c].step = "write"
      /\ call \in [SaveCalls -> CallType] /\ call[c] \in CallType /\ log \in Seq(RowType)
      /\ Target[c] \in Replicas /\ Len(log) \in Nat /\ DOMAIN log = 1..Len(log)
  BY RegistryAssumption DEF WriteRow, RegTypeOK, RegistryAssumption
<1>1. PICK to \in CallType : call' = [call EXCEPT ![c] = to] /\ to.step \in {"reload", "failed"} /\ Sound(to.next)
  <2>1. CASE Step(c, "reload")
    <3> DEFINE on == [call[c] EXCEPT !.step = "reload"]
    <3>1. on \in CallType /\ on.step = "reload" /\ on.next = call[c].next
      BY <1>0 DEF CallType, CallSteps
    <3>2. call' = [call EXCEPT ![c] = on] /\ Sound(call[c].next)
      BY <1>0, <2>1 DEF Step, SettingsSound
    <3> HIDE DEF on
    <3> QED BY <3>1, <3>2
  <2>2. CASE End(c, "failed")
    <3> DEFINE off == [NoCall EXCEPT !.step = "failed"]
    <3>1. off \in CallType /\ off.step = "failed" /\ off.next = Empty
      BY EmptySound DEF NoCall, CallType, CallSteps
    <3>2. call' = [call EXCEPT ![c] = off]
      BY <2>2 DEF End
    <3> HIDE DEF off
    <3> QED BY <3>1, <3>2, EmptySound
  <2> QED BY <2>1, <2>2 DEF WriteRow
<1>2. /\ call' \in [SaveCalls -> CallType] /\ \A d \in SaveCalls \ {c} : call'[d] = call[d]
      /\ call'[c].step \in {"reload", "failed"} /\ Sound(call'[c].next)
  BY <1>0, <1>1
<1>3. entry \in RowType /\ log' = Append(log, entry)
  BY <1>0 DEF RowType, CallType, WriteRow
<1>4. /\ log' \in Seq(RowType) /\ Len(log') = n + 1 /\ DOMAIN log' = 1..(n + 1)
      /\ log'[n + 1] = entry /\ \A k \in 1..n : log'[k] = log[k]
  <2> HIDE DEF entry
  <2> QED BY <1>0, <1>3
<1>5. RegTypeOK'
  BY <1>0, <1>2, <1>4 DEF RegTypeOK
<1>6. Dated'
  BY <1>0, <1>2, <1>4 DEF Dated
<1>7. OneAtATime'
  <2>1. \A d \in SaveCalls : InSave(d)' => InSave(d)
    BY <1>0, <1>2 DEF InSave
  <2> QED BY <1>0, <2>1, FewerInMutex
<1>8. \A x \in Processes : Building(x)' => Building(x)
  BY <1>0, <1>2 DEF Building
<1>9. SettingsSound'
  <2>1. \A k \in DOMAIN log' : Sound(log'[k].set)
    BY <1>0, <1>4 DEF SettingsSound
  <2> QED BY <1>0, <1>2, <1>8, <2>1 DEF SettingsSound
<1>10. NotMine'
  <2>1. SavesOfOneReplicaMerge'
    <3>1. CASE clobbered' = clobbered
      BY <3>1 DEF NotMine, SavesOfOneReplicaMerge
    <3>2. CASE call[c].base # n /\ clobbered' = clobbered \cup {<<Target[c], log[n].by>>}
      <4>1. call[c].base \in Nat /\ call[c].base < n
        BY <1>0, <3>2 DEF NotMine, CallType
      <4>2. log[n].by # Target[c]
        BY <1>0, <4>1 DEF NotMine
      <4> QED BY <3>2, <4>2 DEF NotMine, SavesOfOneReplicaMerge
    <3> QED BY <3>1, <3>2 DEF WriteRow
  <2>2. ASSUME NEW d \in SaveCalls, call'[d].step = "write"
        PROVE  call'[d].base <= n + 1 /\ \A k \in DOMAIN log' : k > call'[d].base => log'[k].by # Target[d]
    <3>1. d # c /\ call'[d] = call[d] /\ call[d].base \in Nat
      BY <1>0, <1>2, <2>2 DEF CallType
    <3>2. Target[d] # Target[c]
      BY <1>0, <2>2, <3>1 DEF OneAtATime, InSave
    <3> QED BY <1>0, <1>4, <2>2, <3>1, <3>2 DEF NotMine
  <2> QED BY <1>4, <2>1, <2>2 DEF NotMine
<1>11. VersionsInOrder'
  <2>1. \A r \in Replicas : snap[r].ver \in Nat
    BY DEF RegTypeOK, SnapType
  <2>2. \A v \in 0..n : Version(v)' = Version(v)
    BY <1>0, <1>4 DEF Version
  <2>3. ASSUME NEW x \in Processes, Building(x)'
        PROVE  /\ loaded[x].ver >= snap[Of(x)].ver /\ loaded[x].ver <= n /\ loaded[x].ver \in Nat
               /\ \/ loaded[x].set = Version(loaded[x].ver)'
                  \/ loaded[x].set = Over(Empty) /\ loaded[x].ver = snap[Of(x)].ver
    <3>1. Building(x)
      BY <1>8, <2>3
    <3>2. loaded[x].ver \in Nat
      BY <3>1 DEF RegTypeOK, SnapType, SettingsSound
    <3>3. loaded[x].ver <= n /\ loaded[x].ver \in 0..n
      BY <1>0, <3>1, <3>2 DEF VersionsInOrder
    <3>4. Version(loaded[x].ver)' = Version(loaded[x].ver)
      BY <1>0, <2>2, <3>3
    <3> QED BY <3>1, <3>2, <3>3, <3>4 DEF VersionsInOrder
  <2> QED BY <1>0, <1>4, <2>1, <2>3 DEF VersionsInOrder
<1> QED BY <1>5, <1>6, <1>7, <1>9, <1>10, <1>11

\* A process that has read the row, or failed to, builds its snapshot.
LEMMA ReloadKeeps ==
  ASSUME RegInv, NEW x \in Processes, NEW l, Replaces(l, Of(x)),
         loaded' = [loaded EXCEPT ![x] = l],
         call' \in [SaveCalls -> CallType], watcher' \in [Replicas -> {"idle", "stale", "read"}],
         \A y \in Processes \ {x} : Building(y)' => Building(y),
         \A c \in SaveCalls : Sound(call'[c].next),
         \A c \in SaveCalls : call'[c].step \in {"read", "write"} => call'[c] = call[c],
         OneAtATime', UNCHANGED <<log, snap, clobbered, opens>>
  PROVE  RegInv'
<1> USE DEF RegInv
<1>1. loaded'[x] = l /\ \A y \in Processes \ {x} : loaded'[y] = loaded[y]
  BY DEF RegTypeOK
<1>2. RegTypeOK'
  BY DEF RegTypeOK, Replaces
<1>3. Dated'
  BY DEF Dated
<1>5. SettingsSound'
  BY <1>1 DEF SettingsSound, Replaces
<1>6. NotMine'
  BY DEF NotMine, SavesOfOneReplicaMerge
<1>7. VersionsInOrder'
  BY <1>1 DEF VersionsInOrder, Replaces, Version
<1> QED BY <1>2, <1>3, <1>5, <1>6, <1>7


\* A process stores its snapshot.
LEMMA PublishKeeps ==
  ASSUME RegInv, NEW x \in Processes, Building(x), Publish(x, Of(x)), ~Building(x)',
         call' \in [SaveCalls -> CallType], watcher' \in [Replicas -> {"idle", "stale", "read"}],
         \A y \in Processes \ {x} : Building(y)' => Building(y),
         \A c \in SaveCalls : Sound(call'[c].next),
         \A c \in SaveCalls : call'[c].step \in {"read", "write"} => call'[c] = call[c],
         OneAtATime', UNCHANGED <<log, clobbered, opens>>
  PROVE  RegInv'
<1> USE DEF RegInv
<1>0. Of(x) \in Replicas /\ loaded[x] \in SnapType /\ InUse(loaded[x].set) /\ \A y \in Processes : Of(y) \in Replicas
  BY RegistryAssumption DEF Of, Processes, RegistryAssumption, SettingsSound
<1>1. /\ loaded'[x] = Nothing /\ \A y \in Processes \ {x} : loaded'[y] = loaded[y]
      /\ snap'[Of(x)] = loaded[x] /\ \A r \in Replicas : r # Of(x) => snap'[r] = snap[r]
  BY <1>0 DEF RegTypeOK, Publish
<1>2. RegTypeOK'
  BY <1>0 DEF RegTypeOK, Publish
<1>3. Dated'
  BY DEF Dated
<1>5. SettingsSound'
  BY <1>0, <1>1 DEF SettingsSound
<1>6. NotMine'
  BY DEF NotMine, SavesOfOneReplicaMerge
<1>7. VersionsInOrder'
  <2>1. \A r \in Replicas : snap'[r].ver <= Len(log)
    BY <1>1 DEF VersionsInOrder
  <2>2. ASSUME NEW y \in Processes, Building(y)'
        PROVE  y # x /\ Building(y) /\ loaded'[y] = loaded[y] /\ snap'[Of(y)] = snap[Of(y)]
    BY <1>0, <1>1, <2>2, OneBuilder
  <2> QED BY <2>1, <2>2 DEF VersionsInOrder, Version, Of
<1> QED BY <1>2, <1>3, <1>5, <1>6, <1>7

\* The last steps of a save.
LEMMA SaveReloadKeeps ==
  ASSUME RegInv, NEW c \in SaveCalls, SaveReloads(c) \/ SaveStores(c)
  PROVE  RegInv'
<1> USE DEF RegInv
<1>0. /\ UNCHANGED <<log, watcher, clobbered, opens>>
      /\ call \in [SaveCalls -> CallType] /\ call[c] \in CallType
      /\ Target[c] \in Replicas /\ c \in Processes /\ Of(c) = Target[c]
      /\ \A d \in SaveCalls : Sound(call[d].next)
      /\ \A r \in Replicas : r \notin SaveCalls
      /\ watcher \in [Replicas -> {"idle", "stale", "read"}]
  BY RegistryAssumption DEF SaveReloads, SaveStores, RegTypeOK, RegistryAssumption, Processes, Of, SettingsSound
<1>1. CASE SaveReloads(c)
  <2>1. PICK failed \in BOOLEAN : ReadForReload(c, Target[c], failed)
    BY <1>1 DEF SaveReloads
  <2> DEFINE l == IF failed THEN Unread(Target[c]) ELSE Loaded(Target[c])
  <2>2. Replaces(l, Of(c)) /\ loaded' = [loaded EXCEPT ![c] = l]
    BY <1>0, <2>1, LoadedFacts DEF ReadForReload
  <2> HIDE DEF l
  <2>3. /\ call' = [call EXCEPT ![c] = [call[c] EXCEPT !.step = "store"]]
        /\ [call[c] EXCEPT !.step = "store"] \in CallType
    BY <1>0, <1>1 DEF SaveReloads, Step, CallType, CallSteps
  <2>4. /\ call' \in [SaveCalls -> CallType] /\ \A d \in SaveCalls \ {c} : call'[d] = call[d]
        /\ call'[c].step = "store" /\ call'[c].next = call[c].next
    BY <1>0, <2>3 DEF CallType
  <2>5. OneAtATime'
    <3>1. \A d \in SaveCalls : InSave(d)' => InSave(d)
      BY <1>1, <2>4 DEF InSave, SaveReloads
    <3> QED BY <1>0, <3>1, FewerInMutex
  <2>6. \A y \in Processes \ {c} : Building(y)' => Building(y)
    BY <1>0, <2>4 DEF Building
  <2> QED BY <1>0, <1>1, <2>2, <2>4, <2>5, <2>6, ReloadKeeps DEF SaveReloads
<1>2. CASE SaveStores(c)
  <2>1. call' = [call EXCEPT ![c] = [step |-> "done", update |-> Nothing, base |-> 0, next |-> Empty]]
    <3>1. [NoCall EXCEPT !.step = "done"] = [step |-> "done", update |-> Nothing, base |-> 0, next |-> Empty]
      BY DEF NoCall
    <3> QED BY <1>2, <3>1 DEF SaveStores, End
  <2>2. [step |-> "done", update |-> Nothing, base |-> 0, next |-> Empty] \in CallType
    BY EmptySound DEF CallType, CallSteps
  <2>3. /\ call' \in [SaveCalls -> CallType] /\ \A d \in SaveCalls \ {c} : call'[d] = call[d]
        /\ call'[c].step = "done" /\ call'[c].next = Empty
    BY <1>0, <2>1, <2>2
  <2>4. OneAtATime'
    <3>1. \A d \in SaveCalls : InSave(d)' => InSave(d)
      BY <1>2, <2>3 DEF InSave, SaveStores
    <3> QED BY <1>0, <3>1, FewerInMutex
  <2>5. /\ \A y \in Processes \ {c} : Building(y)' => Building(y)
        /\ ~Building(c)' /\ Building(c) /\ Publish(c, Of(c))
    BY <1>0, <1>2, <2>3 DEF Building, SaveStores
  <2> QED BY <1>0, <2>3, <2>4, <2>5, EmptySound, PublishKeeps
<1> QED BY <1>1, <1>2

\* The steps of a watcher.
LEMMA WatchKeeps ==
  ASSUME RegInv, NEW r \in Replicas, Poll(r) \/ WatchReloads(r) \/ WatchStores(r)
  PROVE  RegInv'
<1> USE DEF RegInv
<1>0. /\ UNCHANGED <<log, call, clobbered, opens>>
      /\ call \in [SaveCalls -> CallType] /\ r \in Processes /\ Of(r) = r /\ r \notin SaveCalls
      /\ \A d \in SaveCalls : Sound(call[d].next) /\ d \notin Replicas /\ Target[d] \in Replicas
      /\ watcher \in [Replicas -> {"idle", "stale", "read"}]
  BY RegistryAssumption DEF Poll, WatchReloads, WatchStores, RegTypeOK, RegistryAssumption, Processes, Of, SettingsSound
<1>1. ASSUME NEW s \in {"idle", "stale", "read"}, watcher' = [watcher EXCEPT ![r] = s]
      PROVE  /\ watcher' \in [Replicas -> {"idle", "stale", "read"}]
             /\ watcher'[r] = s /\ \A q \in Replicas \ {r} : watcher'[q] = watcher[q]
             /\ \A y \in Processes \ {r} : Building(y)' => Building(y)
             /\ Building(r)' <=> s = "read"
             /\ s # "read" \/ ~Locked(r) => OneAtATime'
  <2>1. /\ watcher' \in [Replicas -> {"idle", "stale", "read"}]
        /\ watcher'[r] = s /\ \A q \in Replicas \ {r} : watcher'[q] = watcher[q]
    BY <1>0, <1>1
  <2>2. /\ \A y \in Processes \ {r} : Building(y)' => Building(y)
        /\ Building(r)' <=> s = "read"
    BY <1>0, <2>1 DEF Building, Processes
  <2>3. \A d \in SaveCalls : InSave(d)' <=> InSave(d)
    BY <1>0 DEF InSave
  <2>4. s # "read" => OneAtATime'
    BY <2>1, <2>3, FewerInMutex
  <2>5. ~Locked(r) => OneAtATime'
    BY <1>0, <2>1, <2>3 DEF OneAtATime, Locked
  <2> QED BY <2>1, <2>2, <2>4, <2>5
<1>2. CASE Poll(r)
  <2>1. watcher' = [watcher EXCEPT ![r] = "stale"] /\ UNCHANGED <<snap, loaded>>
    BY <1>2 DEF Poll
  <2>2. /\ RegTypeOK' /\ OneAtATime' /\ \A y \in Processes : Building(y)' => Building(y)
    BY <1>0, <1>1, <2>1 DEF RegTypeOK
  <2> QED BY <1>0, <2>1, <2>2
       DEF Dated, SettingsSound, NotMine, SavesOfOneReplicaMerge, VersionsInOrder, Version
<1>3. CASE WatchReloads(r)
  <2>1. PICK failed \in BOOLEAN : ReadForReload(r, r, failed)
    BY <1>3 DEF WatchReloads
  <2> DEFINE l == IF failed THEN Unread(r) ELSE Loaded(r)
  <2>2. Replaces(l, Of(r)) /\ loaded' = [loaded EXCEPT ![r] = l]
    BY <1>0, <2>1, LoadedFacts DEF ReadForReload
  <2> HIDE DEF l
  <2>3. watcher' = [watcher EXCEPT ![r] = "read"] /\ ~Locked(r) /\ UNCHANGED snap
    BY <1>3 DEF WatchReloads
  <2>4. /\ watcher' \in [Replicas -> {"idle", "stale", "read"}] /\ OneAtATime'
        /\ \A y \in Processes \ {r} : Building(y)' => Building(y)
    BY <1>1, <2>3
  <2> QED BY <1>0, <2>2, <2>3, <2>4, ReloadKeeps
<1>4. CASE WatchStores(r)
  <2>1. watcher' = [watcher EXCEPT ![r] = "idle"] /\ Publish(r, Of(r)) /\ Building(r)
    BY <1>0, <1>4 DEF WatchStores, Building
  <2>2. /\ watcher' \in [Replicas -> {"idle", "stale", "read"}] /\ OneAtATime' /\ ~Building(r)'
        /\ \A y \in Processes \ {r} : Building(y)' => Building(y)
    BY <1>1, <2>1
  <2> QED BY <1>0, <2>1, <2>2, PublishKeeps
<1> QED BY <1>2, <1>3, <1>4

\* The registry begins with the invariant, in use or idle.
LEMMA RegistryStart == ASSUME RegInit \/ RegIdle PROVE RegInv
<1>1. /\ log = <<>> /\ watcher = [r \in Replicas |-> "idle"]
      /\ snap = [r \in Replicas |-> build(Empty, 0, 0)]
      /\ loaded = [x \in Processes |-> Nothing]
      /\ call = [c \in SaveCalls |-> NoCall]
      /\ clobbered = {} /\ opens \in [Replicas -> {"yes", "corrupt", "nokey"}]
  BY RegistryAssumption DEF RegInit, RegIdle, RegBlank, RegistryAssumption, Processes
<1>2. build(Empty, 0, 0) = [set |-> Over(Empty), at |-> 0, ver |-> 0]
      /\ Over(Empty) \in SettingsType /\ InUse(Over(Empty))
  BY EmptySound, OverInUse DEF build
<1>3. NoCall \in CallType /\ NoCall.step = "new" /\ NoCall.next = Empty
  BY EmptySound DEF NoCall, CallType, CallSteps
<1>4. \A x \in Processes : ~Building(x)
  BY <1>1, <1>3 DEF Building, Processes
<1>5. RegTypeOK
  BY <1>1, <1>2, <1>3 DEF RegTypeOK, SnapType
<1>6. \A c \in SaveCalls : ~InSave(c)
  BY <1>1, <1>3 DEF InSave
<1>7. Dated /\ OneAtATime
  BY <1>1, <1>3, <1>6 DEF Dated, OneAtATime
<1>8. SettingsSound
  BY <1>1, <1>2, <1>3, <1>4, EmptySound DEF SettingsSound
<1>9. NotMine /\ VersionsInOrder
  BY <1>1, <1>2, <1>3, <1>4 DEF NotMine, SavesOfOneReplicaMerge, VersionsInOrder
<1> QED BY <1>5, <1>7, <1>8, <1>9 DEF RegInv

\* Every step keeps it.
LEMMA RegistryStep == ASSUME RegInv, [RegNext]_regVars PROVE RegInv'
<1>1. CASE UNCHANGED regVars
  BY <1>1 DEF regVars, RegInv, RegTypeOK, Dated, OneAtATime, InSave, SettingsSound, Building,
              NotMine, SavesOfOneReplicaMerge, VersionsInOrder, Version
<1> QED BY <1>1, SaveReadKeeps, WriteKeeps, SaveReloadKeeps, WatchKeeps DEF RegNext, RegStep

\* A snapshot's client is built of its settings.
ClientFits ==
  /\ DOMAIN client = Replicas
  /\ \A r \in Replicas : \E able \in BOOLEAN : client[r] = BuildClient(snap[r].set.gen, able)

\* It is when the engine starts.
LEMMA ClientStart == ASSUME RegInit \/ RegIdle PROVE ClientFits
<1>1. PICK able \in [Replicas -> BOOLEAN] : client = [r \in Replicas |-> BuildClient(Over(Empty).gen, able[r])]
  BY DEF RegInit, RegIdle, RegBlank
<1>2. snap = [r \in Replicas |-> [set |-> Over(Empty), at |-> 0, ver |-> 0]]
  BY DEF RegInit, RegIdle, RegBlank, build
<1> QED BY <1>1, <1>2 DEF ClientFits

\* Storing a snapshot builds its client.
LEMMA PublishBuilds ==
  ASSUME RegTypeOK, ClientFits, NEW x, NEW r \in Replicas, Publish(x, r)
  PROVE  ClientFits'
<1>1. PICK able \in BOOLEAN : client' = [client EXCEPT ![r] = BuildClient(loaded[x].set.gen, able)]
  BY DEF Publish
<1>2. snap' = [snap EXCEPT ![r] = loaded[x]] /\ DOMAIN snap = Replicas
  BY DEF Publish, RegTypeOK
<1>3. DOMAIN client' = Replicas /\ client'[r] = BuildClient(snap'[r].set.gen, able)
  BY <1>1, <1>2 DEF ClientFits
<1>4. \A q \in Replicas \ {r} : client'[q] = client[q] /\ snap'[q] = snap[q]
  BY <1>1, <1>2 DEF ClientFits
<1> QED BY <1>3, <1>4 DEF ClientFits

\* Every step keeps it.
LEMMA ClientStep == ASSUME RegInv, ClientFits, [RegNext]_regVars PROVE ClientFits'
<1>1. CASE UNCHANGED <<snap, client>>
  BY <1>1 DEF ClientFits
<1>2. ASSUME NEW c \in SaveCalls, SaveStores(c) PROVE ClientFits'
  BY <1>2, PublishBuilds, RegistryAssumption DEF SaveStores, RegInv, RegistryAssumption
<1>3. ASSUME NEW r \in Replicas, WatchStores(r) PROVE ClientFits'
  BY <1>3, PublishBuilds DEF WatchStores, RegInv
<1>4. ASSUME NEW c \in SaveCalls,
             BeginSave(c) \/ ReadForSave(c) \/ RegCallFails(c) \/ WriteRow(c) \/ SaveReloads(c)
      PROVE  UNCHANGED <<snap, client>>
  BY <1>4 DEF BeginSave, ReadForSave, RegCallFails, WriteRow, SaveReloads
<1>5. ASSUME NEW r \in Replicas, Poll(r) \/ WatchReloads(r)
      PROVE  UNCHANGED <<snap, client>>
  BY <1>5 DEF Poll, WatchReloads
<1>6. UNCHANGED regVars => UNCHANGED <<snap, client>>
  BY DEF regVars
<1> QED BY <1>1, <1>2, <1>3, <1>4, <1>5, <1>6 DEF RegNext, RegStep

\* The invariant holds throughout.
THEOREM RegistryInvariant == RegSpec => [](RegInv /\ ClientFits)
BY RegistryStart, RegistryStep, ClientStart, ClientStep, PTL DEF RegSpec

\* The invariant implies what RegistrySound promises.
LEMMA RegInvIsSound == ASSUME RegInv, ClientFits PROVE RegistrySound
<1> USE DEF RegInv
<1>1. \A r \in Replicas : snap[r].set \in SettingsType /\ InUse(snap[r].set)
  BY DEF RegTypeOK, SnapType, SettingsSound
<1>2. KeysMatchProvider
  BY <1>1, TestFits DEF KeysMatchProvider, SettingsSound, Sound, InUse
<1>3. SavedIsUsable
  <2> SUFFICES ASSUME NEW r \in Replicas
               PROVE  /\ snap[r].set.gen \notin {Nothing, EnvSettings.gen} =>
                           /\ ValidGenerative(snap[r].set.gen)
                           /\ client[r] \/ snap[r].set.gen.provider \in HostProviders
                      /\ client[r] => snap[r].set.gen # Nothing /\ ValidGenerative(snap[r].set.gen)
                      /\ snap[r].set.judge \notin {Nothing, EnvSettings.judge} => ValidJudge(snap[r].set.judge)
    BY DEF SavedIsUsable, GenerativeConfigured, JudgeConfigured
  <2>1. PICK able \in BOOLEAN : client[r] = BuildClient(snap[r].set.gen, able)
    BY DEF ClientFits
  <2> QED BY <1>1, <2>1, Zenon DEF BuildClient, InUse
<1>4. SavesOfOneReplicaMerge
  BY DEF NotMine
<1> QED BY <1>2, <1>3, <1>4 DEF RegistrySound

\* Keys go to the provider they were entered for only, settings in use that
\* were saved are valid and can be called but for the host's credentials, and
\* saves of one replica do not overwrite each other.
THEOREM SettingsAreSound == RegSpec => []RegistrySound
BY RegInvIsSound, RegistryInvariant, PTL

-----------------------------------------------------------------------------
(***************************************************************************)
(* The registry is a register.                                             *)
(***************************************************************************)
versions == [k \in DOMAIN log |-> log[k].set]
observed == [r \in Replicas |-> snap[r].ver]
inUse == [r \in Replicas |-> snap[r].set]

\* The versions are as many as the rows.
LEMMA VersionsAreRows ==
  ASSUME log \in Seq(RowType)
  PROVE  /\ versions \in Seq(Storable) /\ Len(versions) = Len(log)
         /\ \A k \in 1..Len(log) : versions[k] = log[k].set
<1>1. DOMAIN log = 1..Len(log) /\ Len(log) \in Nat
  OBVIOUS
<1>2. \A k \in 1..Len(log) : log[k].set \in Storable
  <2>1. \A k \in 1..Len(log) : log[k] \in RowType
    BY <1>1
  <2> QED BY <2>1 DEF RowType
<1> QED BY <1>1, <1>2 DEF versions


\* Publishing a snapshot is observing its version, or losing sight.
LEMMA PublishObserves ==
  ASSUME RegInv, NEW x \in Processes, Building(x), Publish(x, Of(x)), UNCHANGED log
  PROVE  \E r \in Replicas : Shared!Observe(r) \/ Shared!LoseSight(r)
<1> DEFINE r == Of(x)
           v == loaded[x].ver
<1>0. /\ r \in Replicas /\ loaded[x] \in SnapType /\ v \in Nat /\ Len(log) \in Nat
      /\ snap \in [Replicas -> SnapType] /\ log \in Seq(RowType)
  BY RegistryAssumption
  DEF RegInv, RegTypeOK, RegistryAssumption, Of, Processes, SettingsSound, SnapType
<1>1. /\ v >= snap[r].ver /\ v <= Len(log)
      /\ loaded[x].set = Version(v) \/ (loaded[x].set = Over(Empty) /\ v = snap[r].ver)
  BY DEF RegInv, VersionsInOrder
<1>2. snap' = [snap EXCEPT ![r] = loaded[x]]
  BY DEF Publish
<1>3. /\ observed' = [observed EXCEPT ![r] = v]
      /\ inUse' = [inUse EXCEPT ![r] = loaded[x].set]
      /\ versions' = versions
  BY <1>0, <1>2 DEF observed, inUse, versions
<1>4. snap[r].ver = observed[r] /\ observed \in [Replicas -> Nat] /\ Len(versions) = Len(log)
      /\ \A k \in 1..Len(log) : versions[k] = log[k].set
  BY <1>0, VersionsAreRows DEF observed, SnapType
<1>5. CASE loaded[x].set = Version(v)
  <2>1. v \in observed[r] .. Len(versions)
    BY <1>0, <1>1, <1>4
  <2>2. loaded[x].set = IF v = 0 THEN Over(Empty) ELSE Over(versions[v])
    BY <1>0, <1>1, <1>4, <1>5 DEF Version
  <2>3. Shared!Observe(r)
    BY <1>3, <2>1, <2>2 DEF Shared!Observe, versions, observed, inUse
  <2> QED BY <1>0, <2>3
<1>6. CASE loaded[x].set = Over(Empty) /\ v = snap[r].ver
  <2>1. observed' = observed
    BY <1>0, <1>3, <1>4, <1>6
  <2>2. Shared!LoseSight(r)
    BY <1>3, <1>6, <2>1 DEF Shared!LoseSight, versions, observed, inUse
  <2> QED BY <1>0, <2>2
<1> QED BY <1>1, <1>5, <1>6

\* Writing a row commits a version.
LEMMA WriteCommits ==
  ASSUME RegInv, NEW c \in SaveCalls, WriteRow(c)
  PROVE  Shared!Commit
<1> DEFINE n == Len(log)
<1>0. log \in Seq(RowType) /\ n \in Nat /\ call[c].next \in Storable /\ Target[c] \in Replicas
  BY RegistryAssumption DEF RegInv, RegTypeOK, CallType, RegistryAssumption
<1> DEFINE entry == [set |-> call[c].next, by |-> Target[c], at |-> n + 1]
<1>1. log' = Append(log, entry) /\ entry \in RowType /\ entry.set \in Storable /\ UNCHANGED snap
  BY <1>0 DEF WriteRow, RowType
<1> HIDE DEF entry
<1>2. /\ log' \in Seq(RowType) /\ Len(log') = n + 1 /\ log'[n + 1] = entry
      /\ \A k \in 1..n : log'[k] = log[k] /\ DOMAIN log' = 1..(n + 1) /\ DOMAIN log = 1..n
  BY <1>0, <1>1
<1>3. /\ versions \in Seq(Storable) /\ Len(versions) = n /\ \A k \in 1..n : versions[k] = log[k].set
  BY <1>0, VersionsAreRows
<1>4. /\ versions' \in Seq(Storable) /\ Len(versions') = n + 1
      /\ \A k \in 1..(n + 1) : versions'[k] = log'[k].set
  <2>1. DOMAIN log' = 1..(n + 1)
    BY <1>0, <1>2
  <2>2. \A k \in 1..(n + 1) : log'[k].set \in Storable
    <3>1. \A k \in 1..(n + 1) : log'[k] \in RowType
      BY <1>0, <1>2
    <3> QED BY <3>1 DEF RowType
  <2>3. versions' = [k \in 1..(n + 1) |-> log'[k].set]
    BY <2>1 DEF versions
  <2> QED BY <1>0, <2>2, <2>3
<1>5. SubSeq(versions', 1, n) = versions
  <2>1. \A k \in 1..n : versions'[k] = versions[k]
    BY <1>0, <1>2, <1>3, <1>4
  <2>2. /\ SubSeq(versions', 1, n) \in Seq(Storable) /\ Len(SubSeq(versions', 1, n)) = n
        /\ \A k \in 1..n : SubSeq(versions', 1, n)[k] = versions'[k]
    BY <1>0, <1>4
  <2> QED BY <1>0, <1>3, <2>1, <2>2
<1>6. versions'[Len(versions')] \in Storable
  BY <1>0, <1>1, <1>2, <1>4
<1>7. UNCHANGED <<observed, inUse>>
  BY <1>1 DEF observed, inUse
<1> QED BY <1>3, <1>4, <1>5, <1>6, <1>7 DEF Shared!Commit, versions, observed, inUse

\* The registry begins where the register does.
LEMMA RegisterStart == ASSUME RegInit \/ RegIdle PROVE Shared!RegisterInit
<1>1. log = <<>> /\ snap = [r \in Replicas |-> [set |-> Over(Empty), at |-> 0, ver |-> 0]]
  BY DEF RegInit, RegIdle, RegBlank, build
<1>2. versions = <<>>
  BY <1>1 DEF versions
<1>3. observed = [r \in Replicas |-> 0] /\ inUse = [r \in Replicas |-> Over(Empty)]
  BY <1>1 DEF observed, inUse
<1> QED BY <1>2, <1>3 DEF Shared!RegisterInit, versions, observed, inUse

\* Every step is a step of the register, or none.
LEMMA RegisterStep ==
  ASSUME RegInv, [RegNext]_regVars
  PROVE  [Shared!RegisterNext]_(Shared!registerVars)
<1> SUFFICES Shared!RegisterNext \/ UNCHANGED Shared!registerVars
  OBVIOUS
<1>0. /\ \A r \in Replicas : r \in Processes /\ Of(r) = r /\ r \notin SaveCalls
      /\ \A c \in SaveCalls : c \in Processes /\ Of(c) = Target[c]
  BY RegistryAssumption DEF RegistryAssumption, Processes, Of
<1>1. CASE UNCHANGED <<log, snap>>
  BY <1>1 DEF Shared!registerVars
<1>2. ASSUME NEW c \in SaveCalls, SaveStores(c) PROVE Shared!RegisterNext
  <2>1. Building(c) /\ Publish(c, Of(c)) /\ UNCHANGED log
    BY <1>0, <1>2 DEF SaveStores, Building
  <2> QED BY <1>0, <2>1, PublishObserves DEF Shared!RegisterNext
<1>3. ASSUME NEW r \in Replicas, WatchStores(r) PROVE Shared!RegisterNext
  <2>1. Building(r) /\ Publish(r, Of(r)) /\ UNCHANGED log
    BY <1>0, <1>3 DEF WatchStores, Building
  <2> QED BY <1>0, <2>1, PublishObserves DEF Shared!RegisterNext
<1>4. ASSUME NEW c \in SaveCalls, WriteRow(c) PROVE Shared!RegisterNext
  BY <1>4, WriteCommits DEF Shared!RegisterNext
<1>5. ASSUME NEW c \in SaveCalls, BeginSave(c) \/ ReadForSave(c) \/ RegCallFails(c) \/ SaveReloads(c)
      PROVE  UNCHANGED <<log, snap>>
  BY <1>5 DEF BeginSave, ReadForSave, RegCallFails, SaveReloads
<1>6. ASSUME NEW r \in Replicas, Poll(r) \/ WatchReloads(r)
      PROVE  UNCHANGED <<log, snap>>
  BY <1>6 DEF Poll, WatchReloads
<1>7. CASE UNCHANGED regVars
  BY <1>1, <1>7 DEF regVars
<1> QED BY <1>1, <1>2, <1>3, <1>4, <1>5, <1>6, <1>7 DEF RegNext, RegStep

\* The registry implements the register of SettingsRegister: rows are its
\* versions, every replica observes them in order, and one that cannot read
\* the row falls back on its environment.
THEOREM RegistryIsARegister == RegSpec => SharedRegister
BY RegisterStart, RegisterStep, RegistryInvariant, PTL DEF RegSpec, SharedRegister, Shared!Register

\* Model settings: keys go to their provider only; what was saved is valid, and
\* a replica that uses it has a client of it unless its provider looks for
\* credentials of the host; saves of one replica do not overwrite each other.
THEOREM ServedSettingsAreSound == ServingSpec => []RegistrySound
<1>1. ServingInit => RegInv /\ ClientFits
  BY PartsStart, RegistryStart, ClientStart
<1>2. RegInv /\ ClientFits /\ [ServingNext]_servingVars => (RegInv /\ ClientFits)'
  BY PartsStep, RegistryStep, ClientStep
<1>3. RegInv /\ ClientFits => RegistrySound
  BY RegInvIsSound
<1> QED BY <1>1, <1>2, <1>3, PTL DEF ServingSpec

\* The replicas of a serving engine share a register.
THEOREM ServedRegister == ServingSpec => SharedRegister
<1>1. ServingInit => RegInv /\ Shared!RegisterInit
  BY PartsStart, RegistryStart, RegisterStart
<1>2. RegInv /\ [ServingNext]_servingVars => RegInv'
  BY PartsStep, RegistryStep
<1>3. RegInv /\ [ServingNext]_servingVars => [Shared!RegisterNext]_(Shared!registerVars)
  BY PartsStep, RegisterStep
<1> QED BY <1>1, <1>2, <1>3, PTL DEF ServingSpec, SharedRegister, Shared!Register

-----------------------------------------------------------------------------
(***************************************************************************)
(* THE LIBRARY, for any collection, queries, page, sizes and limit.  What  *)
(* was built under a ref is what the document has as long as updated_at    *)
(* has not moved, but for pages that a delivery under way replaces; a      *)
(* listing that goes on has what is ready, or has it ahead.                *)
(***************************************************************************)
LibRow == [updated : Nat, ready : BOOLEAN, toc : Nat, pages : Nat,
           runs : Seq({"pages", "contents", "ready", "done"})]
LibRef == [id : Nat, updated : Nat, toc : Nat]
LibEntry == [id : Nat, updated : Nat, toc : Nat, pages : Nat, size : Nat]
LibBook == [at : {"wait", "build", "store", "done", "failed"}, toc : Nat, pages : Nat]
LibSeen == [at : {"wait", "keep", "leave"}, ref : LibRef]
LibAsker == [step : {"start", "list", "lookup", "listed", "build", "failed"}, cursor : Nat,
             found : Seq(LibSeen), refs : Seq(LibRef), steady : SUBSET Nat]

\* The pages are of a delivery there was.
RowsFit(T) ==
  /\ T \in [DOMAIN T -> LibRow] /\ DOMAIN T \in SUBSET LibDocs /\ IsFiniteSet(DOMAIN T)
  /\ \A d \in DOMAIN T : T[d].pages \in DOMAIN T[d].runs

\* The delivery that wrote the pages is still under way.
Replacing(r) == r.runs[r.pages] # "done"

\* A ref is of a row as it was; if the row has not changed since, it is ready.
RefFits(T, ref) ==
  /\ ref.id \in DOMAIN T /\ ref.updated <= T[ref.id].updated
  /\ ref.updated = T[ref.id].updated => T[ref.id].ready /\ ref.toc = T[ref.id].toc

\* What was built under a ref is what the document has if the row has not
\* changed, unless its pages are being replaced.
BuiltFits(T, id, updated, toc, pages) ==
  /\ id \in DOMAIN T /\ updated <= T[id].updated
  /\ updated = T[id].updated =>
       T[id].ready /\ toc = T[id].toc /\ (pages = T[id].pages \/ Replacing(T[id]))

\* What may happen to a row: it only goes on, and while its updated_at does
\* not move it stays ready with its contents, and with its pages until a
\* delivery replaces those, which is then under way.
RowGoesOn(r, n) ==
  /\ r.updated <= n.updated
  /\ r.updated = n.updated /\ r.ready =>
       /\ n.ready /\ n.toc = r.toc /\ (n.pages = r.pages \/ Replacing(n))
       /\ Replacing(r) => Replacing(n)

RowsGoOn(T, U) == DOMAIN T \subseteq DOMAIN U /\ \A d \in DOMAIN T : RowGoesOn(T[d], U[d])

Stands(a, T) == a.steady \subseteq {d \in DOMAIN T : T[d].ready}
Listed(a) == {a.refs[k].id : k \in DOMAIN a.refs}

\* How far a listing of the whole collection is.
ListingFits(a) ==
  /\ \A j, k \in DOMAIN a.refs : j < k => a.refs[j].id > a.refs[k].id
  /\ a.step = "list" /\ a.cursor = 0 => a.refs = <<>>
  /\ a.step = "list" /\ a.cursor # 0 =>
       /\ \A k \in DOMAIN a.refs : a.refs[k].id >= a.cursor
       /\ \A d \in a.steady : d \in Listed(a) \/ d < a.cursor

\* How far the look-up of named documents is.
LookupFits(a, named) ==
  /\ DOMAIN a.found = DOMAIN named /\ a.steady \subseteq {named[i] : i \in DOMAIN named}
  /\ \A i \in DOMAIN named : /\ a.found[i].at = "keep" => a.found[i].ref.id = named[i]
                             /\ a.found[i].at = "leave" => named[i] \notin a.steady

AskerFits(a, named, T) ==
  /\ Stands(a, T)
  /\ \A k \in DOMAIN a.refs : RefFits(T, a.refs[k])
  /\ \A i \in DOMAIN a.found : a.found[i].at = "keep" => RefFits(T, a.found[i].ref)
  /\ a.step = "start" => a.refs = <<>> /\ a.cursor = 0
  /\ a.step = "lookup" => LookupFits(a, named)
  /\ named = <<>> => a.step # "lookup" /\ ListingFits(a)
  /\ named # <<>> => a.step # "list"
  /\ a.step \in {"listed", "build"} => a.steady \subseteq Listed(a)

ShelfFits(s, a, T) ==
  /\ a.step # "build" => s = <<>>
  /\ a.step = "build" => DOMAIN s = DOMAIN a.refs
  /\ \A i \in DOMAIN s : s[i].at \in {"store", "done"} =>
       BuiltFits(T, a.refs[i].id, a.refs[i].updated, s[i].toc, s[i].pages)

EntriesFit(es, T) ==
  /\ \A k \in DOMAIN es : BuiltFits(T, es[k].id, es[k].updated, es[k].toc, es[k].pages)
  /\ \A j, k \in DOMAIN es : es[j].id = es[k].id => j = k

LibFits(es, bytes, T) ==
  es \in Seq(LibEntry) /\ EntriesFit(es, T) /\ bytes = Bytes(es)[Len(es)] /\ bytes <= LibLimit

LibInv ==
  /\ RowsFit(row) /\ LibFits(lib, libBytes, row)
  /\ asker \in [libAsked -> LibAsker] /\ \A q \in libAsked : AskerFits(asker[q], LibQueries[q], row)
  /\ shelf \in [libAsked -> Seq(LibBook)] /\ \A q \in libAsked : ShelfFits(shelf[q], asker[q], row)


-----------------------------------------------------------------------------
(***************************************************************************)
(* The bytes of a list of entries.                                         *)
(***************************************************************************)
\* f is the count of the bytes of the prefixes of a list.
CountsBytes(f, es) ==
  f \in [0..Len(es) -> Int] /\ f[0] = 0 /\ \A k \in 1..Len(es) : f[k] = f[k - 1] + es[k].size

\* The size of an entry is a number.
LEMMA EntrySize ==
  ASSUME NEW es \in Seq(LibEntry), NEW k \in 1..Len(es)
  PROVE  es[k] \in LibEntry /\ es[k].size \in Nat
<1>1. es[k] \in LibEntry
  OBVIOUS
<1> QED BY <1>1 DEF LibEntry

\* What a count says of one place.
LEMMA CountAt ==
  ASSUME NEW es \in Seq(LibEntry), NEW f, CountsBytes(f, es), NEW k \in 1..Len(es)
  PROVE  /\ k - 1 \in 0..Len(es) /\ k \in 0..Len(es) /\ f[k - 1] \in Int /\ f[k] \in Int /\ es[k].size \in Int
         /\ f[k] = f[k - 1] + es[k].size
<1>1. k - 1 \in 0..Len(es) /\ k \in 0..Len(es)
  OBVIOUS
<1>2. f[k - 1] \in Int /\ f[k] \in Int
  BY <1>1 DEF CountsBytes
<1> QED BY <1>1, <1>2, EntrySize DEF CountsBytes

\* Bytes counts, and nothing else does.
LEMMA BytesCount ==
  ASSUME NEW es \in Seq(LibEntry)
  PROVE  CountsBytes(Bytes(es), es) /\ Bytes(es)[Len(es)] \in Int
<1> DEFINE n == Len(es)
           first[k \in 0..n] == IF k = 0 THEN 0 ELSE first[k - 1] + es[k].size
           G == [p \in Int \X (1..n) |-> p[1] + es[p[2]].size]
<1>1. n \in Nat /\ \A k \in 1..n : es[k].size \in Int
  BY EntrySize
<1>2. Bytes(es) = first
  BY DEF Bytes
<1> HIDE DEF n
<1>3. G \in [Int \X (1..n) -> Int]
  BY <1>1
<1>4. PICK f \in [0..n -> Int] : f[0] = 0 /\ \A k \in 1..n : f[k] = G[<<f[k - 1], k>>]
  <2> HIDE DEF G
  <2>1. 0 \in Int
    OBVIOUS
  <2>2. \E f : GoesOn(f, n, Int, 0, G)
    BY <1>1, <1>3, <2>1, PrefixRecursion, Zenon
  <2> QED BY <2>2 DEF GoesOn
<1>5. ASSUME NEW k \in 1..n PROVE f[k] = f[k - 1] + es[k].size
  <2>1. k - 1 \in 0..n
    BY <1>1
  <2>2. f[k - 1] \in Int
    BY <2>1
  <2> QED BY <1>4, <2>2
<1> HIDE DEF G
<1>6. f = [k \in 0..n |-> IF k = 0 THEN 0 ELSE f[k - 1] + es[k].size]
  <2>1. \A k \in 0..n : k # 0 => k \in 1..n
    BY <1>1
  <2> QED BY <1>4, <1>5, <2>1
<1>7. first = [k \in 0..n |-> IF k = 0 THEN 0 ELSE first[k - 1] + es[k].size]
  BY <1>6
<1> HIDE DEF first
<1> DEFINE T == {k \in 0..n : first[k] \in Int}
<1>8. first[0] = 0 /\ 0 \in T
  BY <1>1, <1>7
<1>9. ASSUME NEW k \in 1..n PROVE k \in 0..n /\ first[k] = first[k - 1] + es[k].size
  <2>1. k \in 0..n /\ k # 0
    BY <1>1
  <2> QED BY <1>7, <2>1
<1>10. ASSUME NEW k \in 1..n, k - 1 \in T PROVE k \in T
  <2>1. first[k - 1] \in Int /\ es[k].size \in Int
    BY <1>1, <1>10
  <2>2. first[k] \in Int
    BY <1>9, <2>1
  <2> QED BY <1>9, <2>2
<1>11. \A k \in 0..n : first[k] \in Int
  <2>1. \A k \in 0..n : k \in T
    <3> HIDE DEF T
    <3> QED BY <1>1, <1>8, <1>10, UpTo
  <2> QED BY <2>1
<1>12. first \in [0..n -> Int] /\ n \in 0..n
  BY <1>1, <1>7, <1>11
<1> QED BY <1>2, <1>8, <1>9, <1>11, <1>12 DEF CountsBytes, n

\* A count of a list's bytes is the count.
LEMMA BytesAre ==
  ASSUME NEW es \in Seq(LibEntry), NEW f, CountsBytes(f, es)
  PROVE  \A k \in 0..Len(es) : Bytes(es)[k] = f[k]
<1> DEFINE n == Len(es)
           B == Bytes(es)
           T == {k \in 0..n : B[k] = f[k]}
<1>1. n \in Nat /\ CountsBytes(B, es)
  BY BytesCount
<1> HIDE DEF B
<1>2. 0 \in T
  BY <1>1 DEF CountsBytes
<1>3. ASSUME NEW k \in 1..n, k - 1 \in T PROVE k \in T
  BY <1>1, <1>3 DEF CountsBytes
<1>4. \A k \in 0..n : k \in T
  <2> HIDE DEF T
  <2> QED BY <1>1, <1>2, <1>3, UpTo
<1> QED BY <1>4 DEF B

\* An entry put in front adds its size.
LEMMA FrontBytes ==
  ASSUME NEW es \in Seq(LibEntry), NEW e \in LibEntry
  PROVE  Bytes(<<e>> \o es)[Len(<<e>> \o es)] = e.size + Bytes(es)[Len(es)]
<1> DEFINE all == <<e>> \o es
           B == Bytes(es)
           f == [k \in 0..Len(all) |-> IF k = 0 THEN 0 ELSE e.size + B[k - 1]]
<1>1. Len(es) \in Nat /\ all \in Seq(LibEntry) /\ Len(all) = Len(es) + 1 /\ all[1] = e
      /\ \A k \in 2..Len(all) : all[k] = es[k - 1]
  OBVIOUS
<1>2. CountsBytes(B, es) /\ e.size \in Int
  BY BytesCount DEF LibEntry
<1> HIDE DEF all, B
<1>3. f \in [0..Len(all) -> Int]
  <2>1. \A k \in 0..Len(all) : k # 0 => k - 1 \in 0..Len(es)
    BY <1>1
  <2> QED BY <1>2, <2>1 DEF CountsBytes
<1>4. ASSUME NEW k \in 1..Len(all) PROVE f[k] = f[k - 1] + all[k].size
  <2>1. k \in 0..Len(all) /\ k - 1 \in 0..Len(all) /\ k # 0
    BY <1>1
  <2>2. CASE k = 1
    BY <1>1, <1>2, <2>1, <2>2 DEF CountsBytes
  <2>3. CASE k # 1
    <3>1. k - 1 \in 1..Len(es) /\ k \in 2..Len(all) /\ k - 1 # 0 /\ (k - 1) - 1 \in 0..Len(es)
      BY <1>1, <2>3
    <3>2. B[k - 1] = B[(k - 1) - 1] + all[k].size /\ B[(k - 1) - 1] \in Int /\ B[k - 1] \in Int
      BY <1>1, <1>2, <3>1, CountAt
    <3>3. f[k] = e.size + B[k - 1] /\ f[k - 1] = e.size + B[(k - 1) - 1]
      BY <2>1, <3>1
    <3>4. all[k].size \in Int
      BY <1>1, EntrySize
    <3> QED BY <1>2, <3>2, <3>3, <3>4
  <2> QED BY <2>2, <2>3
<1>5. CountsBytes(f, all)
  <2>1. f[0] = 0
    BY <1>1
  <2> HIDE DEF f
  <2> QED BY <1>3, <1>4, <2>1 DEF CountsBytes
<1>6. f[Len(all)] = e.size + B[Len(es)]
  BY <1>1
<1>7. Bytes(all)[Len(all)] = f[Len(all)]
  <2> HIDE DEF f
  <2> QED BY <1>1, <1>5, BytesAre
<1> QED BY <1>6, <1>7 DEF all, B

\* Removing an entry takes its size away.
LEMMA RemovedBytes ==
  ASSUME NEW es \in Seq(LibEntry), NEW p \in 1..Len(es)
  PROVE  /\ RemoveAt(es, p) \in Seq(LibEntry) /\ Len(RemoveAt(es, p)) = Len(es) - 1
         /\ \A k \in 1..(Len(es) - 1) : RemoveAt(es, p)[k] = IF k < p THEN es[k] ELSE es[k + 1]
         /\ Bytes(RemoveAt(es, p))[Len(RemoveAt(es, p))] = Bytes(es)[Len(es)] - es[p].size
<1> DEFINE left == RemoveAt(es, p)
           n == Len(es)
           B == Bytes(es)
           f == [k \in 0..(n - 1) |-> IF k < p THEN B[k] ELSE B[k + 1] - es[p].size]
<1>1. n \in Nat \ {0} /\ p \in 1..n
  OBVIOUS
<1>2. left \in Seq(LibEntry) /\ Len(left) = n - 1 /\ \A k \in 1..(n - 1) : left[k] = IF k < p THEN es[k] ELSE es[k + 1]
  <2> DEFINE u == SubSeq(es, 1, p - 1)
             v == SubSeq(es, p + 1, n)
  <2>1. u \in Seq(LibEntry) /\ Len(u) = p - 1 /\ \A k \in 1..(p - 1) : u[k] = es[k]
    BY <1>1
  <2>2. v \in Seq(LibEntry) /\ Len(v) = n - p /\ \A k \in 1..(n - p) : v[k] = es[p + k]
    BY <1>1
  <2>3. left = u \o v
    BY DEF RemoveAt
  <2> HIDE DEF u, v, left, n
  <2>4. left \in Seq(LibEntry) /\ Len(left) = n - 1
    BY <1>1, <2>1, <2>2, <2>3
  <2>5. ASSUME NEW k \in 1..(n - 1) PROVE left[k] = IF k < p THEN es[k] ELSE es[k + 1]
    <3>1. CASE k < p
      BY <1>1, <2>1, <2>2, <2>3, <3>1
    <3>2. CASE ~(k < p)
      <4>1. k - (p - 1) \in 1..(n - p) /\ k > p - 1 /\ p + (k - (p - 1)) = k + 1
        BY <1>1, <3>2
      <4>2. left[k] = v[k - (p - 1)]
        BY <1>1, <2>1, <2>2, <2>3, <4>1
      <4> QED BY <2>2, <3>2, <4>1, <4>2
    <3> QED BY <3>1, <3>2
  <2> QED BY <2>4, <2>5
<1>3. CountsBytes(B, es) /\ (\A k \in 1..n : es[k].size \in Int)
  BY BytesCount, EntrySize
<1> HIDE DEF left, B
<1>4. /\ B \in [0..n -> Int] /\ B[0] = 0
      /\ \A k \in 1..n : B[k] = B[k - 1] + es[k].size
  BY <1>3 DEF CountsBytes
<1> HIDE DEF n
<1>5. f \in [0..(n - 1) -> Int] /\ f[0] = 0 /\ f[n - 1] = B[n] - es[p].size
  <2>1. \A k \in 0..(n - 1) : k \in 0..n /\ k + 1 \in 0..n
    BY <1>1
  <2>2. f \in [0..(n - 1) -> Int]
    <3>1. es[p].size \in Int /\ \A k \in 0..n : B[k] \in Int
      BY <1>1, <1>3, <1>4
    <3>2. ASSUME NEW k \in 0..(n - 1) PROVE (IF k < p THEN B[k] ELSE B[k + 1] - es[p].size) \in Int
      <4>1. B[k] \in Int /\ B[k + 1] \in Int
        BY <2>1, <3>1
      <4> QED BY <3>1, <4>1
    <3> QED BY <3>2
  <2>3. f[0] = 0
    BY <1>1, <1>4
  <2>4. f[n - 1] = B[n] - es[p].size
    <3>1. CASE n - 1 < p
      <4>1. p = n /\ n - 1 \in 0..(n - 1) /\ n \in 1..n /\ n - 1 \in 0..n
        BY <1>1, <3>1
      <4>2. f[n - 1] = B[n - 1]
        BY <3>1, <4>1
      <4>3. B[n] = B[n - 1] + es[p].size /\ B[n - 1] \in Int /\ es[p].size \in Int
        BY <1>3, <1>4, <4>1
      <4> HIDE DEF f
      <4> QED BY <4>2, <4>3
    <3>2. CASE ~(n - 1 < p)
      BY <1>1, <3>2
    <3> QED BY <3>1, <3>2
  <2> QED BY <2>2, <2>3, <2>4
<1>6. ASSUME NEW k \in 1..(n - 1) PROVE f[k] = f[k - 1] + left[k].size
  <2>1. k \in 0..(n - 1) /\ k - 1 \in 0..(n - 1) /\ k \in 1..n /\ k + 1 \in 1..n /\ (k + 1) - 1 = k /\ (k - 1) + 1 = k
    BY <1>1
  <2>2. /\ B[k] = B[k - 1] + es[k].size /\ B[k + 1] = B[k] + es[k + 1].size
        /\ B[k] \in Int /\ B[k - 1] \in Int /\ B[k + 1] \in Int
        /\ es[k].size \in Int /\ es[k + 1].size \in Int /\ es[p].size \in Int
    <3>1. es[p].size \in Int
      BY <1>1, <1>3
    <3>2. /\ B[k] = B[k - 1] + es[k].size /\ B[k] \in Int /\ B[k - 1] \in Int /\ es[k].size \in Int
          /\ B[k + 1] = B[(k + 1) - 1] + es[k + 1].size /\ B[k + 1] \in Int /\ es[k + 1].size \in Int
      BY <1>3, <2>1, CountAt DEF n
    <3> QED BY <2>1, <3>1, <3>2
  <2>3. f[k] = (IF k < p THEN B[k] ELSE B[k + 1] - es[p].size)
        /\ f[k - 1] = (IF k - 1 < p THEN B[k - 1] ELSE B[k] - es[p].size)
    BY <2>1
  <2>4. left[k].size = IF k < p THEN es[k].size ELSE es[k + 1].size
    BY <1>2
  <2> HIDE DEF f
  <2>5. CASE k < p
    BY <1>1, <2>1, <2>2, <2>3, <2>4, <2>5
  <2>6. CASE k = p
    BY <1>1, <2>1, <2>2, <2>3, <2>4, <2>6
  <2>7. CASE k > p
    BY <1>1, <2>1, <2>2, <2>3, <2>4, <2>7
  <2> QED BY <1>1, <2>5, <2>6, <2>7
<1>7. CountsBytes(f, left)
  <2> HIDE DEF f
  <2> QED BY <1>1, <1>2, <1>5, <1>6 DEF CountsBytes
<1>8. Bytes(left)[n - 1] = f[n - 1]
  <2> HIDE DEF f
  <2>1. n - 1 \in 0..Len(left)
    BY <1>1, <1>2
  <2> QED BY <1>2, <1>7, <2>1, BytesAre
<1> HIDE DEF f
<1> QED BY <1>2, <1>5, <1>8 DEF left, B, n

\* A prefix holds the bytes counted up to it.
LEMMA PrefixBytes ==
  ASSUME NEW es \in Seq(LibEntry), NEW n \in 0..Len(es)
  PROVE  /\ SubSeq(es, 1, n) \in Seq(LibEntry) /\ Len(SubSeq(es, 1, n)) = n
         /\ \A k \in 1..n : SubSeq(es, 1, n)[k] = es[k]
         /\ Bytes(SubSeq(es, 1, n))[n] = Bytes(es)[n]
<1> DEFINE left == SubSeq(es, 1, n)
           f == [k \in 0..n |-> Bytes(es)[k]]
<1>1. n \in Nat /\ left \in Seq(LibEntry) /\ Len(left) = n /\ \A k \in 1..n : left[k] = es[k]
  OBVIOUS
<1>2. CountsBytes(Bytes(es), es)
  BY BytesCount
<1> HIDE DEF left
<1>3. CountsBytes(f, left)
  <2>1. Len(es) \in Nat /\ n <= Len(es)
    OBVIOUS
  <2>2. \A k \in 0..n : k \in 0..Len(es)
    BY <1>1, <2>1
  <2>3. f \in [0..n -> Int] /\ f[0] = 0
    <3>1. (\A k \in 0..Len(es) : Bytes(es)[k] \in Int) /\ Bytes(es)[0] = 0 /\ 0 \in 0..n
      BY <1>1, <1>2 DEF CountsBytes
    <3> QED BY <2>2, <3>1
  <2>4. ASSUME NEW k \in 1..n PROVE f[k] = f[k - 1] + left[k].size
    <3>1. k \in 1..Len(es) /\ k \in 0..n /\ k - 1 \in 0..n
      BY <1>1, <2>1
    <3>2. Bytes(es)[k] = Bytes(es)[k - 1] + es[k].size
      BY <1>2, <3>1, CountAt
    <3> QED BY <1>1, <3>1, <3>2
  <2> HIDE DEF f
  <2> QED BY <1>1, <2>3, <2>4 DEF CountsBytes
<1>4. n \in 0..Len(left)
  BY <1>1
<1>5. Bytes(left)[n] = f[n]
  <2> HIDE DEF f
  <2> QED BY <1>1, <1>3, <1>4, BytesAre
<1> QED BY <1>1, <1>4, <1>5 DEF left


-----------------------------------------------------------------------------
(***************************************************************************)
(* Documents change.                                                       *)
(***************************************************************************)
\* The parts of a row, a ref and an entry are numbers.
LEMMA RowParts ==
  ASSUME NEW T, RowsFit(T), NEW d \in DOMAIN T
  PROVE  T[d] \in LibRow /\ T[d].updated \in Nat /\ T[d].toc \in Nat /\ T[d].pages \in Nat /\ T[d].ready \in BOOLEAN
         /\ d \in Nat \ {0} /\ d \in LibDocs /\ T[d].pages \in DOMAIN T[d].runs
         /\ T[d].runs \in Seq({"pages", "contents", "ready", "done"})
<1>1. T[d] \in LibRow /\ d \in LibDocs /\ T[d].pages \in DOMAIN T[d].runs
  BY DEF RowsFit
<1> QED BY <1>1, LibraryAssumption DEF LibRow

\* What a ref says stays true of rows that go on.
LEMMA RefGoesOn ==
  ASSUME NEW T, NEW U, RowsFit(T), RowsFit(U), RowsGoOn(T, U), NEW ref \in LibRef, RefFits(T, ref)
  PROVE  RefFits(U, ref)
<1>1. ref.id \in DOMAIN T /\ ref.id \in DOMAIN U /\ RowGoesOn(T[ref.id], U[ref.id])
  BY DEF RefFits, RowsGoOn
<1>2. T[ref.id].updated \in Nat /\ U[ref.id].updated \in Nat /\ ref.updated \in Nat
  BY <1>1, RowParts DEF LibRef
<1> QED BY <1>1, <1>2 DEF RefFits, RowGoesOn

\* So does what was built under it.
LEMMA BuiltGoesOn ==
  ASSUME NEW T, NEW U, RowsFit(T), RowsFit(U), RowsGoOn(T, U), NEW id, NEW updated \in Nat,
         NEW toc, NEW pages, BuiltFits(T, id, updated, toc, pages)
  PROVE  BuiltFits(U, id, updated, toc, pages)
<1>1. id \in DOMAIN T /\ id \in DOMAIN U /\ RowGoesOn(T[id], U[id])
  BY DEF BuiltFits, RowsGoOn
<1>2. T[id].updated \in Nat /\ U[id].updated \in Nat
  BY <1>1, RowParts
<1>3. updated <= U[id].updated
  BY <1>1, <1>2 DEF BuiltFits, RowGoesOn
<1>4. ASSUME updated = U[id].updated
      PROVE  U[id].ready /\ toc = U[id].toc /\ (pages = U[id].pages \/ Replacing(U[id]))
  <2>1. updated = T[id].updated /\ T[id].updated = U[id].updated
    BY <1>1, <1>2, <1>4 DEF BuiltFits, RowGoesOn
  <2>2. T[id].ready /\ toc = T[id].toc /\ (pages = T[id].pages \/ Replacing(T[id]))
    BY <2>1 DEF BuiltFits
  <2> QED BY <1>1, <2>1, <2>2 DEF RowGoesOn
<1> QED BY <1>1, <1>3, <1>4 DEF BuiltFits

\* A query that counted on fewer documents is where it was.
LEMMA AskerGoesOn ==
  ASSUME NEW T, NEW U, RowsFit(T), RowsFit(U), RowsGoOn(T, U), NEW a \in LibAsker, NEW named,
         AskerFits(a, named, T), NEW S \in SUBSET a.steady, S \subseteq {d \in DOMAIN U : U[d].ready}
  PROVE  [a EXCEPT !.steady = S] \in LibAsker /\ AskerFits([a EXCEPT !.steady = S], named, U)
<1> DEFINE b == [a EXCEPT !.steady = S]
<1>1. b \in LibAsker /\ b.steady = S /\ b.step = a.step /\ b.cursor = a.cursor /\ b.found = a.found /\ b.refs = a.refs
  BY DEF LibAsker
<1>2. a.refs \in Seq(LibRef) /\ a.found \in Seq(LibSeen)
  BY DEF LibAsker
<1> HIDE DEF b
<1>3. Stands(b, U)
  BY <1>1 DEF Stands
<1>4. \A k \in DOMAIN b.refs : RefFits(U, b.refs[k])
  <2> SUFFICES ASSUME NEW k \in DOMAIN a.refs PROVE RefFits(U, a.refs[k])
    BY <1>1
  <2>1. a.refs[k] \in LibRef
    BY <1>2
  <2> QED BY <2>1, RefGoesOn DEF AskerFits
<1>5. \A i \in DOMAIN b.found : b.found[i].at = "keep" => RefFits(U, b.found[i].ref)
  <2> SUFFICES ASSUME NEW i \in DOMAIN a.found, a.found[i].at = "keep" PROVE RefFits(U, a.found[i].ref)
    BY <1>1
  <2>1. a.found[i] \in LibSeen
    BY <1>2
  <2>2. a.found[i].ref \in LibRef
    BY <2>1 DEF LibSeen
  <2> QED BY <2>2, RefGoesOn DEF AskerFits
<1>6. Listed(b) = Listed(a)
  BY <1>1 DEF Listed
<1>7. a.step = "lookup" => LookupFits(b, named)
  BY <1>1 DEF AskerFits, LookupFits
<1>8. named = <<>> => a.step # "lookup" /\ ListingFits(b)
  BY <1>1, <1>6 DEF AskerFits, ListingFits
<1> QED BY <1>1, <1>3, <1>4, <1>5, <1>6, <1>7, <1>8 DEF AskerFits, b

\* Rows that go on leave the library and the queries as sound as they were.
LEMMA LibGoesOn ==
  ASSUME LibInv, RowsFit(row'), RowsGoOn(row, row'), UNCHANGED <<lib, libBytes, shelf>>, NEW S,
         asker' = [q \in libAsked |-> [asker[q] EXCEPT !.steady = @ \ S]],
         \A d \in DOMAIN row : row[d].ready => row'[d].ready \/ d \in S
  PROVE  LibInv'
<1>1. LibFits(lib, libBytes, row)'
  <2> SUFFICES ASSUME NEW k \in DOMAIN lib
               PROVE  BuiltFits(row', lib[k].id, lib[k].updated, lib[k].toc, lib[k].pages)
    BY DEF LibFits, EntriesFit, LibInv
  <2>1. lib[k] \in LibEntry
    BY DEF LibInv, LibFits
  <2>2. lib[k].updated \in Nat
    BY <2>1 DEF LibEntry
  <2> QED BY <2>2, BuiltGoesOn DEF LibInv, LibFits, EntriesFit
<1>2. ASSUME NEW q \in libAsked
      PROVE  /\ asker'[q] \in LibAsker /\ AskerFits(asker'[q], LibQueries[q], row')
             /\ asker'[q].step = asker[q].step /\ asker'[q].refs = asker[q].refs
  <2> DEFINE a == asker[q]
             left == a.steady \ S
  <2>1. a \in LibAsker /\ AskerFits(a, LibQueries[q], row)
    BY DEF LibInv
  <2>2. asker'[q] = [a EXCEPT !.steady = left]
    BY <2>1 DEF LibAsker
  <2>3. left \in SUBSET a.steady /\ left \subseteq {d \in DOMAIN row' : row'[d].ready}
    BY <2>1 DEF AskerFits, Stands, RowsGoOn
  <2>4. [a EXCEPT !.steady = left].step = a.step /\ [a EXCEPT !.steady = left].refs = a.refs
    BY <2>1 DEF LibAsker
  <2> HIDE DEF a, left
  <2>5. RowsFit(row)
    BY DEF LibInv
  <2>6. [a EXCEPT !.steady = left] \in LibAsker /\ AskerFits([a EXCEPT !.steady = left], LibQueries[q], row')
    BY <2>1, <2>3, <2>5, AskerGoesOn
  <2> QED BY <2>2, <2>4, <2>6 DEF a
<1>3. ASSUME NEW q \in libAsked PROVE ShelfFits(shelf[q], asker'[q], row')
  <2>1. ShelfFits(shelf[q], asker[q], row) /\ asker'[q].step = asker[q].step /\ asker'[q].refs = asker[q].refs
    BY <1>2 DEF LibInv
  <2>2. ASSUME NEW i \in DOMAIN shelf[q], shelf[q][i].at \in {"store", "done"}
        PROVE  BuiltFits(row', asker[q].refs[i].id, asker[q].refs[i].updated, shelf[q][i].toc, shelf[q][i].pages)
    <3>1. asker[q].refs \in Seq(LibRef) /\ i \in DOMAIN asker[q].refs
      BY <2>1 DEF ShelfFits, LibInv, LibAsker
    <3>2. asker[q].refs[i] \in LibRef
      BY <3>1
    <3>3. asker[q].refs[i].updated \in Nat
      BY <3>2 DEF LibRef
    <3> QED BY <2>1, <2>2, <3>3, BuiltGoesOn DEF LibInv, ShelfFits
  <2> QED BY <2>1, <2>2 DEF ShelfFits
<1>4. asker' \in [libAsked -> LibAsker] /\ shelf' \in [libAsked -> Seq(LibBook)]
  BY <1>2 DEF LibInv
<1> QED BY <1>1, <1>2, <1>3, <1>4 DEF LibInv


\* Queries that a step leaves alone count on what they counted on.
LEMMA SteadyUnchanged ==
  ASSUME LibInv, asker' = asker
  PROVE  asker' = [q \in libAsked |-> [asker[q] EXCEPT !.steady = @ \ {}]]
<1>1. asker \in [libAsked -> LibAsker]
  BY DEF LibInv
<1>2. ASSUME NEW a \in LibAsker PROVE [a EXCEPT !.steady = @ \ {}] = a
  <2>1. a.steady \ {} = a.steady
    OBVIOUS
  <2> QED BY <2>1 DEF LibAsker
<1> QED BY <1>1, <1>2

\* A change of one row.
LEMMA RowChanges ==
  ASSUME LibInv, NEW d \in DOMAIN row, NEW r \in LibRow, row' = [row EXCEPT ![d] = r],
         r.pages \in DOMAIN r.runs, RowGoesOn(row[d], r)
  PROVE  RowsFit(row') /\ RowsGoOn(row, row')
<1>1. row' \in [DOMAIN row -> LibRow] /\ DOMAIN row' = DOMAIN row /\ row'[d] = r
      /\ \A x \in DOMAIN row : x # d => row'[x] = row[x]
  BY DEF LibInv, RowsFit
<1>2. RowsFit(row')
  BY <1>1 DEF LibInv, RowsFit
<1>3. ASSUME NEW x \in DOMAIN row PROVE RowGoesOn(row[x], row'[x])
  <2>1. row[x].updated \in Nat
    BY RowParts DEF LibInv
  <2> QED BY <1>1, <2>1 DEF RowGoesOn
<1> QED BY <1>1, <1>2, <1>3 DEF RowsGoOn

\* A delivery goes on to its next step, and the row with it.
LEMMA RunGoesOn ==
  ASSUME LibInv, NEW d \in DOMAIN row, NEW g \in DOMAIN row[d].runs,
         NEW next \in {"pages", "contents", "ready", "done"}, NEW n \in LibRow,
         row' = [row EXCEPT ![d] = n], UNCHANGED <<lib, libBytes, asker, shelf>>,
         n.runs = [row[d].runs EXCEPT ![g] = next], n.pages \in DOMAIN row[d].runs,
         RowGoesOn(row[d], n), row[d].ready => n.ready
  PROVE  LibInv'
<1>1. row[d].runs \in Seq({"pages", "contents", "ready", "done"})
  BY RowParts DEF LibInv
<1>2. DOMAIN n.runs = DOMAIN row[d].runs
  BY <1>1
<1>3. RowsFit(row') /\ RowsGoOn(row, row')
  BY <1>2, RowChanges
<1>4. \A x \in DOMAIN row : row[x].ready => row'[x].ready \/ x \in {}
  OBVIOUS
<1>5. asker' = [q \in libAsked |-> [asker[q] EXCEPT !.steady = @ \ {}]]
  BY SteadyUnchanged
<1> QED BY <1>3, <1>4, <1>5, LibGoesOn

\* Documents created and ingested again keep the invariant.
LEMMA RowsStep ==
  ASSUME LibInv, LibChange \/ \E d \in LibDocs : CreateDocument(d)
  PROVE  LibInv'
<1>1. ASSUME NEW d \in DOMAIN row, Reingest(d) PROVE LibInv'
  <2> DEFINE more == Append(row[d].runs, "pages")
             r == [row[d] EXCEPT !.updated = @ + 1, !.ready = FALSE, !.runs = more]
  <2>1. /\ row[d] \in LibRow /\ row[d].updated \in Nat /\ row[d].pages \in DOMAIN row[d].runs
        /\ row[d].runs \in Seq({"pages", "contents", "ready", "done"})
    BY RowParts DEF LibInv
  <2>2. more \in Seq({"pages", "contents", "ready", "done"}) /\ row[d].pages \in DOMAIN more
    BY <2>1
  <2>3. row' = [row EXCEPT ![d] = r]
    BY <1>1 DEF Reingest
  <2> HIDE DEF more
  <2>4. r \in LibRow /\ r.updated = row[d].updated + 1 /\ r.pages \in DOMAIN r.runs
    <3>1. row[d].updated + 1 \in Nat
      BY <2>1
    <3> QED BY <2>1, <2>2, <3>1 DEF LibRow
  <2> HIDE DEF r
  <2>5. RowGoesOn(row[d], r)
    BY <2>1, <2>4 DEF RowGoesOn
  <2>6. RowsFit(row') /\ RowsGoOn(row, row')
    BY <2>3, <2>4, <2>5, RowChanges
  <2>7. \A x \in DOMAIN row : row[x].ready => row'[x].ready \/ x \in {d}
    BY <2>3
  <2>8. asker' = [q \in libAsked |-> [asker[q] EXCEPT !.steady = @ \ {d}]] /\ UNCHANGED <<lib, libBytes, shelf>>
    BY <1>1 DEF Reingest
  <2> QED BY <2>6, <2>7, <2>8, LibGoesOn
<1>2. ASSUME NEW d \in DOMAIN row, NEW g \in DOMAIN row[d].runs,
             RewritePages(d, g) \/ RewriteContents(d, g) \/ ReadyAgain(d, g)
      PROVE  LibInv'
  <2>1. /\ row[d] \in LibRow /\ row[d].updated \in Nat /\ row[d].pages \in DOMAIN row[d].runs /\ g \in Nat
        /\ row[d].runs \in Seq({"pages", "contents", "ready", "done"})
    BY RowParts DEF LibInv
  <2>2. ASSUME NEW next \in {"pages", "contents", "ready", "done"}
        PROVE  /\ [row[d].runs EXCEPT ![g] = next] \in Seq({"pages", "contents", "ready", "done"})
               /\ \A x \in DOMAIN row[d].runs :
                    [row[d].runs EXCEPT ![g] = next][x] = IF x = g THEN next ELSE row[d].runs[x]
    BY <2>1
  <2>3. CASE RewritePages(d, g)
    <3>1. PICK stored \in BOOLEAN :
            row' = [row EXCEPT ![d].runs[g] = "contents", ![d].pages = IF stored THEN g ELSE @]
      BY <2>3 DEF RewritePages
    <3> DEFINE n == [row[d] EXCEPT !.runs = [@ EXCEPT ![g] = "contents"], !.pages = IF stored THEN g ELSE @]
    <3>2. /\ n \in LibRow /\ n.runs = [row[d].runs EXCEPT ![g] = "contents"] /\ n.ready = row[d].ready
          /\ n.pages = (IF stored THEN g ELSE row[d].pages) /\ n.updated = row[d].updated /\ n.toc = row[d].toc
      BY <2>1, <2>2 DEF LibRow
    <3>3. row' = [row EXCEPT ![d] = n] /\ UNCHANGED <<lib, libBytes, asker, shelf>>
      BY <2>3, <3>1 DEF RewritePages
    <3>4. n.pages \in DOMAIN row[d].runs
      BY <2>1, <3>2
    <3> HIDE DEF n
    <3>5. n.runs[n.pages] = IF n.pages = g THEN "contents" ELSE row[d].runs[n.pages]
      BY <2>2, <3>2, <3>4
    <3>6. RowGoesOn(row[d], n)
      BY <2>1, <3>2, <3>5 DEF RowGoesOn, Replacing
    <3> QED BY <3>2, <3>3, <3>4, <3>6, RunGoesOn
  <2>4. CASE RewriteContents(d, g)
    <3>1. PICK built \in BOOLEAN :
            row' = [row EXCEPT ![d].runs[g] = "ready", ![d].toc = IF built THEN g ELSE @,
                               ![d].updated = IF built THEN @ + 1 ELSE @]
      BY <2>4 DEF RewriteContents
    <3> DEFINE next == [row[d].runs EXCEPT ![g] = "ready"]
               toc == IF built THEN g ELSE row[d].toc
               moved == IF built THEN row[d].updated + 1 ELSE row[d].updated
               n == [row[d] EXCEPT !.runs = next, !.toc = toc, !.updated = moved]
    <3>2. /\ n \in LibRow /\ n.runs = [row[d].runs EXCEPT ![g] = "ready"] /\ n.ready = row[d].ready
          /\ n.pages = row[d].pages /\ n.updated = (IF built THEN row[d].updated + 1 ELSE row[d].updated)
          /\ n.toc = (IF built THEN g ELSE row[d].toc)
      <4>1. next \in Seq({"pages", "contents", "ready", "done"}) /\ toc \in Nat /\ moved \in Nat
        BY <2>1, <2>2 DEF LibRow
      <4> HIDE DEF next, toc, moved
      <4>2. n \in LibRow /\ n.runs = next /\ n.toc = toc /\ n.updated = moved /\ n.ready = row[d].ready
            /\ n.pages = row[d].pages
        BY <2>1, <4>1 DEF LibRow
      <4> QED BY <4>2 DEF next, toc, moved
    <3>3. row' = [row EXCEPT ![d] = n] /\ UNCHANGED <<lib, libBytes, asker, shelf>>
      BY <2>4, <3>1 DEF RewriteContents
    <3> HIDE DEF n
    <3>4. n.runs[n.pages] = IF n.pages = g THEN "ready" ELSE row[d].runs[n.pages]
      BY <2>1, <2>2, <3>2
    <3>5. RowGoesOn(row[d], n)
      BY <2>1, <3>2, <3>4 DEF RowGoesOn, Replacing
    <3> QED BY <2>1, <3>2, <3>3, <3>5, RunGoesOn
  <2>5. CASE ReadyAgain(d, g)
    <3> DEFINE next == [row[d].runs EXCEPT ![g] = "done"]
               n == [row[d] EXCEPT !.runs = next, !.ready = TRUE, !.updated = @ + 1]
    <3>1. /\ n \in LibRow /\ n.runs = [row[d].runs EXCEPT ![g] = "done"] /\ n.ready = TRUE
          /\ n.pages = row[d].pages /\ n.updated = row[d].updated + 1
      <4>1. next \in Seq({"pages", "contents", "ready", "done"}) /\ row[d].updated + 1 \in Nat
        BY <2>1, <2>2
      <4> HIDE DEF next
      <4>2. n \in LibRow /\ n.runs = next /\ n.updated = row[d].updated + 1 /\ n.ready = TRUE
            /\ n.pages = row[d].pages
        BY <2>1, <4>1 DEF LibRow
      <4> QED BY <4>2 DEF next
    <3>2. row' = [row EXCEPT ![d] = n] /\ UNCHANGED <<lib, libBytes, asker, shelf>>
      BY <2>5 DEF ReadyAgain
    <3> HIDE DEF n
    <3>3. RowGoesOn(row[d], n)
      BY <2>1, <3>1 DEF RowGoesOn
    <3> QED BY <2>1, <3>1, <3>2, <3>3, RunGoesOn
  <2> QED BY <1>2, <2>3, <2>4, <2>5
<1>3. ASSUME NEW d \in LibDocs, CreateDocument(d) PROVE LibInv'
  <2>1. PICK beside \in {<<>>, <<"pages">>} :
          /\ row' = [x \in DOMAIN row \cup {d} |-> IF x = d THEN NewRow(beside) ELSE row[x]] /\ d \notin DOMAIN row
          /\ UNCHANGED <<lib, libBytes, asker, shelf>>
    BY <1>3 DEF CreateDocument
  <2> DEFINE n == NewRow(beside)
  <2>2. /\ <<"done">> \o beside \in Seq({"pages", "contents", "ready", "done"})
        /\ 1 \in DOMAIN (<<"done">> \o beside)
    <3>1. CASE beside = <<>>
      BY <3>1
    <3>2. CASE beside = <<"pages">>
      BY <3>2
    <3> QED BY <3>1, <3>2
  <2>3. n \in LibRow /\ n.pages \in DOMAIN n.runs
    BY <2>2 DEF NewRow, LibRow
  <2> HIDE DEF n
  <2>4. /\ row' \in [DOMAIN row \cup {d} -> LibRow] /\ DOMAIN row' = DOMAIN row \cup {d} /\ row'[d] = n
        /\ \A x \in DOMAIN row : row'[x] = row[x]
    BY <2>1, <2>3 DEF LibInv, RowsFit, n
  <2>5. IsFiniteSet(DOMAIN row')
    <3>1. IsFiniteSet(DOMAIN row)
      BY DEF LibInv, RowsFit
    <3>2. IsFiniteSet(DOMAIN row \cup {d})
      BY <3>1, OneMore
    <3> QED BY <2>4, <3>2
  <2>6. RowsFit(row')
    BY <2>3, <2>4, <2>5 DEF LibInv, RowsFit
  <2>7. RowsGoOn(row, row')
    <3>1. \A x \in DOMAIN row : row[x].updated \in Nat
      BY RowParts DEF LibInv
    <3> QED BY <2>4, <3>1 DEF RowsGoOn, RowGoesOn
  <2>8. \A x \in DOMAIN row : row[x].ready => row'[x].ready \/ x \in {}
    BY <2>4
  <2>9. asker' = [q \in libAsked |-> [asker[q] EXCEPT !.steady = @ \ {}]]
    BY <2>1, SteadyUnchanged
  <2> QED BY <2>1, <2>6, <2>7, <2>8, <2>9, LibGoesOn
<1> QED BY <1>1, <1>2, <1>3 DEF LibChange


-----------------------------------------------------------------------------
(***************************************************************************)
(* The listing of a collection.                                            *)
(***************************************************************************)
\* Newest lists a set of documents, each once, the newest first.
LEMMA NewestFirst ==
  ASSUME NEW S \in SUBSET Nat, IsFiniteSet(S)
  PROVE  /\ Newest(S) \in Seq(S) /\ Len(Newest(S)) = Cardinality(S) /\ Cardinality(S) \in Nat
         /\ \A x \in S : \E k \in DOMAIN Newest(S) : Newest(S)[k] = x
         /\ \A j, k \in DOMAIN Newest(S) : j < k => Newest(S)[j] > Newest(S)[k]
<1> DEFINE R == {p \in S \X S : p[1] > p[2]}
           order == Newest(S)
<1>1. StrictOrder(S, R)
  <2>1. \A x \in S : x \in Int
    OBVIOUS
  <2>2. \A x, y \in S : <<x, y>> \in R <=> x > y
    OBVIOUS
  <2> HIDE DEF R
  <2> QED BY <2>1, <2>2 DEF StrictOrder
<1>2. \A x \in S : Below(S, R, x) = {y \in S : y > x}
  BY DEF Below
<1>3. order = [k \in 1..Cardinality(S) |-> CHOOSE x \in S : Cardinality({y \in S : y > x}) = k - 1]
  BY DEF Newest, InOrder
<1>4. \A x, y \in S : <<x, y>> \in R => x > y
  OBVIOUS
<1> HIDE DEF R, order
<1>5. ASSUME NEW k \in DOMAIN order PROVE order[k] \in S /\ Cardinality(Below(S, R, order[k])) = k - 1
  <2>1. k \in 1..Cardinality(S)
    BY <1>3
  <2>2. \E x \in S : Cardinality(Below(S, R, x)) = k - 1
    BY <1>1, <2>1, Ranks
  <2>3. \E x \in S : Cardinality({y \in S : y > x}) = k - 1
    BY <1>2, <2>2
  <2>4. order[k] = CHOOSE x \in S : Cardinality({y \in S : y > x}) = k - 1
    BY <1>3, <2>1
  <2>5. order[k] \in S /\ Cardinality({y \in S : y > order[k]}) = k - 1
    BY <2>3, <2>4, Zenon
  <2> QED BY <1>2, <2>5
<1>6. DOMAIN order = 1..Cardinality(S) /\ order = [k \in DOMAIN order |-> order[k]]
  <2> DEFINE at(k) == CHOOSE x \in S : Cardinality({y \in S : y > x}) = k - 1
  <2>1. order = [k \in 1..Cardinality(S) |-> at(k)]
    BY <1>3
  <2> HIDE DEF at
  <2> QED BY <2>1
<1>7. order \in Seq(S) /\ Len(order) = Cardinality(S) /\ Cardinality(S) \in Nat
  <2>1. Cardinality(S) \in Nat
    BY PartsAreFinite
  <2>2. order \in [1..Cardinality(S) -> S]
    BY <1>5, <1>6
  <2> QED BY <2>1, <2>2
<1>8. /\ \A x \in S : \E k \in DOMAIN order : order[k] = x
      /\ \A j, k \in DOMAIN order : j < k => <<order[j], order[k]>> \in R
  <2>1. \A k \in DOMAIN order : Cardinality(Below(S, R, order[k])) = k - 1
    BY <1>5
  <2>2. \A x \in S : \E k \in DOMAIN order : order[k] = x
    BY <1>1, <1>7, <2>1, Enumerated
  <2>3. \A j, k \in DOMAIN order : j < k => <<order[j], order[k]>> \in R
    BY <1>1, <1>7, <2>1, Enumerated
  <2> QED BY <2>2, <2>3
<1>9. \A j, k \in DOMAIN order : j < k => order[j] > order[k]
  BY <1>4, <1>5, <1>8
<1> QED BY <1>7, <1>8, <1>9 DEF order

\* Ascending lists a set of places, each once, from the first.
LEMMA AscendingList ==
  ASSUME NEW S \in SUBSET Nat, IsFiniteSet(S)
  PROVE  /\ Ascending(S) \in Seq(S) /\ Len(Ascending(S)) = Cardinality(S) /\ Cardinality(S) \in Nat
         /\ \A x \in S : \E k \in DOMAIN Ascending(S) : Ascending(S)[k] = x
         /\ \A j, k \in DOMAIN Ascending(S) : j < k => Ascending(S)[j] < Ascending(S)[k]
<1> DEFINE R == {p \in S \X S : p[1] < p[2]}
           order == Ascending(S)
<1>1. StrictOrder(S, R)
  <2>1. \A x \in S : x \in Int
    OBVIOUS
  <2>2. \A x, y \in S : <<x, y>> \in R <=> x < y
    OBVIOUS
  <2> HIDE DEF R
  <2> QED BY <2>1, <2>2 DEF StrictOrder
<1>2. \A x \in S : Below(S, R, x) = {y \in S : y < x}
  BY DEF Below
<1>3. order = [k \in 1..Cardinality(S) |-> CHOOSE x \in S : Cardinality({y \in S : y < x}) = k - 1]
  BY DEF Ascending, InOrder
<1>4. \A x, y \in S : <<x, y>> \in R => x < y
  OBVIOUS
<1> HIDE DEF R, order
<1>5. ASSUME NEW k \in DOMAIN order PROVE order[k] \in S /\ Cardinality(Below(S, R, order[k])) = k - 1
  <2>1. k \in 1..Cardinality(S)
    BY <1>3
  <2>2. \E x \in S : Cardinality(Below(S, R, x)) = k - 1
    BY <1>1, <2>1, Ranks
  <2>3. \E x \in S : Cardinality({y \in S : y < x}) = k - 1
    BY <1>2, <2>2
  <2>4. order[k] = CHOOSE x \in S : Cardinality({y \in S : y < x}) = k - 1
    BY <1>3, <2>1
  <2>5. order[k] \in S /\ Cardinality({y \in S : y < order[k]}) = k - 1
    BY <2>3, <2>4, Zenon
  <2> QED BY <1>2, <2>5
<1>6. DOMAIN order = 1..Cardinality(S) /\ order = [k \in DOMAIN order |-> order[k]]
  <2> DEFINE at(k) == CHOOSE x \in S : Cardinality({y \in S : y < x}) = k - 1
  <2>1. order = [k \in 1..Cardinality(S) |-> at(k)]
    BY <1>3
  <2> HIDE DEF at
  <2> QED BY <2>1
<1>7. order \in Seq(S) /\ Len(order) = Cardinality(S) /\ Cardinality(S) \in Nat
  <2>1. Cardinality(S) \in Nat
    BY PartsAreFinite
  <2>2. order \in [1..Cardinality(S) -> S]
    BY <1>5, <1>6
  <2> QED BY <2>1, <2>2
<1>8. /\ \A x \in S : \E k \in DOMAIN order : order[k] = x
      /\ \A j, k \in DOMAIN order : j < k => <<order[j], order[k]>> \in R
  <2>1. \A k \in DOMAIN order : Cardinality(Below(S, R, order[k])) = k - 1
    BY <1>5
  <2>2. \A x \in S : \E k \in DOMAIN order : order[k] = x
    BY <1>1, <1>7, <2>1, Enumerated
  <2>3. \A j, k \in DOMAIN order : j < k => <<order[j], order[k]>> \in R
    BY <1>1, <1>7, <2>1, Enumerated
  <2> QED BY <2>2, <2>3
<1>9. \A j, k \in DOMAIN order : j < k => order[j] < order[k]
  BY <1>4, <1>5, <1>8
<1> QED BY <1>7, <1>8, <1>9 DEF order

\* A query that moves on alone.
LEMMA AskerMoves ==
  ASSUME LibInv, NEW q \in libAsked, NEW b \in LibAsker, AskerFits(b, LibQueries[q], row),
         NEW s \in Seq(LibBook), ShelfFits(s, b, row),
         asker' = [asker EXCEPT ![q] = b], shelf' = [shelf EXCEPT ![q] = s], UNCHANGED <<row, lib, libBytes>>
  PROVE  LibInv'
<1>1. asker \in [libAsked -> LibAsker] /\ shelf \in [libAsked -> Seq(LibBook)]
  BY DEF LibInv
<1>2. asker' \in [libAsked -> LibAsker] /\ shelf' \in [libAsked -> Seq(LibBook)]
  BY <1>1
<1>3. ASSUME NEW x \in libAsked
      PROVE  AskerFits(asker'[x], LibQueries[x], row) /\ ShelfFits(shelf'[x], asker'[x], row)
  <2>1. CASE x = q
    BY <1>1, <2>1
  <2>2. CASE x # q
    <3>1. asker'[x] = asker[x] /\ shelf'[x] = shelf[x]
      BY <1>1, <2>2
    <3> QED BY <3>1 DEF LibInv
  <2> QED BY <2>1, <2>2
<1>4. RowsFit(row') /\ LibFits(lib', libBytes', row')
  BY DEF LibInv
<1>5. \A x \in libAsked : AskerFits(asker'[x], LibQueries[x], row') /\ ShelfFits(shelf'[x], asker'[x], row')
  BY <1>3
<1> QED BY <1>2, <1>4, <1>5 DEF LibInv

\* A query that is not building has nothing on its shelf.
LEMMA EmptyShelf ==
  ASSUME LibInv, NEW q \in libAsked, asker[q].step # "build", NEW b, b.step # "build"
  PROVE  shelf[q] \in Seq(LibBook) /\ ShelfFits(shelf[q], b, row) /\ shelf = [shelf EXCEPT ![q] = shelf[q]]
<1>1. shelf \in [libAsked -> Seq(LibBook)] /\ shelf[q] = <<>>
  BY DEF LibInv, ShelfFits
<1>2. DOMAIN shelf[q] = {}
  BY <1>1
<1> QED BY <1>1, <1>2 DEF ShelfFits

\* The ref of a ready document fits.
LEMMA RefNow ==
  ASSUME LibInv, NEW d \in ReadyDocs
  PROVE  Ref(d) \in LibRef /\ Ref(d).id = d /\ RefFits(row, Ref(d)) /\ d \in Nat \ {0}
<1>1. d \in DOMAIN row /\ row[d].ready
  BY DEF ReadyDocs
<1>2. row[d].updated \in Nat /\ row[d].toc \in Nat /\ d \in Nat \ {0}
  BY <1>1, RowParts DEF LibInv
<1>3. Ref(d) \in LibRef /\ Ref(d).id = d /\ Ref(d).updated = row[d].updated /\ Ref(d).toc = row[d].toc
  BY <1>2 DEF Ref, LibRef
<1> QED BY <1>1, <1>2, <1>3 DEF RefFits

\* refs keeps the invariant.
LEMMA RefsStep ==
  ASSUME LibInv, NEW q \in libAsked, refs(q)
  PROVE  LibInv'
<1> DEFINE a == asker[q]
           named == LibQueries[q]
           st == IF named = <<>> THEN "list" ELSE "lookup"
           fo == [i \in DOMAIN named |-> [at |-> "wait", ref |-> NoRef]]
           sd == IF named = <<>> THEN ReadyDocs ELSE ReadyDocs \cap ToSet(named)
           b == [a EXCEPT !.step = st, !.found = fo, !.steady = sd]
<1>1. a \in LibAsker /\ a.step = "start" /\ a.refs = <<>> /\ a.cursor = 0
  BY DEF LibInv, AskerFits, refs
<1>2. asker' = [asker EXCEPT ![q] = b] /\ UNCHANGED <<row, lib, libBytes, shelf>>
  BY DEF refs
<1>3. named \in Seq(Nat)
  BY LibraryAssumption DEF libAsked
<1>4. ReadyDocs \in SUBSET Nat
  BY RefNow
<1>5. NoRef \in LibRef
  BY DEF NoRef, LibRef
<1>6. fo \in Seq(LibSeen)
  <2>1. [at |-> "wait", ref |-> NoRef] \in LibSeen
    BY <1>5 DEF LibSeen
  <2> QED BY <1>3, <2>1
<1>7. st \in {"list", "lookup"} /\ st # "build" /\ sd \in SUBSET Nat
  BY <1>4
<1>8. b \in LibAsker /\ b.step = st /\ b.found = fo /\ b.steady = sd /\ b.refs = <<>> /\ b.cursor = 0
  <2> HIDE DEF st, fo, sd, a
  <2> QED BY <1>1, <1>6, <1>7 DEF LibAsker
<1> HIDE DEF b
<1>9. AskerFits(b, named, row)
  <2>1. Stands(b, row)
    BY <1>8 DEF Stands, ReadyDocs
  <2>2. DOMAIN b.refs = {} /\ DOMAIN b.found = DOMAIN named /\ \A i \in DOMAIN b.found : b.found[i].at = "wait"
    BY <1>3, <1>8
  <2>3. b.step = "lookup" => LookupFits(b, named)
    BY <1>8, <2>2 DEF LookupFits, ToSet
  <2>4. named = <<>> => b.step # "lookup" /\ ListingFits(b)
    BY <1>8, <2>2 DEF ListingFits
  <2> QED BY <1>7, <1>8, <2>1, <2>2, <2>3, <2>4 DEF AskerFits
<1>10. shelf[q] \in Seq(LibBook) /\ ShelfFits(shelf[q], b, row) /\ shelf = [shelf EXCEPT ![q] = shelf[q]]
  <2>1. b.step # "build" /\ asker[q].step # "build"
    BY <1>1, <1>7, <1>8
  <2> QED BY <2>1, EmptyShelf
<1> HIDE DEF a, named
<1> QED BY <1>2, <1>8, <1>9, <1>10, AskerMoves DEF named


\* A page of the listing: the newest of the documents after the last one seen.
LEMMA ListPage ==
  ASSUME LibInv, NEW after \in SUBSET ReadyDocs
  PROVE  /\ Newest(after) \in Seq(after) /\ Len(Newest(after)) = Cardinality(after) /\ Cardinality(after) \in Nat
         /\ \A x \in after : \E k \in 1..Cardinality(after) : Newest(after)[k] = x
         /\ \A j, k \in 1..Cardinality(after) : j < k => Newest(after)[j] > Newest(after)[k]
         /\ after \in SUBSET (Nat \ {0})
<1>1. after \in SUBSET (Nat \ {0})
  BY RefNow
<1>2. after \in SUBSET DOMAIN row /\ IsFiniteSet(DOMAIN row)
  BY DEF ReadyDocs, LibInv, RowsFit
<1>3. IsFiniteSet(after) /\ after \in SUBSET Nat
  BY <1>1, <1>2, PartsAreFinite
<1>4. Newest(after) \in Seq(after) /\ Len(Newest(after)) = Cardinality(after) /\ Cardinality(after) \in Nat
  BY <1>3, NewestFirst
<1>5. DOMAIN Newest(after) = 1..Cardinality(after)
  BY <1>4
<1>6. \A x \in after : \E k \in DOMAIN Newest(after) : Newest(after)[k] = x
  BY <1>3, NewestFirst
<1>7. \A j, k \in DOMAIN Newest(after) : j < k => Newest(after)[j] > Newest(after)[k]
  BY <1>3, NewestFirst
<1> QED BY <1>1, <1>4, <1>5, <1>6, <1>7

\* ListDocuments keeps the invariant: what was to be listed is on the page or
\* after it.
LEMMA ListStep ==
  ASSUME LibInv, NEW q \in libAsked, ListDocuments(q)
  PROVE  LibInv'
<1> DEFINE a == asker[q]
           after == {d \in ReadyDocs : a.cursor = 0 \/ d < a.cursor}
           all == Newest(after)
           n == IF Len(all) < LibPage THEN Len(all) ELSE LibPage
           page == FirstN(all, LibPage)
           more == Cardinality(after) > LibPage
           new == [k \in DOMAIN page |-> Ref(page[k])]
           rs == a.refs \o new
           cu == IF more THEN page[LibPage] ELSE a.cursor
           st == IF more THEN "list" ELSE "listed"
           b == [a EXCEPT !.refs = rs, !.cursor = cu, !.step = st]
<1>1. /\ a \in LibAsker /\ a.step = "list" /\ AskerFits(a, LibQueries[q], row) /\ LibQueries[q] = <<>>
      /\ a.cursor \in Nat /\ a.refs \in Seq(LibRef) /\ ListingFits(a) /\ Stands(a, row)
  BY DEF LibInv, AskerFits, ListDocuments, LibAsker
<1>2. asker' = [asker EXCEPT ![q] = b] /\ UNCHANGED <<row, lib, libBytes, shelf>>
  BY DEF ListDocuments
<1>3. /\ all \in Seq(after) /\ Len(all) = Cardinality(after) /\ Len(all) \in Nat
      /\ \A x \in after : \E k \in 1..Len(all) : all[k] = x
      /\ \A j, k \in 1..Len(all) : j < k => all[j] > all[k]
      /\ \A x \in after : x \in ReadyDocs /\ x \in Nat \ {0} /\ (a.cursor = 0 \/ x < a.cursor)
  <2>1. after \in SUBSET ReadyDocs
    OBVIOUS
  <2>2. \A x \in after : x \in ReadyDocs /\ (a.cursor = 0 \/ x < a.cursor)
    OBVIOUS
  <2> HIDE DEF after
  <2> QED BY <2>1, <2>2, ListPage
<1>4. /\ n \in 0..Len(all) /\ page = SubSeq(all, 1, n) /\ LibPage \in Nat \ {0}
      /\ (more => n = LibPage) /\ (~more => n = Len(all))
  BY <1>3, LibraryAssumption DEF FirstN
<1>5. \A x \in ReadyDocs : (a.cursor = 0 \/ x < a.cursor) => x \in after
  OBVIOUS
<1> HIDE DEF after, all, n
<1>6. DOMAIN page = 1..n /\ \A k \in 1..n : page[k] = all[k] /\ all[k] \in after
  BY <1>3, <1>4
<1>7. new \in Seq(LibRef) /\ Len(new) = n /\ \A k \in 1..n : new[k].id = all[k] /\ RefFits(row, new[k])
  <2>1. \A k \in 1..n : Ref(page[k]) \in LibRef /\ Ref(page[k]).id = all[k] /\ RefFits(row, Ref(page[k]))
    BY <1>3, <1>6, RefNow
  <2>2. new \in [1..n -> LibRef] /\ \A k \in 1..n : new[k] = Ref(page[k])
    BY <1>6, <2>1
  <2>3. n \in Nat
    BY <1>3, <1>4
  <2> HIDE DEF new
  <2> QED BY <2>1, <2>2, <2>3
<1> HIDE DEF page, new
<1>8. /\ rs \in Seq(LibRef)
      /\ \A k \in DOMAIN rs : \/ k \in DOMAIN a.refs /\ rs[k] = a.refs[k]
                              \/ k - Len(a.refs) \in 1..n /\ k > Len(a.refs) /\ rs[k] = new[k - Len(a.refs)]
      /\ \A k \in DOMAIN a.refs : k \in DOMAIN rs /\ rs[k] = a.refs[k]
      /\ \A k \in 1..n : k + Len(a.refs) \in DOMAIN rs /\ rs[k + Len(a.refs)] = new[k]
  <2>1. n \in Nat /\ Len(a.refs) \in Nat /\ DOMAIN a.refs = 1..Len(a.refs)
    BY <1>1, <1>3, <1>4
  <2>2. rs \in Seq(LibRef) /\ Len(rs) = Len(a.refs) + n
    <3> DEFINE old == a.refs
    <3>1. rs = old \o new /\ old \in Seq(LibRef) /\ new \in Seq(LibRef) /\ Len(new) = n
      BY <1>1, <1>7
    <3> HIDE DEF old, rs
    <3>2. rs \in Seq(LibRef) /\ Len(rs) = Len(old) + Len(new)
      BY <3>1, Joined, Zenon
    <3> QED BY <3>1, <3>2 DEF old
  <2>3. DOMAIN rs = 1..(Len(a.refs) + n)
    BY <2>2
  <2>4. \A k \in 1..Len(a.refs) : rs[k] = a.refs[k]
    BY <1>1, <1>7, <2>1
  <2>5. ASSUME NEW k \in 1..n PROVE rs[k + Len(a.refs)] = new[k]
    BY <1>1, <1>7, <2>1
  <2> HIDE DEF rs, a
  <2>6. ASSUME NEW k \in DOMAIN rs, k \notin DOMAIN a.refs
        PROVE  k - Len(a.refs) \in 1..n /\ k > Len(a.refs) /\ rs[k] = new[k - Len(a.refs)]
    <3>1. k - Len(a.refs) \in 1..n /\ (k - Len(a.refs)) + Len(a.refs) = k /\ k > Len(a.refs)
      BY <2>1, <2>3, <2>6
    <3> QED BY <2>5, <3>1
  <2>7. \A k \in DOMAIN a.refs : k \in DOMAIN rs
    BY <2>1, <2>3
  <2>8. \A k \in 1..n : k + Len(a.refs) \in DOMAIN rs
    BY <2>1, <2>3
  <2>9. ASSUME NEW k \in DOMAIN rs
        PROVE  \/ k \in DOMAIN a.refs /\ rs[k] = a.refs[k]
               \/ k - Len(a.refs) \in 1..n /\ k > Len(a.refs) /\ rs[k] = new[k - Len(a.refs)]
    <3>1. CASE k \in DOMAIN a.refs
      BY <2>1, <2>4, <3>1
    <3>2. CASE k \notin DOMAIN a.refs
      BY <2>6, <3>2
    <3> QED BY <3>1, <3>2
  <2> QED BY <2>1, <2>2, <2>4, <2>5, <2>7, <2>8, <2>9
<1>9. cu \in Nat /\ (more => cu = all[LibPage] /\ cu # 0) /\ (~more => cu = a.cursor) /\ st \in {"list", "listed"}
      /\ (more <=> st = "list")
  <2>1. CASE more
    <3>1. LibPage \in 1..n
      BY <1>4, <2>1
    <3>2. page[LibPage] = all[LibPage] /\ all[LibPage] \in Nat \ {0}
      BY <1>3, <1>6, <3>1
    <3> QED BY <2>1, <3>2
  <2>2. CASE ~more
    BY <1>1, <2>2
  <2> QED BY <2>1, <2>2
<1> HIDE DEF rs, cu, st
<1>10. b \in LibAsker /\ b.refs = rs /\ b.cursor = cu /\ b.step = st /\ b.steady = a.steady /\ b.found = a.found
  <2> HIDE DEF a, more
  <2> QED BY <1>1, <1>8, <1>9 DEF LibAsker
<1> HIDE DEF b
<1>11. Listed(b) = Listed(a) \cup {all[k] : k \in 1..n}
  <2>1. ASSUME NEW x \in Listed(b) PROVE x \in Listed(a) \cup {all[k] : k \in 1..n}
    <3>1. PICK k \in DOMAIN rs : x = rs[k].id
      BY <1>10 DEF Listed
    <3>2. \/ k \in DOMAIN a.refs /\ rs[k] = a.refs[k]
          \/ k - Len(a.refs) \in 1..n /\ rs[k] = new[k - Len(a.refs)]
      BY <1>8
    <3> QED BY <1>7, <3>1, <3>2 DEF Listed
  <2>2. \A x \in Listed(a) : x \in Listed(b)
    BY <1>8, <1>10 DEF Listed
  <2>3. ASSUME NEW k \in 1..n PROVE all[k] \in Listed(b)
    <3>1. k + Len(a.refs) \in DOMAIN rs /\ rs[k + Len(a.refs)].id = all[k]
      BY <1>7, <1>8
    <3> QED BY <1>10, <3>1 DEF Listed
  <2> QED BY <2>1, <2>2, <2>3
<1>12. ASSUME NEW d \in a.steady PROVE d \in Listed(a) \/ \E k \in 1..Len(all) : d = all[k]
  <2>1. d \in ReadyDocs
    BY <1>1 DEF Stands, ReadyDocs
  <2>2. d \in Listed(a) \/ a.cursor = 0 \/ d < a.cursor
    BY <1>1 DEF ListingFits
  <2> QED BY <1>3, <1>5, <2>1, <2>2
<1>13. \A k \in DOMAIN a.refs : a.refs[k].id \in Nat /\ a.cursor # 0 /\ a.refs[k].id >= a.cursor
  <2>1. \A k \in DOMAIN a.refs : a.refs[k] \in LibRef
    BY <1>1
  <2>2. a.cursor = 0 => DOMAIN a.refs = {}
    BY <1>1 DEF ListingFits
  <2> QED BY <1>1, <2>1, <2>2 DEF ListingFits, LibRef
<1>14. \A k \in 1..n : all[k] \in Nat \ {0} /\ (a.cursor # 0 => all[k] < a.cursor)
  BY <1>3, <1>6
<1>15. ASSUME NEW j \in DOMAIN rs, NEW k \in DOMAIN rs, j < k PROVE rs[j].id > rs[k].id
  <2>1. CASE k \in DOMAIN a.refs
    <3>1. j \in DOMAIN a.refs
      <4>1. Len(a.refs) \in Nat /\ DOMAIN a.refs = 1..Len(a.refs) /\ Len(rs) \in Nat /\ DOMAIN rs = 1..Len(rs)
        BY <1>1, <1>8
      <4> QED BY <1>15, <2>1, <4>1
    <3>2. rs[j] = a.refs[j] /\ rs[k] = a.refs[k]
      BY <1>8, <2>1, <3>1
    <3> QED BY <1>1, <1>15, <2>1, <3>1, <3>2 DEF ListingFits
  <2>2. CASE k \notin DOMAIN a.refs
    <3> DEFINE v == k - Len(a.refs)
    <3>1. v \in 1..n /\ rs[k].id = all[v]
      BY <1>7, <1>8, <2>2
    <3>2. CASE j \in DOMAIN a.refs
      <4>1. rs[j].id = a.refs[j].id
        BY <1>8, <3>2
      <4> HIDE DEF v
      <4> QED BY <1>1, <1>13, <1>14, <3>1, <3>2, <4>1
    <3>3. CASE j \notin DOMAIN a.refs
      <4> DEFINE u == j - Len(a.refs)
      <4>1. u \in 1..n /\ rs[j].id = all[u]
        BY <1>7, <1>8, <3>3
      <4>2. u < v /\ u \in 1..Len(all) /\ v \in 1..Len(all)
        <5>1. Len(a.refs) \in Nat /\ Len(rs) \in Nat /\ DOMAIN rs = 1..Len(rs)
          BY <1>1, <1>8
        <5>2. j \in Int /\ k \in Int
          BY <5>1
        <5>3. u < v
          BY <1>15, <5>1, <5>2
        <5> HIDE DEF u, v
        <5> QED BY <1>3, <1>4, <3>1, <4>1, <5>3
      <4> HIDE DEF u, v
      <4> QED BY <1>3, <3>1, <4>1, <4>2
    <3> QED BY <3>2, <3>3
  <2> QED BY <2>1, <2>2
<1>16. ListingFits(b)
  <2>1. ASSUME st = "list", NEW k \in DOMAIN rs PROVE rs[k].id >= cu
    <3>1. more /\ cu = all[LibPage] /\ LibPage \in 1..n /\ n = LibPage /\ cu \in Nat
      BY <1>4, <1>9, <2>1
    <3>2. CASE k \in DOMAIN a.refs
      <4>1. rs[k].id = a.refs[k].id
        BY <1>8, <3>2
      <4> QED BY <1>1, <1>13, <1>14, <3>1, <3>2, <4>1
    <3>3. CASE k \notin DOMAIN a.refs
      <4> DEFINE v == k - Len(a.refs)
      <4>1. v \in 1..n /\ rs[k].id = all[v]
        BY <1>7, <1>8, <3>3
      <4> HIDE DEF v
      <4>2. v \in 1..Len(all) /\ LibPage \in 1..Len(all) /\ v <= LibPage
        BY <1>3, <1>4, <3>1, <4>1
      <4>3. all[v] \in Nat /\ (v # LibPage => all[v] > all[LibPage])
        BY <1>3, <1>14, <4>1, <4>2
      <4> QED BY <3>1, <4>1, <4>3
    <3> QED BY <3>2, <3>3
  <2>2. ASSUME st = "list", NEW d \in a.steady PROVE d \in Listed(b) \/ d < cu
    <3>1. more /\ cu = all[LibPage] /\ LibPage \in 1..n /\ n = LibPage
      BY <1>4, <1>9, <2>2
    <3>2. CASE d \in Listed(a)
      BY <1>11, <3>2
    <3>3. ASSUME NEW k \in 1..Len(all), d = all[k] PROVE d \in Listed(b) \/ d < cu
      <4>1. CASE k \in 1..n
        BY <1>11, <3>3, <4>1
      <4>2. CASE k \notin 1..n
        <5>1. LibPage \in 1..Len(all) /\ LibPage < k
          BY <1>3, <1>4, <3>1, <4>2
        <5>2. all[LibPage] > all[k] /\ all[LibPage] \in Nat /\ all[k] \in Nat
          BY <1>3, <5>1
        <5> QED BY <3>1, <3>3, <5>2
      <4> QED BY <4>1, <4>2
    <3> QED BY <1>12, <3>2, <3>3
  <2>3. st = "list" => cu # 0
    BY <1>9
  <2> QED BY <1>10, <1>15, <2>1, <2>2, <2>3 DEF ListingFits
<1>17. AskerFits(b, LibQueries[q], row)
  <2>1. Stands(b, row)
    BY <1>1, <1>10 DEF Stands
  <2>2. \A k \in DOMAIN b.refs : RefFits(row, b.refs[k])
    <3>1. ASSUME NEW k \in DOMAIN rs PROVE RefFits(row, rs[k])
      <4>1. CASE k \in DOMAIN a.refs
        BY <1>1, <1>8, <4>1 DEF AskerFits
      <4>2. CASE k \notin DOMAIN a.refs
        BY <1>7, <1>8, <4>2
      <4> QED BY <4>1, <4>2
    <3> QED BY <1>10, <3>1
  <2>3. \A i \in DOMAIN b.found : b.found[i].at = "keep" => RefFits(row, b.found[i].ref)
    BY <1>1, <1>10 DEF AskerFits
  <2>4. st = "listed" => a.steady \subseteq Listed(b)
    <3>1. ASSUME st = "listed" PROVE n = Len(all)
      BY <1>4, <1>9, <3>1
    <3> QED BY <1>11, <1>12, <3>1
  <2>5. st # "start" /\ st # "lookup" /\ st # "build"
    BY <1>9
  <2> QED BY <1>1, <1>9, <1>10, <1>16, <2>1, <2>2, <2>3, <2>4, <2>5 DEF AskerFits
<1>18. shelf[q] \in Seq(LibBook) /\ ShelfFits(shelf[q], b, row) /\ shelf = [shelf EXCEPT ![q] = shelf[q]]
  <2>1. b.step # "build" /\ asker[q].step # "build"
    BY <1>1, <1>9, <1>10
  <2> QED BY <2>1, EmptyShelf
<1> HIDE DEF a
<1> QED BY <1>2, <1>10, <1>17, <1>18, AskerMoves


\* LookUpRef keeps the invariant.
LEMMA LookUpStep ==
  ASSUME LibInv, NEW q \in libAsked, NEW i \in DOMAIN asker[q].found, LookUpRef(q, i)
  PROVE  LibInv'
<1> DEFINE a == asker[q]
           named == LibQueries[q]
           id == named[i]
           see == IF id \in ReadyDocs THEN [at |-> "keep", ref |-> Ref(id)] ELSE [at |-> "leave", ref |-> NoRef]
           fo == [a.found EXCEPT ![i] = see]
           b == [a EXCEPT !.found = fo]
<1>1. /\ a \in LibAsker /\ a.step = "lookup" /\ AskerFits(a, named, row) /\ LookupFits(a, named) /\ Stands(a, row)
      /\ a.found \in Seq(LibSeen) /\ DOMAIN a.found = DOMAIN named
  BY DEF LibInv, AskerFits, LookUpRef, LibAsker, LookupFits
<1>2. asker' = [asker EXCEPT ![q] = b] /\ UNCHANGED <<row, lib, libBytes, shelf>>
  BY DEF LookUpRef
<1>3. /\ see \in LibSeen /\ (see.at = "keep" => see.ref.id = id /\ RefFits(row, see.ref))
      /\ (see.at = "leave" => id \notin ReadyDocs)
  <2>1. CASE id \in ReadyDocs
    <3>1. Ref(id) \in LibRef /\ Ref(id).id = id /\ RefFits(row, Ref(id))
      BY <2>1, RefNow
    <3>2. see = [at |-> "keep", ref |-> Ref(id)]
      BY <2>1
    <3> HIDE DEF see
    <3> QED BY <3>1, <3>2 DEF LibSeen
  <2>2. CASE id \notin ReadyDocs
    <3>1. NoRef \in LibRef
      BY DEF NoRef, LibRef
    <3>2. see = [at |-> "leave", ref |-> NoRef]
      BY <2>2
    <3> HIDE DEF see
    <3> QED BY <2>2, <3>1, <3>2 DEF LibSeen
  <2> QED BY <2>1, <2>2
<1> HIDE DEF see
<1>4. fo \in Seq(LibSeen) /\ DOMAIN fo = DOMAIN a.found /\ fo[i] = see /\ \A j \in DOMAIN a.found : j # i => fo[j] = a.found[j]
  BY <1>1, <1>3
<1> HIDE DEF fo
<1>5. b \in LibAsker /\ b.found = fo /\ b.step = "lookup" /\ b.refs = a.refs /\ b.steady = a.steady /\ b.cursor = a.cursor
  <2> HIDE DEF a
  <2> QED BY <1>1, <1>4 DEF LibAsker
<1> HIDE DEF b
<1>6. LookupFits(b, named)
  <2>1. ASSUME NEW j \in DOMAIN named
        PROVE  (fo[j].at = "keep" => fo[j].ref.id = named[j]) /\ (fo[j].at = "leave" => named[j] \notin a.steady)
    <3>1. CASE j = i
      <4>1. fo[j] = see /\ named[j] = id
        BY <1>4, <3>1
      <4>2. a.steady \subseteq ReadyDocs
        BY <1>1 DEF Stands, ReadyDocs
      <4> QED BY <1>3, <4>1, <4>2
    <3>2. CASE j # i
      BY <1>1, <1>4, <3>2 DEF LookupFits
    <3> QED BY <3>1, <3>2
  <2> QED BY <1>1, <1>4, <1>5, <2>1 DEF LookupFits
<1>7. AskerFits(b, named, row)
  <2>1. Stands(b, row)
    BY <1>1, <1>5 DEF Stands
  <2>2. ASSUME NEW j \in DOMAIN fo, fo[j].at = "keep" PROVE RefFits(row, fo[j].ref)
    BY <1>1, <1>3, <1>4, <2>2 DEF AskerFits
  <2>3. named # <<>>
    BY <1>1 DEF AskerFits
  <2>4. \A k \in DOMAIN b.refs : RefFits(row, b.refs[k])
    BY <1>1, <1>5 DEF AskerFits
  <2> QED BY <1>5, <1>6, <2>1, <2>2, <2>3, <2>4 DEF AskerFits
<1>8. shelf[q] \in Seq(LibBook) /\ ShelfFits(shelf[q], b, row) /\ shelf = [shelf EXCEPT ![q] = shelf[q]]
  <2>1. b.step # "build" /\ asker[q].step # "build"
    BY <1>1, <1>5
  <2> QED BY <2>1, EmptyShelf
<1> HIDE DEF a
<1> QED BY <1>2, <1>5, <1>7, <1>8, AskerMoves

\* LookUpRefs keeps the invariant: the named documents that stayed ready are
\* among the ones kept.
LEMMA LookedUpStep ==
  ASSUME LibInv, NEW q \in libAsked, LookUpRefs(q)
  PROVE  LibInv'
<1> DEFINE a == asker[q]
           named == LibQueries[q]
           found == a.found
           K == {i \in DOMAIN found : found[i].at = "keep"}
           keep == Ascending(K)
           rs == [k \in DOMAIN keep |-> found[keep[k]].ref]
           b == [a EXCEPT !.refs = rs, !.found = <<>>, !.step = "listed"]
<1>1. /\ a \in LibAsker /\ a.step = "lookup" /\ AskerFits(a, named, row) /\ LookupFits(a, named) /\ Stands(a, row)
      /\ found \in Seq(LibSeen) /\ DOMAIN found = DOMAIN named /\ \A i \in DOMAIN found : found[i].at # "wait"
  BY DEF LibInv, AskerFits, LookUpRefs, LibAsker, LookupFits
<1>2. asker' = [asker EXCEPT ![q] = b] /\ UNCHANGED <<row, lib, libBytes, shelf>>
  BY DEF LookUpRefs
<1>3. Len(found) \in Nat /\ DOMAIN found = 1..Len(found)
  BY <1>1
<1>4. K \in SUBSET (1..Len(found)) /\ K \in SUBSET Nat /\ IsFiniteSet(K)
  <2>1. IsFiniteSet(1..Len(found)) /\ K \in SUBSET (1..Len(found))
    BY <1>3, PlacesAreFinite
  <2>2. IsFiniteSet(K)
    BY <2>1, PartsAreFinite
  <2> QED BY <1>3, <2>1, <2>2
<1>5. \A i \in K : i \in DOMAIN found /\ found[i].at = "keep"
  OBVIOUS
<1>6. \A i \in DOMAIN found : found[i].at = "keep" => i \in K
  OBVIOUS
<1> HIDE DEF K
<1>7. keep \in Seq(K) /\ \A x \in K : \E k \in DOMAIN keep : keep[k] = x
  BY <1>4, AscendingList
<1> HIDE DEF keep
<1>8. \A i \in K : found[i].ref \in LibRef /\ found[i].ref.id = named[i] /\ RefFits(row, found[i].ref)
  <2>1. \A i \in K : found[i] \in LibSeen
    BY <1>1, <1>5
  <2> QED BY <1>1, <1>5, <2>1 DEF AskerFits, LookupFits, LibSeen
<1>9. rs \in Seq(LibRef) /\ DOMAIN rs = DOMAIN keep /\ \A k \in DOMAIN keep : keep[k] \in K /\ rs[k] = found[keep[k]].ref
  <2>1. Len(keep) \in Nat /\ DOMAIN keep = 1..Len(keep) /\ \A k \in DOMAIN keep : keep[k] \in K
    BY <1>7
  <2>2. rs \in [1..Len(keep) -> LibRef]
    BY <1>8, <2>1
  <2>3. rs \in Seq(LibRef)
    <3> HIDE DEF rs
    <3> QED BY <2>1, <2>2
  <2> QED BY <2>1, <2>3
<1> HIDE DEF rs, found
<1>10. b \in LibAsker /\ b.refs = rs /\ b.found = <<>> /\ b.step = "listed" /\ b.steady = a.steady
  <2> HIDE DEF a
  <2>1. <<>> \in Seq(LibSeen)
    OBVIOUS
  <2> QED BY <1>1, <1>9, <2>1 DEF LibAsker
<1> HIDE DEF b
<1>11. \A k \in DOMAIN b.refs : RefFits(row, b.refs[k])
  BY <1>8, <1>9, <1>10
<1>12. a.steady \subseteq Listed(b)
  <2> SUFFICES ASSUME NEW d \in a.steady PROVE d \in Listed(b)
    OBVIOUS
  <2>1. PICK i \in DOMAIN named : d = named[i]
    BY <1>1 DEF LookupFits
  <2>2. found[i] \in LibSeen /\ found[i].at # "wait" /\ found[i].at # "leave"
    BY <1>1, <2>1 DEF LookupFits, found
  <2>3. i \in K
    BY <1>1, <1>6, <2>2 DEF LibSeen
  <2>4. PICK k \in DOMAIN keep : keep[k] = i
    BY <1>7, <2>3
  <2>5. k \in DOMAIN b.refs /\ b.refs[k].id = d
    BY <1>8, <1>9, <1>10, <2>1, <2>3, <2>4
  <2> QED BY <2>5 DEF Listed
<1>13. AskerFits(b, named, row)
  <2>1. Stands(b, row) /\ DOMAIN b.found = {}
    BY <1>1, <1>10 DEF Stands
  <2>2. named # <<>>
    BY <1>1 DEF AskerFits
  <2> QED BY <1>10, <1>11, <1>12, <2>1, <2>2 DEF AskerFits
<1>14. shelf[q] \in Seq(LibBook) /\ ShelfFits(shelf[q], b, row) /\ shelf = [shelf EXCEPT ![q] = shelf[q]]
  <2>1. b.step # "build" /\ asker[q].step # "build"
    BY <1>1, <1>10
  <2> QED BY <2>1, EmptyShelf
<1> HIDE DEF a
<1> QED BY <1>2, <1>10, <1>13, <1>14, AskerMoves

\* A listing that fails keeps the invariant.
LEMMA RefsFailStep ==
  ASSUME LibInv, NEW q \in libAsked, RefsFail(q)
  PROVE  LibInv'
<1> DEFINE a == asker[q]
           b == [a EXCEPT !.step = "failed", !.found = <<>>, !.refs = <<>>]
<1>1. a \in LibAsker /\ a.step \in {"list", "lookup"} /\ AskerFits(a, LibQueries[q], row)
  BY DEF LibInv, RefsFail
<1>2. asker' = [asker EXCEPT ![q] = b] /\ UNCHANGED <<row, lib, libBytes, shelf>>
  BY DEF RefsFail
<1>3. b \in LibAsker /\ b.refs = <<>> /\ b.found = <<>> /\ b.step = "failed" /\ b.steady = a.steady
  <2> HIDE DEF a
  <2>1. <<>> \in Seq(LibSeen) /\ <<>> \in Seq(LibRef)
    OBVIOUS
  <2> QED BY <1>1, <2>1 DEF LibAsker
<1> HIDE DEF b
<1>4. DOMAIN b.refs = {} /\ DOMAIN b.found = {} /\ Stands(b, row)
  BY <1>1, <1>3 DEF AskerFits, Stands
<1>5. ListingFits(b)
  BY <1>3, <1>4 DEF ListingFits
<1>6. AskerFits(b, LibQueries[q], row)
  BY <1>3, <1>4, <1>5 DEF AskerFits
<1>7. shelf[q] \in Seq(LibBook) /\ ShelfFits(shelf[q], b, row) /\ shelf = [shelf EXCEPT ![q] = shelf[q]]
  <2>1. b.step # "build" /\ asker[q].step # "build"
    BY <1>1, <1>3
  <2> QED BY <2>1, EmptyShelf
<1> HIDE DEF a
<1> QED BY <1>2, <1>3, <1>6, <1>7, AskerMoves

\* Docs keeps the invariant: a place on the shelf per ref.
LEMMA DocsStep ==
  ASSUME LibInv, NEW q \in libAsked, Docs(q)
  PROVE  LibInv'
<1> DEFINE a == asker[q]
           b == [a EXCEPT !.step = "build"]
           s == [i \in DOMAIN a.refs |-> [at |-> "wait", toc |-> 0, pages |-> 0]]
<1>1. a \in LibAsker /\ a.step = "listed" /\ AskerFits(a, LibQueries[q], row) /\ a.refs \in Seq(LibRef)
  BY DEF LibInv, Docs, LibAsker
<1>2. asker' = [asker EXCEPT ![q] = b] /\ shelf' = [shelf EXCEPT ![q] = s] /\ UNCHANGED <<row, lib, libBytes>>
  BY DEF Docs
<1>3. /\ b \in LibAsker /\ b.refs = a.refs /\ b.found = a.found /\ b.step = "build" /\ b.steady = a.steady
      /\ b.cursor = a.cursor
  <2> HIDE DEF a
  <2> QED BY <1>1 DEF LibAsker
<1>4. s \in Seq(LibBook) /\ DOMAIN s = DOMAIN a.refs /\ \A i \in DOMAIN s : s[i].at = "wait"
  <2>1. Len(a.refs) \in Nat /\ DOMAIN a.refs = 1..Len(a.refs)
    BY <1>1
  <2>2. [at |-> "wait", toc |-> 0, pages |-> 0] \in LibBook
    BY DEF LibBook
  <2>3. s \in [1..Len(a.refs) -> LibBook]
    BY <2>1, <2>2
  <2>4. s \in Seq(LibBook)
    <3> HIDE DEF s
    <3> QED BY <2>1, <2>3
  <2> QED BY <2>4
<1> HIDE DEF b, s
<1>5. Listed(b) = Listed(a) /\ Stands(b, row)
  BY <1>1, <1>3 DEF Listed, Stands, AskerFits
<1>6. AskerFits(b, LibQueries[q], row)
  <2>1. LibQueries[q] = <<>> => ListingFits(b)
    BY <1>1, <1>3 DEF AskerFits, ListingFits
  <2> QED BY <1>1, <1>3, <1>5, <2>1 DEF AskerFits
<1>7. ShelfFits(s, b, row)
  BY <1>3, <1>4 DEF ShelfFits
<1> HIDE DEF a
<1> QED BY <1>2, <1>3, <1>4, <1>6, <1>7, AskerMoves


-----------------------------------------------------------------------------
(***************************************************************************)
(* The library.                                                            *)
(***************************************************************************)
\* What is known of a place on a query's shelf.
LEMMA OnShelf ==
  ASSUME LibInv, NEW q \in libAsked, NEW i \in DOMAIN shelf[q]
  PROVE  /\ asker[q].step = "build" /\ i \in DOMAIN asker[q].refs /\ asker[q].refs[i] \in LibRef
         /\ RefFits(row, asker[q].refs[i]) /\ shelf[q] \in Seq(LibBook) /\ shelf[q][i] \in LibBook
         /\ shelf[q][i].at \in {"store", "done"} =>
              BuiltFits(row, asker[q].refs[i].id, asker[q].refs[i].updated, shelf[q][i].toc, shelf[q][i].pages)
<1>1. ShelfFits(shelf[q], asker[q], row) /\ AskerFits(asker[q], LibQueries[q], row) /\ shelf[q] \in Seq(LibBook)
  BY DEF LibInv
<1>2. asker[q].step = "build"
  <2>1. shelf[q] # <<>>
    OBVIOUS
  <2> QED BY <1>1, <2>1 DEF ShelfFits
<1>3. asker[q].refs \in Seq(LibRef) /\ i \in DOMAIN asker[q].refs
  BY <1>1, <1>2 DEF ShelfFits, LibInv, LibAsker
<1>4. asker[q].refs[i] \in LibRef
  BY <1>3
<1>5. shelf[q][i] \in LibBook
  BY <1>1
<1> QED BY <1>1, <1>2, <1>3, <1>4, <1>5 DEF ShelfFits, AskerFits

\* A document put on a shelf, and the library as it then is.
LEMMA BookPut ==
  ASSUME LibInv, NEW q \in libAsked, NEW i \in DOMAIN shelf[q], NEW book \in LibBook, Put(q, i, book),
         book.at \in {"store", "done"} =>
           BuiltFits(row, asker[q].refs[i].id, asker[q].refs[i].updated, book.toc, book.pages),
         LibFits(lib', libBytes', row), UNCHANGED <<row, asker>>
  PROVE  LibInv'
<1> DEFINE s == [shelf[q] EXCEPT ![i] = book]
<1>1. shelf \in [libAsked -> Seq(LibBook)] /\ shelf[q] \in Seq(LibBook) /\ ShelfFits(shelf[q], asker[q], row)
  BY DEF LibInv
<1>2. shelf' = [shelf EXCEPT ![q] = s]
  BY DEF Put
<1>3. s \in Seq(LibBook) /\ DOMAIN s = DOMAIN shelf[q] /\ s[i] = book /\ \A j \in DOMAIN shelf[q] : j # i => s[j] = shelf[q][j]
  BY <1>1
<1> HIDE DEF s
<1>4. ShelfFits(s, asker[q], row)
  <2>1. asker[q].step = "build"
    BY OnShelf
  <2> QED BY <1>1, <1>3, <2>1 DEF ShelfFits
<1>5. shelf' \in [libAsked -> Seq(LibBook)]
  BY <1>1, <1>2, <1>3
<1>6. ASSUME NEW x \in libAsked PROVE ShelfFits(shelf'[x], asker[x], row)
  <2>1. CASE x = q
    BY <1>1, <1>2, <1>4, <2>1
  <2>2. CASE x # q
    <3>1. shelf'[x] = shelf[x]
      BY <1>1, <1>2, <2>2
    <3> QED BY <3>1 DEF LibInv
  <2> QED BY <2>1, <2>2
<1>7. LibFits(lib', libBytes', row') /\ \A x \in libAsked : ShelfFits(shelf'[x], asker'[x], row')
  BY <1>6
<1>8. RowsFit(row') /\ asker' \in [libAsked -> LibAsker] /\ \A x \in libAsked : AskerFits(asker'[x], LibQueries[x], row')
  BY DEF LibInv
<1> QED BY <1>5, <1>7, <1>8 DEF LibInv

\* The entry of a document that is held.
LEMMA HeldPlace ==
  ASSUME LibFits(lib, libBytes, row), NEW d, Held(d) # {}
  PROVE  Place(d) \in 1..Len(lib) /\ lib[Place(d)].id = d /\ lib[Place(d)] \in LibEntry
<1>1. Place(d) \in Held(d)
  BY Zenon DEF Place
<1>2. Place(d) \in DOMAIN lib /\ lib[Place(d)].id = d /\ lib \in Seq(LibEntry)
  BY <1>1 DEF Held, LibFits
<1> QED BY <1>2

\* The library without a document.
LEMMA WithoutFits ==
  ASSUME LibFits(lib, libBytes, row), NEW d
  PROVE  /\ Without(d) \in Seq(LibEntry) /\ EntriesFit(Without(d), row)
         /\ \A k \in DOMAIN Without(d) : Without(d)[k].id # d
         /\ Bytes(Without(d))[Len(Without(d))] = libBytes - (IF Held(d) = {} THEN 0 ELSE lib[Place(d)].size)
         /\ Bytes(Without(d))[Len(Without(d))] \in Int
<1> DEFINE w == Without(d)
<1>1. lib \in Seq(LibEntry) /\ EntriesFit(lib, row) /\ libBytes = Bytes(lib)[Len(lib)]
  BY DEF LibFits
<1>2. libBytes \in Int
  BY <1>1, BytesCount
<1>3. CASE Held(d) = {}
  <2>1. w = lib
    BY <1>3 DEF Without
  <2>2. \A k \in DOMAIN lib : lib[k].id # d
    BY <1>3 DEF Held
  <2> QED BY <1>1, <1>2, <1>3, <2>1, <2>2
<1>4. CASE Held(d) # {}
  <2> DEFINE p == Place(d)
             from(k) == IF k < p THEN k ELSE k + 1
  <2>1. p \in 1..Len(lib) /\ lib[p].id = d /\ lib[p] \in LibEntry
    BY <1>4, HeldPlace
  <2>2. w = RemoveAt(lib, p)
    BY <1>4 DEF Without
  <2> HIDE DEF w, p
  <2>3. /\ w \in Seq(LibEntry) /\ Len(w) = Len(lib) - 1
        /\ \A k \in 1..(Len(lib) - 1) : w[k] = IF k < p THEN lib[k] ELSE lib[k + 1]
        /\ Bytes(w)[Len(w)] = libBytes - lib[p].size
    BY <1>1, <2>1, <2>2, RemovedBytes
  <2>4. Len(lib) \in Nat /\ DOMAIN lib = 1..Len(lib) /\ DOMAIN w = 1..(Len(lib) - 1)
    BY <1>1, <2>3
  <2>5. ASSUME NEW k \in DOMAIN w PROVE from(k) \in DOMAIN lib /\ from(k) # p /\ w[k] = lib[from(k)]
    BY <2>1, <2>3, <2>4
  <2>6. \A j, k \in DOMAIN w : from(j) = from(k) => j = k
    BY <2>1, <2>4
  <2> HIDE DEF from
  <2>7. \A k \in DOMAIN w : w[k].id # d
    BY <1>1, <2>1, <2>4, <2>5 DEF EntriesFit
  <2>8. EntriesFit(w, row)
    BY <1>1, <2>5, <2>6 DEF EntriesFit
  <2>9. lib[p].size \in Int
    BY <2>1 DEF LibEntry
  <2> QED BY <1>2, <1>4, <2>3, <2>7, <2>8, <2>9 DEF w, p
<1> QED BY <1>3, <1>4

\* An entry in front of a list that does not hold its document.
LEMMA FrontFits ==
  ASSUME NEW w \in Seq(LibEntry), EntriesFit(w, row), NEW e \in LibEntry,
         BuiltFits(row, e.id, e.updated, e.toc, e.pages), \A k \in DOMAIN w : w[k].id # e.id
  PROVE  <<e>> \o w \in Seq(LibEntry) /\ EntriesFit(<<e>> \o w, row)
<1> DEFINE all == <<e>> \o w
<1>1. /\ all \in Seq(LibEntry) /\ Len(w) \in Nat /\ DOMAIN w = 1..Len(w) /\ DOMAIN all = 1..(Len(w) + 1)
      /\ all[1] = e /\ \A k \in 2..(Len(w) + 1) : all[k] = w[k - 1]
  OBVIOUS
<1> HIDE DEF all
<1>2. ASSUME NEW k \in DOMAIN all
      PROVE  k \in Int /\ (k = 1 \/ (k - 1 \in DOMAIN w /\ all[k] = w[k - 1]))
  BY <1>1
<1>3. \A k \in DOMAIN all : BuiltFits(row, all[k].id, all[k].updated, all[k].toc, all[k].pages)
  BY <1>1, <1>2 DEF EntriesFit
<1>4. ASSUME NEW j \in DOMAIN all, NEW k \in DOMAIN all, all[j].id = all[k].id PROVE j = k
  <2>1. CASE j = 1 /\ k = 1
    BY <2>1
  <2>2. CASE j = 1 /\ k # 1
    BY <1>1, <1>2, <1>4, <2>2
  <2>3. CASE j # 1 /\ k = 1
    BY <1>1, <1>2, <1>4, <2>3
  <2>4. CASE j # 1 /\ k # 1
    <3>1. j - 1 = k - 1
      BY <1>2, <1>4, <2>4 DEF EntriesFit
    <3> QED BY <1>2, <3>1
  <2> QED BY <2>1, <2>2, <2>3, <2>4
<1>5. EntriesFit(all, row)
  BY <1>3, <1>4 DEF EntriesFit
<1> QED BY <1>1, <1>5 DEF all


\* cached keeps the invariant.
LEMMA CachedStep ==
  ASSUME LibInv, NEW q \in libAsked, NEW i \in DOMAIN shelf[q], cached(q, i)
  PROVE  LibInv'
<1> DEFINE ref == asker[q].refs[i]
           e == lib[Place(ref.id)]
           w == Without(ref.id)
           goes == [shelf[q][i] EXCEPT !.at = "build"]
           comes == [at |-> "done", toc |-> e.toc, pages |-> e.pages]
<1>1. LibFits(lib, libBytes, row) /\ shelf[q][i] \in LibBook
  BY OnShelf DEF LibInv
<1>2. goes \in LibBook /\ goes.at = "build"
  BY <1>1 DEF LibBook
<1>3. UNCHANGED <<row, asker>>
  BY DEF cached
<1> HIDE DEF goes
<1>4. CASE Held(ref.id) = {}
  <2>1. lib' = lib /\ libBytes' = libBytes /\ Put(q, i, goes)
    BY <1>4 DEF cached, goes
  <2>2. LibFits(lib', libBytes', row)
    BY <1>1, <2>1
  <2> QED BY <1>2, <1>3, <2>1, <2>2, BookPut
<1>5. CASE Held(ref.id) # {}
  <2>1. e \in LibEntry /\ e.id = ref.id /\ Place(ref.id) \in DOMAIN lib /\ lib \in Seq(LibEntry)
    BY <1>1, <1>5, HeldPlace DEF LibFits
  <2>2. e.size \in Nat /\ e.toc \in Nat /\ e.pages \in Nat
    BY <2>1 DEF LibEntry
  <2>3. BuiltFits(row, e.id, e.updated, e.toc, e.pages)
    BY <1>1, <2>1 DEF LibFits, EntriesFit
  <2>4. /\ w \in Seq(LibEntry) /\ EntriesFit(w, row) /\ \A k \in DOMAIN w : w[k].id # ref.id
        /\ Bytes(w)[Len(w)] = libBytes - e.size /\ Bytes(w)[Len(w)] \in Int
    BY <1>1, <1>5, WithoutFits
  <2>5. libBytes \in Int /\ libBytes <= LibLimit /\ LibLimit \in Int
    BY <1>1, BytesCount, LibraryAssumption DEF LibFits
  <2>6. CASE Outdated(e, ref)
    <3>1. lib' = w /\ libBytes' = libBytes - e.size /\ Put(q, i, goes)
      BY <1>5, <2>6 DEF cached, goes
    <3> HIDE DEF w, e
    <3>2. LibFits(lib', libBytes', row)
      BY <2>2, <2>4, <2>5, <3>1 DEF LibFits
    <3> QED BY <1>2, <1>3, <3>1, <3>2, BookPut
  <2>7. CASE ~Outdated(e, ref)
    <3>1. lib' = <<e>> \o w /\ libBytes' = libBytes /\ Put(q, i, comes)
      BY <1>5, <2>7 DEF cached
    <3>2. comes \in LibBook /\ comes.toc = e.toc /\ comes.pages = e.pages
      BY <2>2 DEF LibBook
    <3>3. e.updated = ref.updated
      BY <2>7 DEF Outdated
    <3> HIDE DEF w, e, comes
    <3>4. <<e>> \o w \in Seq(LibEntry) /\ EntriesFit(<<e>> \o w, row)
      BY <2>1, <2>3, <2>4, FrontFits
    <3>5. Bytes(<<e>> \o w)[Len(<<e>> \o w)] = libBytes
      <4>1. Bytes(<<e>> \o w)[Len(<<e>> \o w)] = e.size + Bytes(w)[Len(w)]
        BY <2>1, <2>4, FrontBytes
      <4> QED BY <2>2, <2>4, <2>5, <4>1
    <3>6. LibFits(lib', libBytes', row)
      BY <2>5, <3>1, <3>4, <3>5 DEF LibFits
    <3>7. BuiltFits(row, ref.id, ref.updated, comes.toc, comes.pages)
      BY <2>1, <2>3, <3>2, <3>3
    <3> QED BY <1>3, <3>1, <3>2, <3>6, <3>7, BookPut
  <2> QED BY <2>6, <2>7
<1> QED BY <1>4, <1>5

\* build keeps the invariant: the pages read now go with the contents listed
\* unless the document has changed since.
LEMMA BuildStep ==
  ASSUME LibInv, NEW q \in libAsked, NEW i \in DOMAIN shelf[q], libBuild(q, i)
  PROVE  LibInv'
<1> DEFINE ref == asker[q].refs[i]
           book == [at |-> "store", toc |-> ref.toc, pages |-> row[ref.id].pages]
<1>1. ref \in LibRef /\ RefFits(row, ref)
  BY OnShelf
<1>2. ref.id \in DOMAIN row /\ RowsFit(row)
  BY <1>1 DEF RefFits, LibInv
<1>3. row[ref.id].pages \in Nat /\ ref.toc \in Nat
  BY <1>1, <1>2, RowParts DEF LibRef
<1>4. book \in LibBook /\ book.toc = ref.toc /\ book.pages = row[ref.id].pages
  BY <1>3 DEF LibBook
<1>5. Put(q, i, book) /\ UNCHANGED <<row, asker, lib, libBytes>>
  BY DEF libBuild
<1> HIDE DEF book
<1>6. BuiltFits(row, ref.id, ref.updated, book.toc, book.pages)
  BY <1>1, <1>4 DEF RefFits, BuiltFits
<1>7. LibFits(lib', libBytes', row)
  BY <1>5 DEF LibInv
<1> QED BY <1>4, <1>5, <1>6, <1>7, BookPut

\* A build that fails keeps the invariant.
LEMMA BuildFailsStep ==
  ASSUME LibInv, NEW q \in libAsked, NEW i \in DOMAIN shelf[q], BuildFails(q, i)
  PROVE  LibInv'
<1> DEFINE book == [shelf[q][i] EXCEPT !.at = "failed"]
<1>1. book \in LibBook /\ book.at = "failed"
  BY OnShelf DEF LibBook
<1>2. Put(q, i, book) /\ UNCHANGED <<row, asker, lib, libBytes>>
  BY DEF BuildFails
<1> HIDE DEF book
<1>3. LibFits(lib', libBytes', row)
  BY <1>2 DEF LibInv
<1> QED BY <1>1, <1>2, <1>3, BookPut

\* A prefix that is within the limit is a library.
LEMMA KeptFits ==
  ASSUME NEW all \in Seq(LibEntry), EntriesFit(all, row), NEW n \in 0..Len(all), n = 0 \/ Bytes(all)[n] <= LibLimit
  PROVE  LibFits(SubSeq(all, 1, n), Bytes(all)[n], row)
<1> DEFINE s == SubSeq(all, 1, n)
<1>1. /\ s \in Seq(LibEntry) /\ Len(s) = n /\ \A k \in 1..n : s[k] = all[k]
      /\ Bytes(s)[n] = Bytes(all)[n]
  BY PrefixBytes
<1>2. CountsBytes(Bytes(all), all) /\ Len(all) \in Nat /\ LibLimit \in Nat
  BY BytesCount, LibraryAssumption
<1> HIDE DEF s
<1>3. \A k \in DOMAIN s : k \in DOMAIN all /\ s[k] = all[k]
  <2>1. DOMAIN s = 1..n /\ DOMAIN all = 1..Len(all)
    BY <1>1
  <2> QED BY <1>1, <1>2, <2>1
<1>4. EntriesFit(s, row)
  BY <1>3 DEF EntriesFit
<1>5. Bytes(all)[n] <= LibLimit
  <2>1. Bytes(all)[0] = 0
    BY <1>2 DEF CountsBytes
  <2> QED BY <1>2, <2>1
<1> QED BY <1>1, <1>4, <1>5 DEF LibFits, s

\* What eviction keeps: as much as fits, by the count of the bytes.
LEMMA Evicts ==
  ASSUME NEW all \in Seq(LibEntry), EntriesFit(all, row), NEW held \in Int, held = Bytes(all)[Len(all)],
         NEW kept, kept = CHOOSE n \in 0..Len(all) :
           /\ n = 0 \/ held - (Bytes(all)[Len(all)] - Bytes(all)[n]) <= LibLimit
           /\ \A m \in (n + 1)..Len(all) : held - (Bytes(all)[Len(all)] - Bytes(all)[m]) > LibLimit
  PROVE  LibFits(SubSeq(all, 1, kept), held - (Bytes(all)[Len(all)] - Bytes(all)[kept]), row)
<1> DEFINE B == Bytes(all)
           left(n) == held - (B[Len(all)] - B[n])
           Beyond(n) == \A m \in (n + 1)..Len(all) : left(m) > LibLimit
           T == {n \in 0..Len(all) : Beyond(n)}
<1>1. CountsBytes(B, all) /\ Len(all) \in Nat /\ LibLimit \in Nat
  BY BytesCount, LibraryAssumption
<1>2. \A n \in 0..Len(all) : B[n] \in Int /\ left(n) = B[n]
  <2>1. \A n \in 0..Len(all) : B[n] \in Int
    BY <1>1 DEF CountsBytes
  <2>2. B[Len(all)] = held
    OBVIOUS
  <2> HIDE DEF B
  <2> QED BY <2>1, <2>2
<1>3. \E n \in 0..Len(all) : (n = 0 \/ left(n) <= LibLimit) /\ Beyond(n)
  <2>1. Len(all) \in T /\ T \in SUBSET Nat
    BY <1>1
  <2>2. PICK n \in T : \A m \in T : n <= m
    <3> HIDE DEF T
    <3> QED BY <2>1, LeastNatural
  <2>3. n \in 0..Len(all) /\ Beyond(n)
    BY <2>2
  <2>4. ASSUME n # 0, ~(left(n) <= LibLimit) PROVE FALSE
    <3>1. n - 1 \in 0..Len(all) /\ ~(n <= n - 1) /\ (n - 1) + 1 = n
      BY <1>1, <2>3, <2>4
    <3>2. left(n) \in Int /\ left(n) > LibLimit
      <4> HIDE DEF left
      <4>1. left(n) \in Int
        BY <1>2, <2>3
      <4> QED BY <1>1, <2>4, <4>1
    <3> HIDE DEF left
    <3>3. Beyond(n - 1)
      <4> SUFFICES ASSUME NEW m \in n..Len(all) PROVE left(m) > LibLimit
        BY <3>1
      <4>1. m = n \/ m \in (n + 1)..Len(all)
        BY <1>1, <2>3
      <4> QED BY <2>3, <3>2, <4>1
    <3> QED BY <2>2, <3>1, <3>3
  <2> QED BY <2>3, <2>4
<1>4. kept = CHOOSE n \in 0..Len(all) : (n = 0 \/ left(n) <= LibLimit) /\ Beyond(n)
  OBVIOUS
<1>5. kept \in 0..Len(all) /\ (kept = 0 \/ left(kept) <= LibLimit)
  <2> HIDE DEF left, Beyond
  <2> QED BY <1>3, <1>4, Zenon
<1>6. left(kept) = B[kept]
  BY <1>2, <1>5
<1>7. LibFits(SubSeq(all, 1, kept), B[kept], row)
  <2> HIDE DEF left
  <2>1. kept = 0 \/ B[kept] <= LibLimit
    BY <1>5, <1>6
  <2> QED BY <1>5, <2>1, KeptFits
<1> QED BY <1>6, <1>7

\* store keeps the invariant.
LEMMA StoreStep ==
  ASSUME LibInv, NEW q \in libAsked, NEW i \in DOMAIN shelf[q], store(q, i)
  PROVE  LibInv'
<1> DEFINE ref == asker[q].refs[i]
           e == [id |-> ref.id, updated |-> ref.updated, toc |-> shelf[q][i].toc,
                 pages |-> shelf[q][i].pages, size |-> LibSize[ref.id]]
           w == Without(ref.id)
           all == <<e>> \o w
           old == IF Held(ref.id) = {} THEN 0 ELSE lib[Place(ref.id)].size
           held == libBytes - old + e.size
           left(n) == held - (Bytes(all)[Len(all)] - Bytes(all)[n])
           kept == CHOOSE n \in 0..Len(all) :
                     /\ n = 0 \/ left(n) <= LibLimit
                     /\ \A m \in (n + 1)..Len(all) : left(m) > LibLimit
           book == [shelf[q][i] EXCEPT !.at = "done"]
<1>1. /\ LibFits(lib, libBytes, row) /\ shelf[q][i] \in LibBook /\ ref \in LibRef /\ ref.id \in DOMAIN row
      /\ BuiltFits(row, ref.id, ref.updated, shelf[q][i].toc, shelf[q][i].pages)
  BY OnShelf DEF LibInv, store, RefFits
<1>2. book \in LibBook /\ book.toc = shelf[q][i].toc /\ book.pages = shelf[q][i].pages
  BY <1>1 DEF LibBook
<1>3. Put(q, i, book) /\ UNCHANGED <<row, asker>>
  BY DEF store
<1> HIDE DEF book
<1>4. LibFits(lib', libBytes', row)
  <2>1. CASE e.size > LibLimit
    <3>1. lib' = lib /\ libBytes' = libBytes
      BY <2>1 DEF store
    <3> QED BY <1>1, <3>1
  <2>2. CASE ~(e.size > LibLimit)
    <3>1. lib' = SubSeq(all, 1, kept) /\ libBytes' = left(kept)
      BY <2>2 DEF store
    <3>2. LibSize[ref.id] \in Nat
      <4>1. ref.id \in LibDocs
        BY <1>1 DEF LibInv, RowsFit
      <4> QED BY <4>1, LibraryAssumption
    <3>3. e \in LibEntry /\ e.id = ref.id /\ BuiltFits(row, e.id, e.updated, e.toc, e.pages) /\ e.size \in Nat
      BY <1>1, <3>2 DEF LibEntry, LibRef, LibBook
    <3>4. /\ w \in Seq(LibEntry) /\ EntriesFit(w, row) /\ \A k \in DOMAIN w : w[k].id # ref.id
          /\ Bytes(w)[Len(w)] = libBytes - old /\ Bytes(w)[Len(w)] \in Int
      BY <1>1, WithoutFits
    <3> HIDE DEF e, w, old
    <3>5. all \in Seq(LibEntry) /\ EntriesFit(all, row)
      BY <3>3, <3>4, FrontFits
    <3>6. Bytes(all)[Len(all)] = held /\ held \in Int
      <4>1. Bytes(all)[Len(all)] = e.size + Bytes(w)[Len(w)]
        BY <3>3, <3>4, FrontBytes
      <4>2. Bytes(all)[Len(all)] \in Int
        BY <3>5, BytesCount
      <4> QED BY <3>3, <3>4, <4>1, <4>2
    <3> HIDE DEF all, held
    <3>7. LibFits(SubSeq(all, 1, kept), left(kept), row)
      BY <3>5, <3>6, Evicts
    <3> QED BY <3>1, <3>7
  <2> QED BY <2>1, <2>2
<1>5. BuiltFits(row, ref.id, ref.updated, book.toc, book.pages)
  BY <1>1, <1>2
<1> QED BY <1>2, <1>3, <1>4, <1>5, BookPut

-----------------------------------------------------------------------------
\* A library begins empty.
LEMMA LibraryStart == LibInit => LibInv
<1> SUFFICES ASSUME LibInit PROVE LibInv
  OBVIOUS
<1>1. RowsFit(row)
  <2> DEFINE n == NewRow(<<>>)
  <2>1. n \in LibRow /\ n.pages \in DOMAIN n.runs
    BY DEF NewRow, LibRow
  <2>2. row = [d \in LibFirst |-> n]
    BY DEF LibInit
  <2> HIDE DEF n
  <2> QED BY <2>1, <2>2, LibraryAssumption DEF RowsFit
<1>2. LibFits(lib, libBytes, row)
  <2>1. lib = <<>> /\ libBytes = 0 /\ lib \in Seq(LibEntry) /\ Len(lib) = 0 /\ DOMAIN lib = {}
    BY DEF LibInit
  <2>2. CountsBytes(Bytes(lib), lib)
    BY <2>1, BytesCount
  <2>3. Bytes(lib)[0] = 0
    BY <2>2 DEF CountsBytes
  <2> QED BY <2>1, <2>3, LibraryAssumption DEF LibFits, EntriesFit
<1> DEFINE a == [step |-> "start", cursor |-> 0, found |-> <<>>, refs |-> <<>>, steady |-> {}]
<1>3. a \in LibAsker /\ a.step = "start" /\ a.refs = <<>> /\ a.found = <<>> /\ a.steady = {} /\ a.cursor = 0
  BY DEF LibAsker
<1>4. asker = [q \in libAsked |-> a] /\ shelf = [q \in libAsked |-> <<>>]
  BY DEF LibInit
<1> HIDE DEF a
<1>5. DOMAIN a.refs = {} /\ DOMAIN a.found = {}
  BY <1>3
<1>6. ListingFits(a) /\ Stands(a, row)
  BY <1>3, <1>5 DEF ListingFits, Stands
<1>7. \A q \in libAsked : AskerFits(a, LibQueries[q], row)
  BY <1>3, <1>5, <1>6 DEF AskerFits
<1>8. ShelfFits(<<>>, a, row)
  BY <1>3 DEF ShelfFits
<1>9. asker \in [libAsked -> LibAsker] /\ shelf \in [libAsked -> Seq(LibBook)]
  BY <1>3, <1>4
<1> QED BY <1>1, <1>2, <1>4, <1>7, <1>8, <1>9 DEF LibInv

\* Every step of the collection, its library and its queries keeps the
\* invariant.
LEMMA LibraryStep == LibInv /\ [LibNext]_libVars => LibInv'
<1> SUFFICES ASSUME LibInv, [LibNext]_libVars PROVE LibInv'
  OBVIOUS
<1>1. CASE UNCHANGED libVars
  BY <1>1 DEF libVars, LibInv
<1>2. CASE LibChange \/ \E d \in LibDocs : CreateDocument(d)
  BY <1>2, RowsStep
<1>3. CASE LibStep
  <2>1. PICK q \in libAsked :
          \/ refs(q) \/ ListDocuments(q) \/ LookUpRefs(q) \/ RefsFail(q) \/ Docs(q)
          \/ \E i \in DOMAIN asker[q].found : LookUpRef(q, i)
          \/ \E i \in DOMAIN shelf[q] : cached(q, i) \/ libBuild(q, i) \/ BuildFails(q, i) \/ store(q, i)
    BY <1>3, Zenon DEF LibStep
  <2> QED BY <2>1, RefsStep, ListStep, LookedUpStep, RefsFailStep, DocsStep, LookUpStep,
             CachedStep, BuildStep, BuildFailsStep, StoreStep
<1> QED BY <1>1, <1>2, <1>3 DEF LibNext

\* What the invariant says of a library.
LEMMA LibInvIsSound == LibInv => LibrarySound
<1> SUFFICES ASSUME LibInv PROVE LibrarySound
  OBVIOUS
<1>1. LibraryServesCurrent
  <2>1. ASSUME NEW d, NEW updated, NEW book, BuiltFits(row, d, updated, book.toc, book.pages)
        PROVE  Current(d, updated, book)
    BY <2>1 DEF BuiltFits, Current, Replacing
  <2>2. ASSUME NEW q \in libAsked, NEW i \in DOMAIN shelf[q], shelf[q][i].at = "done"
        PROVE  Current(asker[q].refs[i].id, asker[q].refs[i].updated, shelf[q][i])
    <3>1. BuiltFits(row, asker[q].refs[i].id, asker[q].refs[i].updated, shelf[q][i].toc, shelf[q][i].pages)
      BY <2>2, OnShelf
    <3> QED BY <2>1, <3>1
  <2>3. ASSUME NEW k \in DOMAIN lib PROVE Current(lib[k].id, lib[k].updated, lib[k])
    BY <2>1 DEF LibInv, LibFits, EntriesFit
  <2> QED BY <2>2, <2>3 DEF LibraryServesCurrent
<1>2. LibraryWithinLimit
  BY DEF LibInv, LibFits, EntriesFit, LibraryWithinLimit
<1>3. ListingIsComplete
  <2> SUFFICES ASSUME NEW q \in libAsked, asker[q].step \in {"listed", "build"}
               PROVE  /\ asker[q].steady \subseteq Listed(asker[q])
                      /\ LibQueries[q] = <<>> =>
                           \A j, k \in DOMAIN asker[q].refs : asker[q].refs[j].id = asker[q].refs[k].id => j = k
    BY DEF ListingIsComplete, Listed
  <2>1. AskerFits(asker[q], LibQueries[q], row) /\ asker[q].refs \in Seq(LibRef)
    BY DEF LibInv, LibAsker
  <2>2. asker[q].steady \subseteq Listed(asker[q])
    BY <2>1 DEF AskerFits
  <2>3. ASSUME LibQueries[q] = <<>>, NEW j \in DOMAIN asker[q].refs, NEW k \in DOMAIN asker[q].refs,
               asker[q].refs[j].id = asker[q].refs[k].id
        PROVE  j = k
    <3>1. (j < k => asker[q].refs[j].id > asker[q].refs[k].id) /\ (k < j => asker[q].refs[k].id > asker[q].refs[j].id)
      BY <2>1, <2>3 DEF AskerFits, ListingFits
    <3>2. asker[q].refs[j] \in LibRef /\ j \in Int /\ k \in Int
      BY <2>1
    <3>3. asker[q].refs[j].id \in Nat
      BY <3>2 DEF LibRef
    <3> QED BY <2>3, <3>1, <3>2, <3>3
  <2> QED BY <2>2, <2>3
<1> QED BY <1>1, <1>2, <1>3 DEF LibrarySound

\* What a corpus query reads of the collection: every document that stayed
\* ready, with the contents and the pages it has, out of a library within its
\* bytes.
THEOREM ServedLibrary == ServingSpec => []LibrarySound
<1>1. ServingInit => LibInv
  BY PartsStart, LibraryStart
<1>2. LibInv /\ [ServingNext]_servingVars => LibInv'
  BY PartsStep, LibraryStep
<1>3. LibInv => LibrarySound
  BY LibInvIsSound
<1> QED BY <1>1, <1>2, <1>3, PTL DEF ServingSpec

-----------------------------------------------------------------------------
(***************************************************************************)
(* THE CORPUS, for any documents named, some perhaps more than once, page  *)
(* readings, scores, thresholds and limits.  What merge makes of a pool is *)
(* followed from the sort by confidence through the two passes; the        *)
(* invariant says of which documents the pool is.                          *)
(***************************************************************************)

\* A list has the items at the places P of another one, in its order.
Picks(out, items, P, at) ==
  /\ at \in [1..Len(out) -> P]
  /\ \A k \in 1..Len(out) : out[k] = items[at[k]]
  /\ \A x \in P : \E k \in 1..Len(out) : at[k] = x
  /\ \A j, k \in 1..Len(out) : j < k => at[j] < at[k]

\* Places picked from a list, in the list's order.
LEMMA PickedList ==
  ASSUME NEW E, NEW items \in Seq(E), NEW P \in SUBSET (1..Len(items))
  PROVE  /\ IsFiniteSet(P) /\ Cardinality(P) \in Nat
         /\ Picked(items, P) \in Seq(E) /\ Len(Picked(items, P)) = Cardinality(P)
         /\ \E at : Picks(Picked(items, P), items, P, at)
<1> DEFINE n == Cardinality(P)
           at == Ascending(P)
           out == Picked(items, P)
<1>1. IsFiniteSet(P) /\ n \in Nat /\ P \in SUBSET Nat
  <2>1. Len(items) \in Nat
    OBVIOUS
  <2>2. IsFiniteSet(1..Len(items))
    BY <2>1, PlacesAreFinite
  <2>3. IsFiniteSet(P) /\ n \in Nat
    BY <2>2, PartsAreFinite
  <2> QED BY <2>3
<1>2. at \in Seq(P) /\ Len(at) = n
  BY <1>1, AscendingList
<1>3. (\A x \in P : \E k \in DOMAIN at : at[k] = x) /\ (\A j, k \in DOMAIN at : j < k => at[j] < at[k])
  BY <1>1, AscendingList
<1>4. out = [k \in 1..n |-> items[at[k]]]
  BY DEF Picked
<1> HIDE DEF n, at, out
<1>5. DOMAIN at = 1..n /\ at \in [1..n -> P]
  BY <1>1, <1>2
<1>6. \A k \in 1..n : items[at[k]] \in E
  <2>1. \A k \in 1..n : at[k] \in 1..Len(items)
    BY <1>5
  <2> QED BY <2>1
<1>7. out \in [1..n -> E] /\ \A k \in 1..n : out[k] = items[at[k]]
  BY <1>4, <1>6
<1>8. out \in Seq(E) /\ Len(out) = n
  BY <1>1, <1>7
<1>9. /\ \A k \in 1..n : out[k] = items[at[k]]
      /\ \A x \in P : \E k \in 1..n : at[k] = x
      /\ \A j, k \in 1..n : j < k => at[j] < at[k]
  BY <1>3, <1>5, <1>7
<1>10. Picks(out, items, P, at)
  BY <1>5, <1>8, <1>9 DEF Picks
<1> QED BY <1>1, <1>8, <1>10 DEF n, out

\* The first items of a list.
LEMMA FirstItems ==
  ASSUME NEW E, NEW items \in Seq(E), NEW n \in Nat
  PROVE  /\ FirstN(items, n) \in Seq(E)
         /\ Len(FirstN(items, n)) = Smaller(Len(items), n)
         /\ \A k \in 1..Len(FirstN(items, n)) : k \in 1..Len(items) /\ FirstN(items, n)[k] = items[k]
<1> DEFINE m == IF Len(items) < n THEN Len(items) ELSE n
<1>1. m \in 0..Len(items) /\ m = Smaller(Len(items), n) /\ m <= Len(items)
  BY DEF Smaller
<1>2. FirstN(items, n) = SubSeq(items, 1, m)
  BY DEF FirstN
<1> HIDE DEF m
<1>3. /\ SubSeq(items, 1, m) \in Seq(E) /\ Len(SubSeq(items, 1, m)) = m
      /\ \A k \in 1..m : SubSeq(items, 1, m)[k] = items[k]
  BY <1>1
<1> QED BY <1>1, <1>2, <1>3

-----------------------------------------------------------------------------
\* Places put in order of their scores.
ScoredBefore(n, sc, x) == {y \in 1..n : sc[y] > sc[x] \/ (sc[y] = sc[x] /\ y < x)}

\* The places of a list have ranks by score, each rank once.
LEMMA ScoreRanks ==
  ASSUME NEW n \in Nat, NEW sc \in [1..n -> Int]
  PROVE  /\ Cardinality(1..n) = n
         /\ \A x \in 1..n : /\ Cardinality(ScoredBefore(n, sc, x)) \in 0..(n - 1)
                            /\ \A y \in ScoredBefore(n, sc, x) :
                                 Cardinality(ScoredBefore(n, sc, y)) < Cardinality(ScoredBefore(n, sc, x))
         /\ \A k \in 1..n : \E x \in 1..n : Cardinality(ScoredBefore(n, sc, x)) = k - 1
<1> DEFINE S == 1..n
           R == {p \in S \X S : sc[p[1]] > sc[p[2]] \/ (sc[p[1]] = sc[p[2]] /\ p[1] < p[2])}
<1>1. \A x, y \in S : <<x, y>> \in R <=> sc[x] > sc[y] \/ (sc[x] = sc[y] /\ x < y)
  OBVIOUS
<1>2. \A x \in S : sc[x] \in Int /\ x \in Int
  OBVIOUS
<1> HIDE DEF R
<1>3. StrictOrder(S, R)
  <2> HIDE DEF S
  <2>1. ASSUME NEW x \in S, NEW y \in S, NEW z \in S, <<x, y>> \in R, <<y, z>> \in R PROVE <<x, z>> \in R
    <3>1. sc[x] > sc[y] \/ (sc[x] = sc[y] /\ x < y)
      BY <1>1, <2>1
    <3>2. sc[y] > sc[z] \/ (sc[y] = sc[z] /\ y < z)
      BY <1>1, <2>1
    <3>3. sc[x] > sc[z] \/ (sc[x] = sc[z] /\ x < z)
      BY <1>2, <3>1, <3>2
    <3> QED BY <1>1, <3>3
  <2>2. ASSUME NEW x \in S, NEW y \in S PROVE <<x, x>> \notin R /\ (x = y \/ <<x, y>> \in R \/ <<y, x>> \in R)
    <3>1. sc[x] \in Int /\ sc[y] \in Int /\ x \in Int /\ y \in Int
      BY <1>2
    <3> QED BY <1>1, <3>1
  <2> QED BY <2>1, <2>2 DEF StrictOrder
<1>4. \A x \in S : Below(S, R, x) = ScoredBefore(n, sc, x)
  BY <1>1 DEF Below, ScoredBefore
<1>5. IsFiniteSet(S) /\ Cardinality(S) = n
  BY PlacesAreFinite, PlacesCount
<1> HIDE DEF S
<1>6. \A k \in 1..n : \E x \in S : Cardinality(ScoredBefore(n, sc, x)) = k - 1
  <2>1. \A k \in 1..n : \E x \in S : Cardinality(Below(S, R, x)) = k - 1
    BY <1>3, <1>5, Ranks
  <2> QED BY <1>4, <2>1
<1>7. ASSUME NEW x \in S
      PROVE  /\ Cardinality(ScoredBefore(n, sc, x)) \in 0..(n - 1)
             /\ \A y \in ScoredBefore(n, sc, x) :
                  Cardinality(ScoredBefore(n, sc, y)) < Cardinality(ScoredBefore(n, sc, x))
  <2>1. Cardinality(Below(S, R, x)) \in 0..(n - 1) /\ Below(S, R, x) = ScoredBefore(n, sc, x)
    BY <1>3, <1>4, <1>5, Ranks
  <2>2. ASSUME NEW y \in ScoredBefore(n, sc, x)
        PROVE  Cardinality(ScoredBefore(n, sc, y)) < Cardinality(ScoredBefore(n, sc, x))
    <3>1. y \in S /\ <<y, x>> \in R
      BY <1>1, <2>2 DEF S, ScoredBefore
    <3>2. Cardinality(Below(S, R, y)) < Cardinality(Below(S, R, x))
      BY <1>3, <1>5, <3>1, Ranks
    <3> QED BY <1>4, <3>1, <3>2
  <2> QED BY <2>1, <2>2
<1> QED BY <1>5, <1>6, <1>7 DEF S


ByRank(n, sc, order) ==
  /\ sc \in [1..n -> Int] /\ order \in [1..n -> 1..n]
  /\ \A k \in 1..n : Cardinality(ScoredBefore(n, sc, order[k])) = k - 1

\* Places listed by their rank are in order of their scores.
LEMMA ScoreOrder ==
  ASSUME NEW n \in Nat, NEW sc, NEW order, ByRank(n, sc, order)
  PROVE  /\ \A x \in 1..n : \E k \in 1..n : order[k] = x
         /\ \A j, k \in 1..n : j < k => sc[order[j]] >= sc[order[k]]
         /\ \A j, k \in 1..n : order[j] = order[k] => j = k
<1> DEFINE rank == [x \in 1..n |-> Cardinality(ScoredBefore(n, sc, x))]
<1>1. \A x \in 1..n : rank[x] \in 0..(n - 1) /\ \A y \in ScoredBefore(n, sc, x) : rank[y] < rank[x]
  <2>1. \A x \in 1..n : ScoredBefore(n, sc, x) \subseteq 1..n
    BY DEF ScoredBefore
  <2>2. sc \in [1..n -> Int]
    BY DEF ByRank
  <2> QED BY <2>1, <2>2, ScoreRanks
<1>2. \A k \in 1..n : order[k] \in 1..n /\ rank[order[k]] = k - 1
  BY DEF ByRank
<1>3. \A x \in 1..n : sc[x] \in Int /\ x \in Int
  BY DEF ByRank
<1>4. \A x, y \in 1..n : y \in ScoredBefore(n, sc, x) <=> sc[y] > sc[x] \/ (sc[y] = sc[x] /\ y < x)
  BY DEF ScoredBefore
<1> HIDE DEF rank
<1>5. ASSUME NEW x \in 1..n, NEW y \in 1..n, rank[x] <= rank[y]
      PROVE  sc[x] >= sc[y] /\ (rank[x] = rank[y] => x = y)
  <2>1. rank[x] \in Int /\ rank[y] \in Int
    BY <1>1
  <2>2. y \in ScoredBefore(n, sc, x) => rank[y] < rank[x]
    BY <1>1
  <2>3. x \in ScoredBefore(n, sc, y) => rank[x] < rank[y]
    BY <1>1
  <2>4. sc[x] \in Int /\ sc[y] \in Int /\ x \in Int /\ y \in Int
    BY <1>3
  <2>5. y \notin ScoredBefore(n, sc, x) /\ (rank[x] = rank[y] => x \notin ScoredBefore(n, sc, y))
    BY <1>5, <2>1, <2>2, <2>3
  <2> QED BY <1>4, <2>4, <2>5
<1>6. ASSUME NEW x \in 1..n PROVE \E k \in 1..n : order[k] = x
  <2>1. rank[x] \in 0..(n - 1)
    BY <1>1
  <2>2. rank[x] + 1 \in 1..n /\ rank[x] \in Int
    BY <2>1
  <2>3. order[rank[x] + 1] \in 1..n /\ rank[order[rank[x] + 1]] = rank[x]
    BY <1>2, <2>2
  <2>4. rank[x] <= rank[order[rank[x] + 1]]
    BY <2>2, <2>3
  <2>5. order[rank[x] + 1] = x
    BY <1>5, <2>3, <2>4
  <2> QED BY <2>2, <2>5
<1>7. ASSUME NEW j \in 1..n, NEW k \in 1..n, j < k PROVE sc[order[j]] >= sc[order[k]]
  <2>1. order[j] \in 1..n /\ order[k] \in 1..n /\ rank[order[j]] = j - 1 /\ rank[order[k]] = k - 1
    BY <1>2
  <2>2. rank[order[j]] <= rank[order[k]]
    BY <1>7, <2>1
  <2> QED BY <1>5, <2>1, <2>2
<1>8. ASSUME NEW j \in 1..n, NEW k \in 1..n, order[j] = order[k] PROVE j = k
  <2>1. rank[order[j]] = j - 1 /\ rank[order[k]] = k - 1
    BY <1>2
  <2> QED BY <1>8, <2>1
<1> QED BY <1>6, <1>7, <1>8

\* Among some places of a list one has the highest score and is the first of
\* those that have it.
LEMMA BestPlace ==
  ASSUME NEW n \in Nat, NEW sc \in [1..n -> Int], NEW T \in SUBSET (1..n), T # {}
  PROVE  \E j \in T : \A i \in T : sc[i] < sc[j] \/ (sc[i] = sc[j] /\ j <= i)
<1> DEFINE rank(x) == Cardinality(ScoredBefore(n, sc, x))
           ranks == {rank(x) : x \in T}
<1>1. \A x \in 1..n : rank(x) \in Nat /\ \A y \in ScoredBefore(n, sc, x) : rank(y) < rank(x)
  BY ScoreRanks
<1>2. ranks \in SUBSET Nat /\ ranks # {}
  <2> HIDE DEF rank
  <2> QED BY <1>1
<1> HIDE DEF rank
<1>3. PICK r \in ranks : \A q \in ranks : r <= q
  <2> HIDE DEF ranks
  <2> QED BY <1>2, LeastNatural
<1>4. PICK j \in T : r = rank(j)
  OBVIOUS
<1>5. ASSUME NEW i \in T PROVE sc[i] < sc[j] \/ (sc[i] = sc[j] /\ j <= i)
  <2>1. rank(j) <= rank(i) /\ rank(i) \in Nat /\ rank(j) \in Nat
    BY <1>1, <1>3, <1>4
  <2>2. i \notin ScoredBefore(n, sc, j)
    <3>1. i \in ScoredBefore(n, sc, j) => rank(i) < rank(j)
      BY <1>1
    <3> QED BY <2>1, <3>1
  <2>3. sc[i] \in Int /\ sc[j] \in Int /\ i \in Int /\ j \in Int /\ i \in 1..n
    OBVIOUS
  <2> QED BY <2>2, <2>3 DEF ScoredBefore
<1> QED BY <1>5

-----------------------------------------------------------------------------
CWNames == ToSet(CWDocs)
CWEntry == [doc : CWNames, page : Nat, p : Nat]

\* What a page of the pool has.
LEMMA EntryParts ==
  ASSUME NEW es \in Seq(CWEntry), NEW k \in 1..Len(es)
  PROVE  es[k] \in CWEntry /\ es[k].doc \in CWNames /\ es[k].page \in Nat /\ es[k].p \in Nat
<1>1. es[k] \in CWEntry
  OBVIOUS
<1> QED BY <1>1 DEF CWEntry

\* A list has the items of another one, those of higher confidence first.
Sorts(out, es, at) ==
  /\ at \in [1..Len(es) -> 1..Len(es)]
  /\ \A k \in 1..Len(es) : out[k] = es[at[k]]
  /\ \A x \in 1..Len(es) : \E k \in 1..Len(es) : at[k] = x
  /\ \A j, k \in 1..Len(es) : at[j] = at[k] => j = k
  /\ \A j, k \in 1..Len(es) : j < k => out[j].p >= out[k].p

\* Pages in order of their confidence are the same pages.
LEMMA Sorted ==
  ASSUME NEW es \in Seq(CWEntry)
  PROVE  /\ ByConfidence(es) \in Seq(CWEntry) /\ Len(ByConfidence(es)) = Len(es)
         /\ \E at : Sorts(ByConfidence(es), es, at)
<1> DEFINE n == Len(es)
           sc == [i \in 1..n |-> es[i].p]
           before(x) == {y \in DOMAIN es : es[y].p > es[x].p \/ (es[y].p = es[x].p /\ y < x)}
           order == [k \in 1..Cardinality(DOMAIN es) |-> CHOOSE x \in DOMAIN es : Cardinality(before(x)) = k - 1]
           out == ByConfidence(es)
<1>1. n \in Nat /\ DOMAIN es = 1..n
  OBVIOUS
<1>2. \A i \in 1..n : es[i].p \in Nat
  BY EntryParts
<1>3. out = [k \in DOMAIN order |-> es[order[k]]]
  BY DEF ByConfidence, StableByScore, InOrder
<1>4. \A x \in 1..n : before(x) = ScoredBefore(n, sc, x)
  BY <1>1 DEF ScoredBefore
<1>5. sc \in [1..n -> Int] /\ \A i \in 1..n : sc[i] = es[i].p
  BY <1>2
<1> HIDE DEF n, sc, before, out
<1>6. /\ Cardinality(1..n) = n
      /\ \A k \in 1..n : \E x \in 1..n : Cardinality(ScoredBefore(n, sc, x)) = k - 1
  BY <1>1, <1>5, ScoreRanks
<1>7. ASSUME NEW k \in 1..n PROVE order[k] \in 1..n /\ Cardinality(ScoredBefore(n, sc, order[k])) = k - 1
  <2>1. \E x \in DOMAIN es : Cardinality(before(x)) = k - 1
    BY <1>1, <1>4, <1>6
  <2>2. order[k] = CHOOSE x \in DOMAIN es : Cardinality(before(x)) = k - 1
    BY <1>1, <1>6
  <2>3. order[k] \in DOMAIN es /\ Cardinality(before(order[k])) = k - 1
    <3> HIDE DEF order
    <3> QED BY <2>1, <2>2, Zenon
  <2> QED BY <1>1, <1>4, <2>3
<1>8. order \in [1..n -> 1..n]
  <2> DEFINE pick(k) == CHOOSE x \in DOMAIN es : Cardinality(before(x)) = k - 1
  <2>1. order = [k \in 1..n |-> pick(k)]
    BY <1>1, <1>6
  <2> HIDE DEF order, pick
  <2> QED BY <1>7, <2>1
<1> HIDE DEF order
<1>9. DOMAIN order = 1..n /\ \A k \in 1..n : order[k] \in 1..n
  BY <1>8
<1>10. out = [k \in 1..n |-> es[order[k]]]
  BY <1>3, <1>9
<1>11. \A k \in 1..n : es[order[k]] \in CWEntry
  BY <1>1, <1>9
<1>12. out \in Seq(CWEntry) /\ Len(out) = n /\ \A k \in 1..n : out[k] = es[order[k]]
  <2>1. out \in [1..n -> CWEntry] /\ \A k \in 1..n : out[k] = es[order[k]]
    BY <1>10, <1>11
  <2> QED BY <1>1, <2>1
<1>13. ByRank(n, sc, order)
  BY <1>5, <1>7, <1>8 DEF ByRank
<1>14. /\ \A x \in 1..n : \E k \in 1..n : order[k] = x
       /\ \A j, k \in 1..n : order[j] = order[k] => j = k
       /\ \A j, k \in 1..n : j < k => sc[order[j]] >= sc[order[k]]
  BY <1>1, <1>13, ScoreOrder
<1>15. \A j, k \in 1..n : j < k => out[j].p >= out[k].p
  <2>1. \A k \in 1..n : sc[order[k]] = out[k].p
    BY <1>5, <1>9, <1>12
  <2> QED BY <1>14, <2>1
<1>16. Sorts(out, es, order)
  BY <1>8, <1>12, <1>14, <1>15 DEF Sorts, n
<1> QED BY <1>12, <1>16 DEF n, out

-----------------------------------------------------------------------------
KeysDiffer(m) == \A j, k \in 1..Len(m) : m[j].doc = m[k].doc /\ m[j].page = m[k].page => j = k
From(m, all) == \A k \in 1..Len(m) : \E i \in 1..Len(all) : m[k] = all[i]
CoversPages(m, all) ==
  \A i \in 1..Len(all) : \E k \in 1..Len(m) :
    m[k].doc = all[i].doc /\ m[k].page = all[i].page /\ m[k].p >= all[i].p

\* A page's best judgement is one of the same page, and none is better.
LEMMA BestJudgement ==
  ASSUME NEW all \in Seq(CWEntry), NEW k \in 1..Len(all)
  PROVE  /\ JudgedBest(all, k) \in 1..Len(all)
         /\ all[JudgedBest(all, k)].doc = all[k].doc /\ all[JudgedBest(all, k)].page = all[k].page
         /\ \A i \in SamePage(all, k) : all[i].p <= all[JudgedBest(all, k)].p
<1> DEFINE n == Len(all)
           sc == [i \in 1..n |-> all[i].p]
           T == SamePage(all, k)
           good(j) == \A i \in T : all[i].p < all[j].p \/ (all[i].p = all[j].p /\ j <= i)
           b == JudgedBest(all, k)
<1>1. n \in Nat /\ sc \in [1..n -> Int] /\ \A i \in 1..n : sc[i] = all[i].p /\ all[i].p \in Nat
  BY EntryParts
<1>2. T \in SUBSET (1..n) /\ k \in T /\ \A j \in T : all[j].doc = all[k].doc /\ all[j].page = all[k].page
  BY DEF SamePage, evidenceKey
<1>3. b = CHOOSE j \in T : good(j)
  BY Zenon DEF JudgedBest
<1> HIDE DEF n, sc, T, b
<1>4. \E j \in T : \A i \in T : sc[i] < sc[j] \/ (sc[i] = sc[j] /\ j <= i)
  BY <1>1, <1>2, BestPlace
<1>5. \E j \in T : good(j)
  <2>1. PICK j \in T : \A i \in T : sc[i] < sc[j] \/ (sc[i] = sc[j] /\ j <= i)
    BY <1>4
  <2>2. \A i \in T : sc[i] = all[i].p
    BY <1>1, <1>2
  <2> QED BY <2>1, <2>2
<1>6. b \in T /\ good(b)
  <2> HIDE DEF good
  <2> QED BY <1>3, <1>5, Zenon
<1>7. \A i \in T : all[i].p <= all[b].p
  <2>1. b \in 1..n /\ all[b].p \in Nat
    BY <1>1, <1>2, <1>6
  <2>2. \A i \in T : all[i].p \in Nat
    BY <1>1, <1>2
  <2> QED BY <1>6, <2>1, <2>2
<1> QED BY <1>2, <1>6, <1>7 DEF n, T, b

\* OncePerPage has every page of the pool once, as it was judged best.
LEMMA OnceEach ==
  ASSUME NEW all \in Seq(CWEntry)
  PROVE  /\ OncePerPage(all) \in Seq(CWEntry) /\ KeysDiffer(OncePerPage(all))
         /\ From(OncePerPage(all), all) /\ CoversPages(OncePerPage(all), all)
<1> DEFINE n == Len(all)
           items == [k \in DOMAIN all |-> all[JudgedBest(all, k)]]
           P == {k \in DOMAIN all : \A j \in SamePage(all, k) : k <= j}
           N == Cardinality(P)
           once == OncePerPage(all)
<1>1. n \in Nat /\ DOMAIN all = 1..n
  OBVIOUS
<1>2. \A k \in 1..n : /\ JudgedBest(all, k) \in 1..n
                      /\ all[JudgedBest(all, k)].doc = all[k].doc /\ all[JudgedBest(all, k)].page = all[k].page
                      /\ \A i \in SamePage(all, k) : all[i].p <= all[JudgedBest(all, k)].p
  BY BestJudgement
<1>3. items \in Seq(CWEntry) /\ Len(items) = n /\ \A k \in 1..n : items[k] = all[JudgedBest(all, k)]
  <2>1. \A k \in 1..n : all[JudgedBest(all, k)] \in CWEntry
    BY <1>2
  <2>2. items \in [1..n -> CWEntry]
    BY <1>1, <2>1
  <2> QED BY <1>1, <2>2
<1>4. \A i, j \in 1..n : i \in SamePage(all, j) <=> all[i].doc = all[j].doc /\ all[i].page = all[j].page
  BY DEF SamePage, evidenceKey
<1>5. \A k \in 1..n : SamePage(all, k) \subseteq 1..n
  BY DEF SamePage
<1>6. P \in SUBSET (1..Len(items)) /\ \A k \in P : k \in 1..n /\ \A j \in SamePage(all, k) : k <= j
  BY <1>1, <1>3
<1>7. once = Picked(items, P)
  BY DEF OncePerPage
<1>8. \A k \in 1..n : (\A j \in SamePage(all, k) : k <= j) => k \in P
  BY <1>1
<1> HIDE DEF n, items, P, once
<1>9. N \in Nat /\ once \in Seq(CWEntry) /\ Len(once) = N
  BY <1>3, <1>6, <1>7, PickedList
<1>9a. \E f : Picks(once, items, P, f)
  BY <1>3, <1>6, <1>7, PickedList
<1> HIDE DEF N
<1>9b. PICK at : Picks(once, items, P, at)
  BY <1>9a
<1>10. /\ at \in [1..N -> P]
       /\ \A k \in 1..N : once[k] = items[at[k]]
       /\ \A x \in P : \E k \in 1..N : at[k] = x
       /\ \A j, k \in 1..N : j < k => at[j] < at[k]
  BY <1>9, <1>9b DEF Picks
<1>11. ASSUME NEW k \in 1..N
       PROVE  /\ at[k] \in P /\ at[k] \in 1..n /\ once[k] = all[JudgedBest(all, at[k])]
              /\ once[k].doc = all[at[k]].doc /\ once[k].page = all[at[k]].page
  <2>1. at[k] \in P
    BY <1>10
  <2>2. at[k] \in 1..n
    BY <1>6, <2>1
  <2> QED BY <1>2, <1>3, <1>10, <2>1, <2>2
<1>12. KeysDiffer(once)
  <2>1. SUFFICES ASSUME NEW j \in 1..N, NEW k \in 1..N, once[j].doc = once[k].doc, once[j].page = once[k].page
                 PROVE  j = k
    BY <1>9 DEF KeysDiffer
  <2>2. at[j] \in 1..n /\ at[k] \in 1..n /\ at[j] \in P /\ at[k] \in P
    BY <1>11
  <2>3. all[at[j]].doc = all[at[k]].doc /\ all[at[j]].page = all[at[k]].page
    BY <1>11, <2>1
  <2>4. at[j] \in SamePage(all, at[k]) /\ at[k] \in SamePage(all, at[j])
    BY <1>4, <2>2, <2>3
  <2>5. at[k] <= at[j] /\ at[j] <= at[k]
    BY <1>6, <2>2, <2>4
  <2>6. at[j] = at[k] /\ at[j] \in Int
    BY <2>2, <2>5
  <2>7. ~(j < k) /\ ~(k < j)
    BY <1>10, <2>6
  <2> QED BY <1>9, <2>7
<1>13. From(once, all)
  <2>1. ASSUME NEW k \in 1..Len(once) PROVE \E i \in 1..Len(all) : once[k] = all[i]
    <3>1. k \in 1..N
      BY <1>9
    <3>2. at[k] \in 1..n /\ once[k] = all[JudgedBest(all, at[k])]
      BY <1>11, <3>1
    <3>3. JudgedBest(all, at[k]) \in 1..Len(all)
      BY <1>2, <3>2 DEF n
    <3> QED BY <3>2, <3>3
  <2> QED BY <2>1 DEF From
<1>14. ASSUME NEW i \in 1..n
       PROVE  \E k \in 1..N : once[k].doc = all[i].doc /\ once[k].page = all[i].page /\ once[k].p >= all[i].p
  <2>1. SamePage(all, i) \in SUBSET Nat /\ i \in SamePage(all, i)
    BY <1>1, <1>4, <1>5
  <2>2. PICK m \in SamePage(all, i) : \A y \in SamePage(all, i) : m <= y
    BY <2>1, LeastNatural
  <2>3. m \in 1..n /\ all[m].doc = all[i].doc /\ all[m].page = all[i].page
    BY <1>4, <1>5, <2>2
  <2>4. \A y \in SamePage(all, m) : y \in SamePage(all, i)
    BY <1>4, <1>5, <2>3
  <2>5. m \in P
    BY <1>8, <2>2, <2>3, <2>4
  <2>6. PICK k \in 1..N : at[k] = m
    BY <1>10, <2>5
  <2>7. i \in SamePage(all, m)
    BY <1>4, <2>3
  <2>8. JudgedBest(all, m) \in 1..n /\ all[i].p <= all[JudgedBest(all, m)].p /\ once[k] = all[JudgedBest(all, m)]
    BY <1>2, <1>11, <2>3, <2>6, <2>7
  <2>9. all[i].p \in Nat /\ all[JudgedBest(all, m)].p \in Nat
    BY <2>8, EntryParts DEF n
  <2>10. once[k].p >= all[i].p
    BY <2>8, <2>9
  <2> QED BY <1>11, <2>3, <2>6, <2>10
<1>15. CoversPages(once, all)
  BY <1>9, <1>14 DEF CoversPages, n
<1> QED BY <1>9, <1>12, <1>13, <1>15 DEF once

-----------------------------------------------------------------------------
AllDocs(m, above) == \A i \in 1..Len(above) : \E k \in 1..Len(m) : m[k].doc = above[i].doc
DocsDiffer(m) == \A j, k \in 1..Len(m) : m[j].doc = m[k].doc => j = k

\* The first pass takes one page of every document, or as many as fit.
LEMMA FirstPages ==
  ASSUME NEW above \in Seq(CWEntry)
  PROVE  /\ FirstPass(above) \in Seq(CWEntry) /\ Len(FirstPass(above)) <= CWLimit
         /\ From(FirstPass(above), above) /\ DocsDiffer(FirstPass(above))
         /\ Len(FirstPass(above)) < CWLimit => AllDocs(FirstPass(above), above)
         /\ above # <<>> => FirstPass(above) # <<>>
<1> DEFINE n == Len(above)
           P == {k \in DOMAIN above : \A j \in 1..(k - 1) : above[j].doc # above[k].doc}
           picked == Picked(above, P)
           out == FirstPass(above)
<1>1. n \in Nat /\ DOMAIN above = 1..n /\ CWLimit \in Nat \ {0}
  BY CorpusAssumption DEF CorpusAssumption
<1>2. P \in SUBSET (1..Len(above)) /\ \A k \in P : k \in 1..n /\ \A j \in 1..(k - 1) : above[j].doc # above[k].doc
  BY <1>1
<1>3. \A k \in 1..n : (\A j \in 1..(k - 1) : above[j].doc # above[k].doc) => k \in P
  BY <1>1
<1>4. out = FirstN(picked, CWLimit)
  BY DEF FirstPass
<1> HIDE DEF P, out
<1>5. picked \in Seq(CWEntry) /\ \E f : Picks(picked, above, P, f)
  BY <1>2, PickedList
<1> HIDE DEF picked, n
<1>6. PICK at : Picks(picked, above, P, at)
  BY <1>5
<1>7. /\ out \in Seq(CWEntry) /\ Len(out) = Smaller(Len(picked), CWLimit)
      /\ \A k \in 1..Len(out) : k \in 1..Len(picked) /\ out[k] = picked[k]
  BY <1>1, <1>4, <1>5, FirstItems
<1>8. Len(out) \in Nat /\ Len(picked) \in Nat /\ Len(out) <= CWLimit /\ (Len(out) < CWLimit => Len(out) = Len(picked))
  BY <1>1, <1>5, <1>7 DEF Smaller
<1>9. ASSUME NEW k \in 1..Len(picked) PROVE at[k] \in P /\ at[k] \in 1..n /\ picked[k] = above[at[k]]
  <2>1. at[k] \in P /\ picked[k] = above[at[k]]
    BY <1>6 DEF Picks
  <2> QED BY <1>2, <2>1
<1>10. From(out, above)
  BY <1>7, <1>9 DEF From, n
<1>11. DocsDiffer(out)
  <2>1. SUFFICES ASSUME NEW j \in 1..Len(out), NEW k \in 1..Len(out), out[j].doc = out[k].doc, j < k
                 PROVE  FALSE
    <3>1. \A j, k \in 1..Len(out) : j \in Int /\ k \in Int
      BY <1>8
    <3> QED BY <3>1 DEF DocsDiffer
  <2>2. j \in 1..Len(picked) /\ k \in 1..Len(picked) /\ out[j] = picked[j] /\ out[k] = picked[k]
    BY <1>7
  <2>3. at[j] \in 1..n /\ at[k] \in 1..n /\ at[k] \in P /\ above[at[j]].doc = above[at[k]].doc
    BY <1>9, <2>1, <2>2
  <2>4. at[j] < at[k]
    BY <1>6, <2>1, <2>2 DEF Picks
  <2>5. at[j] \in 1..(at[k] - 1)
    BY <1>1, <2>3, <2>4
  <2> QED BY <1>2, <2>3, <2>5
<1>12. ASSUME NEW i \in 1..n PROVE \E m \in P : above[m].doc = above[i].doc
  <2> DEFINE T == {j \in 1..n : above[j].doc = above[i].doc}
  <2>1. T \in SUBSET Nat /\ T # {} /\ \A j \in T : j \in 1..n /\ above[j].doc = above[i].doc
    OBVIOUS
  <2>2. \A j \in 1..n : above[j].doc = above[i].doc => j \in T
    OBVIOUS
  <2> HIDE DEF T
  <2>3. PICK m \in T : \A y \in T : m <= y
    BY <2>1, LeastNatural
  <2>4. m \in 1..n /\ above[m].doc = above[i].doc
    BY <2>1
  <2>5. ASSUME NEW j \in 1..(m - 1), above[j].doc = above[m].doc PROVE FALSE
    <3>1. j \in 1..n /\ j < m
      BY <1>1, <2>4
    <3>2. j \in T
      BY <2>2, <2>4, <2>5, <3>1
    <3> QED BY <1>1, <2>3, <2>4, <3>1, <3>2
  <2> QED BY <1>3, <2>4, <2>5
<1>13. ASSUME NEW i \in 1..n PROVE \E k \in 1..Len(picked) : picked[k].doc = above[i].doc
  <2>1. PICK m \in P : above[m].doc = above[i].doc
    BY <1>12
  <2>2. PICK k \in 1..Len(picked) : at[k] = m
    BY <1>6 DEF Picks
  <2> QED BY <1>9, <2>1, <2>2
<1>14. ASSUME Len(out) < CWLimit PROVE AllDocs(out, above)
  <2>1. Len(out) = Len(picked)
    BY <1>8, <1>14
  <2> QED BY <1>7, <1>13, <2>1 DEF AllDocs, n
<1>15. ASSUME above # <<>> PROVE out # <<>>
  <2>1. 1 \in 1..n
    BY <1>1, <1>15 DEF n
  <2>2. Len(picked) # 0
    BY <1>8, <1>13, <2>1
  <2>3. Len(out) # 0
    BY <1>1, <1>7, <1>8, <2>2 DEF Smaller
  <2> QED BY <2>3
<1> QED BY <1>7, <1>8, <1>10, <1>11, <1>14, <1>15 DEF out

-----------------------------------------------------------------------------
OfDoc(m, d) == {k \in 1..Len(m) : m[k].doc = d}
NoTwice(m) == \A j, k \in 1..Len(m) : m[j] = m[k] => j = k

\* What the second pass keeps true of the list it fills.
Filling(acc, above) ==
  /\ acc \in Seq(CWEntry) /\ Len(acc) <= CWLimit /\ From(acc, above) /\ NoTwice(acc)
  /\ \A d \in CWNames : Cardinality(OfDoc(acc, d)) <= CWPerDoc
  /\ AllDocs(acc, above) \/ (Len(acc) >= CWLimit /\ \A d \in CWNames : Cardinality(OfDoc(acc, d)) <= 1)
  /\ above # <<>> => acc # <<>>

\* The pages of a document in a list are finitely many.
LEMMA OfDocFinite ==
  ASSUME NEW m \in Seq(CWEntry), NEW d
  PROVE  IsFiniteSet(OfDoc(m, d)) /\ Cardinality(OfDoc(m, d)) \in Nat
<1>1. Len(m) \in Nat /\ OfDoc(m, d) \in SUBSET (1..Len(m))
  BY DEF OfDoc
<1>2. IsFiniteSet(1..Len(m))
  BY <1>1, PlacesAreFinite
<1> QED BY <1>1, <1>2, PartsAreFinite

\* The second pass starts from the first.
LEMMA FillingStarts ==
  ASSUME NEW above \in Seq(CWEntry)
  PROVE  Filling(FirstPass(above), above)
<1> DEFINE f == FirstPass(above)
<1>1. /\ f \in Seq(CWEntry) /\ Len(f) <= CWLimit /\ From(f, above) /\ DocsDiffer(f)
      /\ Len(f) < CWLimit => AllDocs(f, above)
      /\ above # <<>> => f # <<>>
  BY FirstPages
<1> HIDE DEF f
<1>2. \A d \in CWNames : Cardinality(OfDoc(f, d)) <= 1 /\ Cardinality(OfDoc(f, d)) \in Nat
  <2>1. ASSUME NEW d \in CWNames PROVE Cardinality(OfDoc(f, d)) <= 1
    <3>1. \A j, k \in OfDoc(f, d) : j = k
      BY <1>1 DEF OfDoc, DocsDiffer
    <3> QED BY <3>1, AtMostOne
  <2> QED BY <1>1, <2>1, OfDocFinite
<1>3. CWPerDoc \in Nat \ {0} /\ CWLimit \in Nat \ {0} /\ Len(f) \in Nat
  BY <1>1, CorpusAssumption DEF CorpusAssumption
<1>4. \A d \in CWNames : Cardinality(OfDoc(f, d)) <= CWPerDoc
  BY <1>2, <1>3
<1>5. NoTwice(f)
  BY <1>1 DEF NoTwice, DocsDiffer
<1>6. AllDocs(f, above) \/ Len(f) >= CWLimit
  BY <1>1, <1>3
<1> QED BY <1>1, <1>2, <1>4, <1>5, <1>6 DEF f, Filling

\* Another page keeps it so.
LEMMA FillingGoesOn ==
  ASSUME NEW above \in Seq(CWEntry), NEW acc, Filling(acc, above), NEW i \in 1..Len(above)
  PROVE  Filling(WithPage(acc, above[i]), above)
<1> DEFINE e == above[i]
           full == \/ Len(acc) >= CWLimit \/ e \in ToSet(acc)
                   \/ Cardinality({k \in DOMAIN acc : acc[k].doc = e.doc}) >= CWPerDoc
           out == Append(acc, e)
           n == Len(acc)
<1>0. WithPage(acc, e) = IF full THEN acc ELSE out
  BY DEF WithPage
<1>1. CASE full
  BY <1>0, <1>1
<1>2. CASE ~full
  <2>1. /\ acc \in Seq(CWEntry) /\ n \in Nat /\ n <= CWLimit /\ DOMAIN acc = 1..n /\ CWLimit \in Nat
        /\ CWPerDoc \in Nat
    BY CorpusAssumption DEF CorpusAssumption, Filling
  <2>2. e \in CWEntry /\ e.doc \in CWNames
    BY EntryParts
  <2>3. ~(n >= CWLimit) /\ e \notin ToSet(acc) /\ ~(Cardinality(OfDoc(acc, e.doc)) >= CWPerDoc)
    <3>1. {k \in DOMAIN acc : acc[k].doc = e.doc} = OfDoc(acc, e.doc)
      BY <2>1 DEF OfDoc
    <3> QED BY <1>2, <3>1
  <2>4. \A k \in 1..n : acc[k] # e
    BY <2>1, <2>3 DEF ToSet
  <2> HIDE DEF full
  <2>5. /\ out \in Seq(CWEntry) /\ Len(out) = n + 1 /\ out[n + 1] = e
        /\ \A k \in 1..n : out[k] = acc[k]
    <3> HIDE DEF e
    <3> QED BY <2>1, <2>2
  <2>6. \A k \in 1..Len(out) : k = n + 1 \/ k \in 1..n
    BY <2>1, <2>5
  <2>6a. \E k \in 1..Len(above) : e = above[k]
    OBVIOUS
  <2> HIDE DEF e, out, n
  <2>7. From(out, above)
    <3>1. \A k \in 1..n : \E j \in 1..Len(above) : acc[k] = above[j]
      BY DEF Filling, From, n
    <3> QED BY <2>5, <2>6, <2>6a, <3>1 DEF From
  <2>8. NoTwice(out)
    <3>1. \A j, k \in 1..n : acc[j] = acc[k] => j = k
      BY DEF Filling, NoTwice, n
    <3>2. SUFFICES ASSUME NEW j \in 1..Len(out), NEW k \in 1..Len(out), out[j] = out[k] PROVE j = k
      BY DEF NoTwice
    <3>3. (j = n + 1 \/ j \in 1..n) /\ (k = n + 1 \/ k \in 1..n)
      BY <2>6
    <3> QED BY <2>4, <2>5, <3>1, <3>2, <3>3
  <2>9. ASSUME NEW d \in CWNames PROVE Cardinality(OfDoc(out, d)) <= CWPerDoc
    <3>1. IsFiniteSet(OfDoc(acc, d)) /\ Cardinality(OfDoc(acc, d)) \in Nat /\ Cardinality(OfDoc(acc, d)) <= CWPerDoc
      BY <2>1, OfDocFinite DEF Filling
    <3>2. CASE d # e.doc
      <4>1. OfDoc(out, d) = OfDoc(acc, d)
        <5>1. \A k : k \in OfDoc(out, d) <=> k \in OfDoc(acc, d)
          BY <2>1, <2>5, <2>6, <3>2 DEF OfDoc, n
        <5> QED BY <5>1
      <4> QED BY <3>1, <4>1
    <3>3. CASE d = e.doc
      <4>1. OfDoc(out, d) = OfDoc(acc, d) \cup {n + 1}
        <5>1. \A k : k \in OfDoc(out, d) <=> k \in OfDoc(acc, d) \/ k = n + 1
          <6>1. n + 1 \in 1..Len(out) /\ \A k \in 1..n : k \in 1..Len(out)
            BY <2>1, <2>5
          <6> QED BY <2>5, <2>6, <3>3, <6>1 DEF OfDoc, n
        <5> QED BY <5>1
      <4>2. IsFiniteSet({n + 1}) /\ Cardinality({n + 1}) <= 1
        BY AtMostOne
      <4>3. Cardinality(OfDoc(acc, d) \cup {n + 1}) <= Cardinality(OfDoc(acc, d)) + 1
        <5>1. /\ Cardinality(OfDoc(acc, d) \cup {n + 1}) =
                   Cardinality(OfDoc(acc, d)) + Cardinality({n + 1}) - Cardinality(OfDoc(acc, d) \cap {n + 1})
              /\ Cardinality(OfDoc(acc, d) \cap {n + 1}) \in Nat /\ Cardinality({n + 1}) \in Nat
          BY <3>1, <4>2, Together, PartsAreFinite
        <5> QED BY <3>1, <4>2, <5>1
      <4>4. Cardinality(OfDoc(acc, d)) < CWPerDoc
        BY <2>1, <2>3, <3>1, <3>3
      <4>5. Cardinality(OfDoc(out, d)) \in Nat
        BY <2>5, OfDocFinite
      <4> QED BY <2>1, <3>1, <4>1, <4>3, <4>4, <4>5
    <3> QED BY <3>2, <3>3
  <2>10. AllDocs(out, above)
    <3>1. AllDocs(acc, above)
      BY <2>3 DEF Filling, n
    <3>2. \A k \in 1..n : k \in 1..Len(out) /\ out[k].doc = acc[k].doc
      BY <2>1, <2>5
    <3> QED BY <3>1, <3>2 DEF AllDocs, n
  <2>11. Len(out) <= CWLimit /\ out # <<>>
    BY <2>1, <2>3, <2>5
  <2>12. Filling(out, above)
    BY <2>5, <2>7, <2>8, <2>9, <2>10, <2>11 DEF Filling
  <2> QED BY <1>0, <1>2, <2>12 DEF e
<1> QED BY <1>1, <1>2

\* The second pass leaves a list so filled.
LEMMA SecondPages ==
  ASSUME NEW above \in Seq(CWEntry)
  PROVE  Filling(SecondPass(above), above)
<1> DEFINE n == Len(above)
           start == FirstPass(above)
           A == {acc \in Seq(CWEntry) : Filling(acc, above)}
           filled[k \in 0..n] == IF k = 0 THEN start ELSE WithPage(filled[k - 1], above[k])
           G == [p \in A \X (1..n) |-> WithPage(p[1], above[p[2]])]
<1>1. n \in Nat /\ \A acc \in A : Filling(acc, above)
  OBVIOUS
<1>2. \A acc : Filling(acc, above) => acc \in A
  BY DEF Filling
<1>3. SecondPass(above) = filled[n]
  BY DEF SecondPass
<1>4. start \in A
  BY <1>2, FillingStarts
<1>5. \A acc \in A, i \in 1..n : WithPage(acc, above[i]) \in A
  BY <1>1, <1>2, FillingGoesOn
<1> HIDE DEF n, start, A
<1>6. G \in [A \X (1..n) -> A] /\ \A acc \in A, i \in 1..n : G[<<acc, i>>] = WithPage(acc, above[i])
  BY <1>5
<1>7. PICK f \in [0..n -> A] : f[0] = start /\ \A k \in 1..n : f[k] = G[<<f[k - 1], k>>]
  <2> HIDE DEF G
  <2>1. \E f : GoesOn(f, n, A, start, G)
    BY <1>1, <1>4, <1>6, PrefixRecursion, Zenon
  <2> QED BY <2>1 DEF GoesOn
<1> HIDE DEF G
<1>8. ASSUME NEW k \in 1..n PROVE f[k] = WithPage(f[k - 1], above[k])
  <2>1. k - 1 \in 0..n
    BY <1>1
  <2>2. f[k - 1] \in A
    BY <2>1
  <2> QED BY <1>6, <1>7, <2>2
<1>9. f = [k \in 0..n |-> IF k = 0 THEN start ELSE WithPage(f[k - 1], above[k])]
  <2>1. \A k \in 0..n : k # 0 => k \in 1..n
    BY <1>1
  <2> QED BY <1>7, <1>8, <2>1
<1>10. filled = [k \in 0..n |-> IF k = 0 THEN start ELSE WithPage(filled[k - 1], above[k])]
  BY <1>9
<1> HIDE DEF filled
<1> DEFINE T == {k \in 0..n : filled[k] \in A}
<1>11. 0 \in T
  BY <1>1, <1>4, <1>10
<1>12. ASSUME NEW k \in 1..n, k - 1 \in T PROVE k \in T
  <2>1. k \in 0..n /\ k # 0
    BY <1>1
  <2>2. filled[k] = WithPage(filled[k - 1], above[k])
    BY <1>10, <2>1
  <2>3. filled[k - 1] \in A
    BY <1>12
  <2>4. filled[k] \in A
    BY <1>5, <2>2, <2>3
  <2> QED BY <2>1, <2>4
<1>13. \A k \in 0..n : k \in T
  <2> HIDE DEF T
  <2> QED BY <1>1, <1>11, <1>12, UpTo
<1>14. filled[n] \in A
  <2>1. n \in 0..n
    BY <1>1
  <2> QED BY <1>13, <2>1
<1> QED BY <1>1, <1>3, <1>14

-----------------------------------------------------------------------------
Offers(all, d) == \E i \in 1..Len(all) : all[i].doc = d /\ all[i].p >= CWThreshold

\* No reading of a page judged it better.
JudgedAsBest(m, all) ==
  \A k \in 1..Len(m), i \in 1..Len(all) : all[i].doc = m[k].doc /\ all[i].page = m[k].page => all[i].p <= m[k].p

\* What merge promises of the pages of a pool.
Shares(all, m) ==
  /\ m \in Seq(CWEntry) /\ From(m, all) /\ (all # <<>> => m # <<>>)
  /\ \A j, k \in 1..Len(m) : j < k => m[j].p >= m[k].p
  /\ KeysDiffer(m) /\ JudgedAsBest(m, all)
  /\ \/ Len(m) <= 2 /\ \A d \in CWNames : ~Offers(all, d)
     \/ Len(m) <= CWLimit /\ \A d \in CWNames : Cardinality(OfDoc(m, d)) <= CWPerDoc
  /\ \A d, other \in CWNames : Offers(all, d) /\ OfDoc(m, d) = {} => Cardinality(OfDoc(m, other)) <= 1

\* Sorting moves a document's pages and keeps their number.
LEMMA SortedCount ==
  ASSUME NEW es \in Seq(CWEntry), NEW d, NEW at, Sorts(ByConfidence(es), es, at)
  PROVE  Cardinality(OfDoc(ByConfidence(es), d)) = Cardinality(OfDoc(es, d))
<1> DEFINE out == ByConfidence(es)
           n == Len(es)
           S == OfDoc(out, d)
           T == OfDoc(es, d)
           f == [k \in S |-> at[k]]
<1>1. out \in Seq(CWEntry) /\ Len(out) = n
  BY Sorted
<1>2. \A k : k \in S <=> k \in 1..n /\ out[k].doc = d
  BY <1>1 DEF OfDoc
<1>3. \A k : k \in T <=> k \in 1..n /\ es[k].doc = d
  BY DEF OfDoc
<1>4. /\ \A k \in 1..n : at[k] \in 1..n /\ out[k] = es[at[k]]
      /\ \A x \in 1..n : \E k \in 1..n : at[k] = x
      /\ \A j, k \in 1..n : at[j] = at[k] => j = k
  BY DEF Sorts
<1>5. IsFiniteSet(S)
  BY <1>1, OfDocFinite
<1> HIDE DEF out, n, S, T
<1>6. ASSUME NEW k \in S PROVE at[k] \in T
  <2>1. k \in 1..n /\ out[k].doc = d
    BY <1>2
  <2>2. at[k] \in 1..n /\ out[k] = es[at[k]]
    BY <1>4, <2>1
  <2> QED BY <1>3, <2>1, <2>2
<1>7. f \in [S -> T] /\ \A k \in S : f[k] = at[k]
  BY <1>6
<1> HIDE DEF f
<1>8. \A x, y \in S : f[x] = f[y] => x = y
  BY <1>2, <1>4, <1>7
<1>9. ASSUME NEW t \in T PROVE \E x \in S : f[x] = t
  <2>1. t \in 1..n /\ es[t].doc = d
    BY <1>3
  <2>2. PICK k \in 1..n : at[k] = t
    BY <1>4, <2>1
  <2>3. k \in S
    BY <1>2, <1>4, <2>1, <2>2
  <2> QED BY <1>7, <2>2, <2>3
<1>10. Cardinality(T) = Cardinality(S)
  BY <1>5, <1>7, <1>8, <1>9, PairedOff
<1> QED BY <1>10 DEF S, T, out

\* Sorting keeps pages, and keeps them apart.
LEMMA SortedKeeps ==
  ASSUME NEW es \in Seq(CWEntry)
  PROVE  /\ ByConfidence(es) \in Seq(CWEntry) /\ Len(ByConfidence(es)) = Len(es)
         /\ \A k \in 1..Len(es) : \E i \in 1..Len(es) : ByConfidence(es)[k] = es[i]
         /\ \A i \in 1..Len(es) : \E k \in 1..Len(es) : ByConfidence(es)[k] = es[i]
         /\ \A j, k \in 1..Len(es) : j < k => ByConfidence(es)[j].p >= ByConfidence(es)[k].p
         /\ KeysDiffer(es) => KeysDiffer(ByConfidence(es))
         /\ \A d : Cardinality(OfDoc(ByConfidence(es), d)) = Cardinality(OfDoc(es, d))
<1> DEFINE out == ByConfidence(es)
           n == Len(es)
<1>1. out \in Seq(CWEntry) /\ Len(out) = n /\ \E f : Sorts(out, es, f)
  BY Sorted
<1>2. PICK at : Sorts(out, es, at)
  BY <1>1
<1>3. /\ \A k \in 1..n : at[k] \in 1..n /\ out[k] = es[at[k]]
      /\ \A x \in 1..n : \E k \in 1..n : at[k] = x
      /\ \A j, k \in 1..n : at[j] = at[k] => j = k
      /\ \A j, k \in 1..n : j < k => out[j].p >= out[k].p
  BY <1>2 DEF Sorts
<1>4. \A d : Cardinality(OfDoc(out, d)) = Cardinality(OfDoc(es, d))
  BY <1>2, SortedCount
<1> HIDE DEF out, n
<1>5. /\ \A k \in 1..n : \E i \in 1..n : out[k] = es[i]
      /\ \A i \in 1..n : \E k \in 1..n : out[k] = es[i]
  <2>1. ASSUME NEW i \in 1..n PROVE \E k \in 1..n : out[k] = es[i]
    <3>1. PICK k \in 1..n : at[k] = i
      BY <1>3
    <3> QED BY <1>3, <3>1
  <2>2. ASSUME NEW k \in 1..n PROVE \E i \in 1..n : out[k] = es[i]
    BY <1>3
  <2> QED BY <2>1, <2>2
<1>6. KeysDiffer(es) => KeysDiffer(out)
  <2>1. SUFFICES ASSUME KeysDiffer(es), NEW j \in 1..n, NEW k \in 1..n,
                        out[j].doc = out[k].doc, out[j].page = out[k].page
                 PROVE  j = k
    BY <1>1 DEF KeysDiffer
  <2>2. at[j] = at[k]
    <3>1. at[j] \in 1..Len(es) /\ at[k] \in 1..Len(es) /\ out[j] = es[at[j]] /\ out[k] = es[at[k]]
      BY <1>3 DEF n
    <3>2. es[at[j]].doc = es[at[k]].doc /\ es[at[j]].page = es[at[k]].page
      BY <2>1, <3>1
    <3> QED BY <2>1, <3>1, <3>2 DEF KeysDiffer
  <2> QED BY <1>3, <2>2
<1> QED BY <1>1, <1>3, <1>4, <1>5, <1>6 DEF out, n

\* The evidence merge makes of a pool is shared among its documents.
LEMMA MergeShares ==
  ASSUME NEW all \in Seq(CWEntry)
  PROVE  Shares(all, merge(all))
<1> DEFINE once == OncePerPage(all)
           ranked == ByConfidence(once)
           P == {k \in DOMAIN ranked : ranked[k].p >= CWThreshold}
           above == Picked(ranked, P)
           second == SecondPass(above)
           m == merge(all)
<1>0. m = IF above = <<>> THEN FirstN(ranked, 2) ELSE ByConfidence(second)
  BY DEF merge
<1>1. once \in Seq(CWEntry) /\ KeysDiffer(once) /\ From(once, all) /\ CoversPages(once, all)
  BY OnceEach
<1>2. /\ ranked \in Seq(CWEntry) /\ Len(ranked) = Len(once) /\ KeysDiffer(ranked)
      /\ \A k \in 1..Len(once) : \E i \in 1..Len(once) : ranked[k] = once[i]
      /\ \A i \in 1..Len(once) : \E k \in 1..Len(once) : ranked[k] = once[i]
      /\ \A j, k \in 1..Len(once) : j < k => ranked[j].p >= ranked[k].p
  BY <1>1, SortedKeeps
<1> HIDE DEF once, ranked, m
<1>3. From(ranked, all)
  <2>1. SUFFICES ASSUME NEW k \in 1..Len(ranked) PROVE \E i \in 1..Len(all) : ranked[k] = all[i]
    BY DEF From
  <2>2. PICK j \in 1..Len(once) : ranked[k] = once[j]
    BY <1>2
  <2>3. PICK i \in 1..Len(all) : once[j] = all[i]
    BY <1>1 DEF From
  <2> QED BY <2>2, <2>3
<1>4. CoversPages(ranked, all)
  <2>1. SUFFICES ASSUME NEW i \in 1..Len(all)
                 PROVE  \E k \in 1..Len(ranked) :
                          ranked[k].doc = all[i].doc /\ ranked[k].page = all[i].page /\ ranked[k].p >= all[i].p
    BY DEF CoversPages
  <2>2. PICK x \in 1..Len(once) : once[x].doc = all[i].doc /\ once[x].page = all[i].page /\ once[x].p >= all[i].p
    BY <1>1 DEF CoversPages
  <2>3. PICK k \in 1..Len(once) : ranked[k] = once[x]
    BY <1>2
  <2> QED BY <1>2, <2>2, <2>3
<1>4a. ASSUME NEW z \in 1..Len(ranked), NEW i \in 1..Len(all),
              all[i].doc = ranked[z].doc, all[i].page = ranked[z].page
       PROVE  all[i].p <= ranked[z].p
  <2>1. PICK k \in 1..Len(ranked) : ranked[k].doc = all[i].doc /\ ranked[k].page = all[i].page /\ ranked[k].p >= all[i].p
    BY <1>4 DEF CoversPages
  <2>2. k = z
    BY <1>2, <1>4a, <2>1 DEF KeysDiffer
  <2>3. all[i].p \in Nat /\ ranked[z].p \in Nat
    BY <1>2, EntryParts
  <2> QED BY <2>1, <2>2, <2>3
<1>5. /\ P \in SUBSET (1..Len(ranked)) /\ CWThreshold \in Nat
      /\ \A k \in 1..Len(ranked) : k \in P <=> ranked[k].p >= CWThreshold
  <2>1. DOMAIN ranked = 1..Len(ranked)
    BY <1>2
  <2>2. CWThreshold \in Nat
    BY CorpusAssumption DEF CorpusAssumption
  <2> QED BY <2>1, <2>2
<1> HIDE DEF P
<1>6. /\ above \in Seq(CWEntry) /\ \E f : Picks(above, ranked, P, f)
  BY <1>2, <1>5, PickedList
<1> HIDE DEF above
<1>7. PICK at : Picks(above, ranked, P, at)
  BY <1>6
<1>8. \A k \in 1..Len(above) : at[k] \in P /\ at[k] \in 1..Len(ranked) /\ above[k] = ranked[at[k]]
  <2>1. \A k \in 1..Len(above) : at[k] \in P /\ above[k] = ranked[at[k]]
    BY <1>7 DEF Picks
  <2> QED BY <1>5, <2>1
<1>9. ASSUME NEW d, Offers(all, d) PROVE \E i \in 1..Len(above) : above[i].doc = d
  <2>1. PICK i \in 1..Len(all) : all[i].doc = d /\ all[i].p >= CWThreshold
    BY <1>9 DEF Offers
  <2>2. PICK k \in 1..Len(ranked) : ranked[k].doc = all[i].doc /\ ranked[k].p >= all[i].p
    BY <1>4 DEF CoversPages
  <2>3. all[i].p \in Nat /\ ranked[k].p \in Nat
    BY <1>2, EntryParts
  <2>4. k \in P
    BY <1>5, <2>1, <2>2, <2>3
  <2>5. PICK x \in 1..Len(above) : at[x] = k
    BY <1>7, <2>4 DEF Picks
  <2> QED BY <1>8, <2>1, <2>2, <2>5
<1>10. CASE above = <<>>
  <2>1. m = FirstN(ranked, 2) /\ Len(above) = 0
    BY <1>0, <1>10
  <2>2. /\ m \in Seq(CWEntry) /\ Len(m) = Smaller(Len(ranked), 2)
        /\ \A k \in 1..Len(m) : k \in 1..Len(ranked) /\ m[k] = ranked[k]
    <3>1. ranked \in Seq(CWEntry) /\ 2 \in Nat
      BY <1>2
    <3>2. /\ FirstN(ranked, 2) \in Seq(CWEntry) /\ Len(FirstN(ranked, 2)) = Smaller(Len(ranked), 2)
          /\ \A k \in 1..Len(FirstN(ranked, 2)) : k \in 1..Len(ranked) /\ FirstN(ranked, 2)[k] = ranked[k]
      BY <3>1, FirstItems
    <3> QED BY <2>1, <3>2
  <2>3. \A d : ~Offers(all, d)
    BY <1>9, <2>1
  <2>4. Len(ranked) \in Nat /\ Len(m) \in Nat /\ Len(m) <= 2 /\ (Len(ranked) # 0 => Len(m) # 0)
    BY <1>2, <2>2 DEF Smaller
  <2>5. From(m, all) /\ KeysDiffer(m)
    <3>1. From(m, all)
      BY <1>3, <2>2 DEF From
    <3>2. KeysDiffer(ranked)
      BY <1>2
    <3>3. KeysDiffer(m)
      BY <2>2, <3>2 DEF KeysDiffer
    <3> QED BY <3>1, <3>3
  <2>6. \A j, k \in 1..Len(m) : j < k => m[j].p >= m[k].p
    BY <1>2, <2>2
  <2>7. ASSUME all # <<>> PROVE m # <<>>
    <3>1. 1 \in 1..Len(all)
      BY <2>7
    <3>2. Len(ranked) # 0
      BY <1>4, <2>4, <3>1 DEF CoversPages
    <3> QED BY <2>4, <3>2
  <2>8. JudgedAsBest(m, all)
    BY <1>4a, <2>2 DEF JudgedAsBest
  <2> QED BY <2>2, <2>3, <2>4, <2>5, <2>6, <2>7, <2>8 DEF Shares, m
<1>11. CASE above # <<>>
  <2>1. m = ByConfidence(second)
    BY <1>0, <1>11
  <2>2. Filling(second, above)
    BY <1>6, SecondPages
  <2> HIDE DEF second
  <2>3. second \in Seq(CWEntry) /\ From(second, above) /\ NoTwice(second) /\ second # <<>>
    BY <1>11, <2>2 DEF Filling
  <2>4. \A i, j \in 1..Len(above) : above[i].doc = above[j].doc /\ above[i].page = above[j].page => above[i] = above[j]
    <3>1. \A i, j \in 1..Len(ranked) : ranked[i].doc = ranked[j].doc /\ ranked[i].page = ranked[j].page => i = j
      BY <1>2 DEF KeysDiffer
    <3>2. SUFFICES ASSUME NEW i \in 1..Len(above), NEW j \in 1..Len(above),
                          above[i].doc = above[j].doc, above[i].page = above[j].page
                   PROVE  above[i] = above[j]
      OBVIOUS
    <3>3. at[i] \in 1..Len(ranked) /\ at[j] \in 1..Len(ranked) /\ above[i] = ranked[at[i]] /\ above[j] = ranked[at[j]]
      BY <1>8
    <3>4. at[i] = at[j]
      BY <3>1, <3>2, <3>3
    <3> QED BY <3>3, <3>4
  <2>5. KeysDiffer(second)
    <3>1. SUFFICES ASSUME NEW j \in 1..Len(second), NEW k \in 1..Len(second),
                          second[j].doc = second[k].doc, second[j].page = second[k].page
                   PROVE  j = k
      BY DEF KeysDiffer
    <3>2. PICK x \in 1..Len(above) : second[j] = above[x]
      BY <2>3 DEF From
    <3>3. PICK y \in 1..Len(above) : second[k] = above[y]
      BY <2>3 DEF From
    <3>4. above[x] = above[y]
      BY <2>4, <3>1, <3>2, <3>3
    <3> QED BY <2>3, <3>2, <3>3, <3>4 DEF NoTwice
  <2>6. /\ m \in Seq(CWEntry) /\ Len(m) = Len(second) /\ KeysDiffer(m)
        /\ \A k \in 1..Len(second) : \E i \in 1..Len(second) : m[k] = second[i]
        /\ \A i \in 1..Len(second) : \E k \in 1..Len(second) : m[k] = second[i]
        /\ \A j, k \in 1..Len(second) : j < k => m[j].p >= m[k].p
        /\ \A d : Cardinality(OfDoc(m, d)) = Cardinality(OfDoc(second, d))
    BY <2>1, <2>3, <2>5, SortedKeeps
  <2>7. From(m, all)
    <3>1. SUFFICES ASSUME NEW k \in 1..Len(m) PROVE \E i \in 1..Len(all) : m[k] = all[i]
      BY DEF From
    <3>2. PICK x \in 1..Len(second) : m[k] = second[x]
      BY <2>6
    <3>3. PICK y \in 1..Len(above) : second[x] = above[y]
      BY <2>3 DEF From
    <3>4. PICK z \in 1..Len(ranked) : above[y] = ranked[z]
      BY <1>8
    <3> QED BY <1>3, <3>2, <3>3, <3>4 DEF From
  <2>8. Len(m) <= CWLimit /\ \A d \in CWNames : Cardinality(OfDoc(m, d)) <= CWPerDoc
    BY <2>2, <2>6 DEF Filling
  <2>9. ASSUME NEW d \in CWNames, NEW other \in CWNames, Offers(all, d), OfDoc(m, d) = {}
        PROVE  Cardinality(OfDoc(m, other)) <= 1
    <3>1. PICK i \in 1..Len(above) : above[i].doc = d
      BY <1>9, <2>9
    <3>2. ASSUME AllDocs(second, above) PROVE FALSE
      <4>1. PICK x \in 1..Len(second) : second[x].doc = d
        BY <3>1, <3>2 DEF AllDocs
      <4>2. PICK k \in 1..Len(second) : m[k] = second[x]
        BY <2>6
      <4>3. k \in OfDoc(m, d)
        BY <2>6, <4>1, <4>2 DEF OfDoc
      <4> QED BY <2>9, <4>3
    <3>3. Cardinality(OfDoc(second, other)) <= 1
      BY <2>2, <3>2 DEF Filling
    <3> QED BY <2>6, <3>3
  <2>10. \A j, k \in 1..Len(m) : j < k => m[j].p >= m[k].p
    BY <2>6
  <2>11. m # <<>>
    BY <2>3, <2>6
  <2>12. JudgedAsBest(m, all)
    <3>1. SUFFICES ASSUME NEW k \in 1..Len(m), NEW i \in 1..Len(all),
                          all[i].doc = m[k].doc, all[i].page = m[k].page
                   PROVE  all[i].p <= m[k].p
      BY DEF JudgedAsBest
    <3>2. PICK x \in 1..Len(second) : m[k] = second[x]
      BY <2>6
    <3>3. PICK y \in 1..Len(above) : second[x] = above[y]
      BY <2>3 DEF From
    <3>4. PICK z \in 1..Len(ranked) : above[y] = ranked[z]
      BY <1>8
    <3> QED BY <1>4a, <3>1, <3>2, <3>3, <3>4
  <2> QED BY <2>6, <2>7, <2>8, <2>9, <2>10, <2>11, <2>12 DEF Shares, m
<1> QED BY <1>10, <1>11

-----------------------------------------------------------------------------
(***************************************************************************)
(* The invariant of a corpus query.                                        *)
(***************************************************************************)
NamedTwice(d) == \E i, j \in DOMAIN CWDocs : i # j /\ CWDocs[i] = d /\ CWDocs[j] = d
Consulted == DOMAIN CWDocs \ Unconsulted
EnoughRead == Cardinality(Consulted) >= Smaller(Smaller(CWMinDocs, CWMaxDocs), Len(CWDocs))

CWTypes ==
  /\ cwPhase \in {"hop", "route", "read", "cover", "done", "error", "answered"}
  /\ cwHop \in 1..(CWMaxHops + 1) /\ (cwPhase \in {"route", "read", "cover"} => cwHop <= CWMaxHops)
  /\ read \subseteq CWNames /\ cwErrors \subseteq read /\ covered \in Nat

\* A failed document brings pages only by another naming of it.
Brings(d) == d \in read /\ (d \in cwErrors => NamedTwice(d))

\* The pages gathered are of documents that may bring some, and the evidence
\* is what merge makes of them.
PoolFits ==
  /\ pool \in Seq(CWEntry) /\ Shares(pool, merged)
  /\ \A k \in 1..Len(pool) : Brings(pool[k].doc)

\* Routing is over the namings of unread documents.
RouteFits == cwPhase = "route" => score \in [Unconsulted -> Nat]

\* A reader that is not done has no pages, and one whose document failed
\* elsewhere reads another naming of it.
ReaderFits(k) ==
  /\ chosen[k] \in read /\ fetched[k] \in Seq([page : Nat, p : Nat])
  /\ \A i \in 1..Len(pool) : pool[i].doc # chosen[k]
  /\ reader[k] # "done" => fetched[k] = <<>>
  /\ reader[k] \in {"wait", "run", "done", "failed", "gone"}
  /\ reader[k] = "failed" => chosen[k] \in cwErrors
  /\ reader[k] = "gone" => cwGone
  /\ reader[k] # "failed" /\ chosen[k] \in cwErrors => NamedTwice(chosen[k])

\* Those chosen have no page in the pool yet, and are as many namings.
ReadersFit ==
  IF cwPhase = "read"
  THEN /\ chosen \in Seq(CWNames) /\ DOMAIN reader = DOMAIN chosen /\ DOMAIN fetched = DOMAIN chosen
       /\ \A k \in DOMAIN chosen : ReaderFits(k)
       /\ \A j, k \in DOMAIN chosen : j # k /\ chosen[j] = chosen[k] => NamedTwice(chosen[k])
  ELSE \A k \in DOMAIN reader : reader[k] = "done" \/ chosen[k] \in cwErrors \/ cwGone

\* Each hop reads at most CWMaxDocs documents, and the first one enough.
BudgetFits ==
  /\ Cardinality(read) <= CWMaxHops * CWMaxDocs
  /\ cwPhase \in {"hop", "route"} => Cardinality(read) <= (cwHop - 1) * CWMaxDocs
  /\ cwPhase \in {"read", "cover"} => Cardinality(read) <= cwHop * CWMaxDocs
  /\ cwPhase \in {"read", "cover", "done", "answered"} \/ cwHop > 1 => EnoughRead
  /\ cwPhase \in {"hop", "route"} /\ cwHop = 1 => read = {}

OutFits ==
  cwPhase = "answered" =>
    /\ \A k \in DOMAIN cwOut.cites : cwOut.cites[k] \in DOMAIN merged
    /\ cwOut.resp.evidence = <<>> <=> cwOut.cites = <<>>
    /\ cwOut.resp.abstained => covered < CWAnswerable \/ merged = <<>>

CWInv == CWTypes /\ PoolFits /\ RouteFits /\ ReadersFit /\ BudgetFits /\ OutFits

-----------------------------------------------------------------------------
(***************************************************************************)
(* Routing, gathering and citing.                                          *)
(***************************************************************************)
\* The namings asked about are listed by their ids, each once.
LEMMA IdOrder ==
  ASSUME NEW S \in SUBSET DOMAIN CWDocs
  PROVE  /\ IsFiniteSet(S) /\ Cardinality(S) \in Nat
         /\ InOrder(S, ById) \in Seq(S) /\ Len(InOrder(S, ById)) = Cardinality(S)
         /\ \A j, k \in DOMAIN InOrder(S, ById) : InOrder(S, ById)[j] = InOrder(S, ById)[k] => j = k
<1> DEFINE R == {p \in S \X S : ById(p[1], p[2])}
           order == InOrder(S, ById)
<1>1. /\ IsFiniteSet(S) /\ Cardinality(S) \in Nat
      /\ \A x \in S : x \in Int /\ CWDocs[x] \in Nat
  <2>1. CWDocs \in Seq(Nat)
    BY CorpusAssumption DEF CorpusAssumption
  <2>2. Len(CWDocs) \in Nat /\ DOMAIN CWDocs = 1..Len(CWDocs) /\ \A x \in 1..Len(CWDocs) : CWDocs[x] \in Nat
    BY <2>1
  <2>3. IsFiniteSet(1..Len(CWDocs))
    BY <2>2, PlacesAreFinite
  <2> QED BY <2>2, <2>3, PartsAreFinite
<1>2. \A x, y \in S : <<x, y>> \in R <=> ById(x, y)
  OBVIOUS
<1>3. StrictOrder(S, R)
  <2> HIDE DEF R
  <2> QED BY <1>1, <1>2 DEF StrictOrder, ById
<1>4. \A x \in S : Below(S, R, x) = {y \in S : ById(y, x)}
  BY DEF Below
<1>5. order = [k \in 1..Cardinality(S) |-> CHOOSE x \in S : Cardinality({y \in S : ById(y, x)}) = k - 1]
  BY DEF InOrder
<1> HIDE DEF R, order
<1>6. ASSUME NEW k \in DOMAIN order PROVE order[k] \in S /\ Cardinality(Below(S, R, order[k])) = k - 1
  <2>1. k \in 1..Cardinality(S)
    BY <1>5
  <2>2. \E x \in S : Cardinality(Below(S, R, x)) = k - 1
    BY <1>1, <1>3, <2>1, Ranks
  <2>3. \E x \in S : Cardinality({y \in S : ById(y, x)}) = k - 1
    BY <1>4, <2>2
  <2>4. order[k] = CHOOSE x \in S : Cardinality({y \in S : ById(y, x)}) = k - 1
    BY <1>5, <2>1
  <2>5. order[k] \in S /\ Cardinality({y \in S : ById(y, order[k])}) = k - 1
    BY <2>3, <2>4, Zenon
  <2> QED BY <1>4, <2>5
<1>7. DOMAIN order = 1..Cardinality(S) /\ order = [k \in DOMAIN order |-> order[k]]
  <2> DEFINE at(k) == CHOOSE x \in S : Cardinality({y \in S : ById(y, x)}) = k - 1
  <2>1. order = [k \in 1..Cardinality(S) |-> at(k)]
    BY <1>5
  <2> HIDE DEF at
  <2> QED BY <2>1
<1>8. order \in Seq(S) /\ Len(order) = Cardinality(S)
  <2>1. order \in [1..Cardinality(S) -> S]
    BY <1>6, <1>7
  <2> QED BY <1>1, <2>1
<1>9. \A j, k \in DOMAIN order : order[j] = order[k] => j = k
  <2>1. \A k \in DOMAIN order : Cardinality(Below(S, R, order[k])) = k - 1
    BY <1>6
  <2> QED BY <1>1, <1>3, <1>8, <2>1, Enumerated
<1> QED BY <1>1, <1>8, <1>9 DEF order

\* The namings asked about are routed once each.
LEMMA RoutedList ==
  ASSUME NEW D \in SUBSET DOMAIN CWDocs, NEW scores \in [D -> Nat]
  PROVE  /\ Routed(scores) \in Seq(D) /\ Len(Routed(scores)) = Cardinality(D) /\ Cardinality(D) \in Nat
         /\ NoTwice(Routed(scores))
<1> DEFINE list == InOrder(D, ById)
           n == Len(list)
           sc == [i \in 1..n |-> scores[list[i]]]
           before(x) == {y \in DOMAIN list : scores[list[y]] > scores[list[x]]
                                             \/ (scores[list[y]] = scores[list[x]] /\ y < x)}
           order == [k \in 1..Cardinality(DOMAIN list) |-> CHOOSE x \in DOMAIN list : Cardinality(before(x)) = k - 1]
           out == Routed(scores)
<1>1. DOMAIN scores = D
  OBVIOUS
<1>2. /\ list \in Seq(D) /\ n = Cardinality(D) /\ n \in Nat /\ Cardinality(D) \in Nat
      /\ \A j, k \in DOMAIN list : list[j] = list[k] => j = k
  BY IdOrder
<1>3. out = [k \in DOMAIN order |-> list[order[k]]]
  <2>1. out = StableByScore(InOrder(D, ById), LAMBDA i : scores[i])
    BY <1>1 DEF Routed
  <2> QED BY <2>1 DEF StableByScore, InOrder
<1> HIDE DEF list, out
<1>4. DOMAIN list = 1..n /\ \A k \in 1..n : list[k] \in D /\ scores[list[k]] \in Nat
  BY <1>2
<1>5. \A x \in 1..n : before(x) = ScoredBefore(n, sc, x)
  BY <1>4 DEF ScoredBefore
<1>6. sc \in [1..n -> Int]
  BY <1>4
<1> HIDE DEF n, sc, before
<1>7. /\ Cardinality(1..n) = n
      /\ \A k \in 1..n : \E x \in 1..n : Cardinality(ScoredBefore(n, sc, x)) = k - 1
  BY <1>2, <1>6, ScoreRanks
<1>8. ASSUME NEW k \in 1..n PROVE order[k] \in 1..n /\ Cardinality(ScoredBefore(n, sc, order[k])) = k - 1
  <2>1. \E x \in DOMAIN list : Cardinality(before(x)) = k - 1
    BY <1>4, <1>5, <1>7
  <2>2. order[k] = CHOOSE x \in DOMAIN list : Cardinality(before(x)) = k - 1
    BY <1>4, <1>7
  <2>3. order[k] \in DOMAIN list /\ Cardinality(before(order[k])) = k - 1
    <3> HIDE DEF order
    <3> QED BY <2>1, <2>2, Zenon
  <2> QED BY <1>4, <1>5, <2>3
<1>9. order \in [1..n -> 1..n]
  <2> DEFINE pick(k) == CHOOSE x \in DOMAIN list : Cardinality(before(x)) = k - 1
  <2>1. order = [k \in 1..n |-> pick(k)]
    BY <1>4, <1>7
  <2> HIDE DEF order, pick
  <2> QED BY <1>8, <2>1
<1> HIDE DEF order
<1>10. ByRank(n, sc, order)
  BY <1>6, <1>8, <1>9 DEF ByRank
<1>11. \A j, k \in 1..n : order[j] = order[k] => j = k
  BY <1>2, <1>10, ScoreOrder
<1>12. out \in Seq(D) /\ Len(out) = n /\ \A k \in 1..n : order[k] \in 1..n /\ out[k] = list[order[k]]
  <2>1. \A k \in 1..n : order[k] \in 1..n /\ list[order[k]] \in D
    BY <1>4, <1>9
  <2>2. out = [k \in 1..n |-> list[order[k]]]
    BY <1>3, <1>9
  <2>3. out \in [1..n -> D] /\ \A k \in 1..n : out[k] = list[order[k]]
    BY <2>1, <2>2
  <2>4. n \in Nat
    BY <1>2
  <2>5. out \in Seq(D) /\ Len(out) = n
    BY <2>3, <2>4
  <2> QED BY <2>1, <2>3, <2>5
<1>13. \A i, j \in 1..n : list[i] = list[j] => i = j
  BY <1>2, <1>4
<1>14. NoTwice(out)
  <2>1. SUFFICES ASSUME NEW j \in 1..n, NEW k \in 1..n, out[j] = out[k] PROVE j = k
    BY <1>12 DEF NoTwice
  <2>2. order[j] = order[k]
    <3>1. order[j] \in 1..n /\ order[k] \in 1..n /\ list[order[j]] = list[order[k]]
      BY <1>12, <2>1
    <3> QED BY <1>13, <3>1
  <2> QED BY <1>11, <2>2
<1> QED BY <1>2, <1>12, <1>14 DEF out

\* A hop reads few enough namings, each once, and the first one enough.
LEMMA Choice ==
  ASSUME NEW D \in SUBSET DOMAIN CWDocs, NEW scores \in [D -> Nat], NEW hop \in Nat
  PROVE  /\ choose(scores, hop) \in Seq(D) /\ NoTwice(choose(scores, hop)) /\ Len(choose(scores, hop)) <= CWMaxDocs
         /\ hop = 1 => Len(choose(scores, hop)) >= Smaller(Smaller(CWMinDocs, CWMaxDocs), Cardinality(D))
<1> DEFINE routed == Routed(scores)
           least == IF hop = 1 THEN Smaller(CWMinDocs, CWMaxDocs) ELSE 0
           P == {k \in DOMAIN routed : scores[routed[k]] >= CWThreshold \/ k <= least}
           picked == Picked(routed, P)
           out == choose(scores, hop)
           c == Cardinality(D)
<1>1. CWMinDocs \in Nat \ {0} /\ CWMaxDocs \in Nat \ {0}
  BY CorpusAssumption DEF CorpusAssumption
<1>2. out = FirstN(picked, CWMaxDocs)
  BY DEF choose
<1>3. routed \in Seq(D) /\ Len(routed) = c /\ c \in Nat /\ NoTwice(routed)
  BY RoutedList
<1> HIDE DEF routed, out, c
<1>4. DOMAIN routed = 1..c
  BY <1>3
<1>5. P \in SUBSET (1..Len(routed)) /\ (hop = 1 => \A k \in 1..c : k <= Smaller(CWMinDocs, CWMaxDocs) => k \in P)
  BY <1>3, <1>4
<1> HIDE DEF P
<1>6. /\ IsFiniteSet(P) /\ Cardinality(P) \in Nat /\ picked \in Seq(D) /\ Len(picked) = Cardinality(P)
      /\ \E f : Picks(picked, routed, P, f)
  BY <1>3, <1>5, PickedList
<1> HIDE DEF picked
<1>7. PICK at : Picks(picked, routed, P, at)
  BY <1>6
<1>8. /\ out \in Seq(D) /\ Len(out) = Smaller(Len(picked), CWMaxDocs)
      /\ \A k \in 1..Len(out) : k \in 1..Len(picked) /\ out[k] = picked[k]
  BY <1>1, <1>2, <1>6, FirstItems
<1>9. NoTwice(out)
  <2>1. SUFFICES ASSUME NEW j \in 1..Len(out), NEW k \in 1..Len(out), out[j] = out[k] PROVE j = k
    BY DEF NoTwice
  <2>2. j \in 1..Len(picked) /\ k \in 1..Len(picked) /\ picked[j] = picked[k]
    BY <1>8, <2>1
  <2>3. at[j] \in P /\ at[k] \in P /\ routed[at[j]] = routed[at[k]]
    BY <1>7, <2>2 DEF Picks
  <2>3a. at[j] \in 1..Len(routed) /\ at[k] \in 1..Len(routed) /\ Len(routed) \in Nat /\ Len(picked) \in Nat
    BY <1>3, <1>5, <1>6, <2>3
  <2>4. at[j] = at[k] /\ at[j] \in Int /\ j \in Int /\ k \in Int
    <3>1. at[j] = at[k]
      BY <1>3, <2>3, <2>3a DEF NoTwice
    <3> QED BY <2>2, <2>3a, <3>1
  <2>5. ~(j < k) /\ ~(k < j)
    BY <1>7, <2>2, <2>4 DEF Picks
  <2> QED BY <2>4, <2>5
<1>10. Len(out) <= CWMaxDocs
  BY <1>1, <1>6, <1>8 DEF Smaller
<1>11. ASSUME hop = 1 PROVE Len(out) >= Smaller(Smaller(CWMinDocs, CWMaxDocs), c)
  <2> DEFINE a == Smaller(CWMinDocs, CWMaxDocs)
             b == Smaller(a, c)
  <2>1. a \in Nat /\ a <= CWMaxDocs /\ b \in Nat /\ b <= a /\ b <= c
    BY <1>1, <1>3 DEF Smaller
  <2> HIDE DEF a, b
  <2>2. 1..b \in SUBSET P
    <3>1. \A k \in 1..b : k \in 1..c /\ k <= a
      BY <1>3, <2>1
    <3> QED BY <1>5, <1>11, <3>1 DEF a
  <2>3. b <= Cardinality(P)
    BY <1>6, <2>1, <2>2, FewerParts, PlacesCount
  <2> QED BY <1>1, <1>6, <1>8, <2>1, <2>3 DEF a, b, Smaller
<1> QED BY <1>8, <1>9, <1>10, <1>11 DEF out, c

\* A list of different items has as many as it is long.
LEMMA DistinctCount ==
  ASSUME NEW E, NEW s \in Seq(E), NoTwice(s)
  PROVE  IsFiniteSet(ToSet(s)) /\ Cardinality(ToSet(s)) = Len(s) /\ ToSet(s) \in SUBSET E
<1> DEFINE n == Len(s)
           T == ToSet(s)
           S == 1..n
           f == [k \in S |-> s[k]]
<1>1. n \in Nat /\ DOMAIN s = S /\ IsFiniteSet(S) /\ Cardinality(S) = n
  BY PlacesAreFinite, PlacesCount
<1>2. T = {s[k] : k \in S}
  BY <1>1 DEF ToSet
<1>3. T \in SUBSET E
  BY <1>1, <1>2
<1>4. f \in [S -> T] /\ \A k \in S : f[k] = s[k]
  BY <1>2
<1>5. \A x, y \in S : f[x] = f[y] => x = y
  BY <1>4 DEF NoTwice
<1>6. \A t \in T : \E x \in S : f[x] = t
  BY <1>2, <1>4
<1> HIDE DEF f, T, S
<1>7. IsFiniteSet(T) /\ Cardinality(T) = Cardinality(S)
  <2>1. IsFiniteSet(S) /\ f \in [S -> T]
    BY <1>1, <1>4
  <2> QED BY <1>5, <1>6, <2>1, PairedOff
<1> QED BY <1>1, <1>3, <1>7 DEF T

\* What an answer cites is evidence, and something.
LEMMA CitedFits ==
  ASSUME NEW nums \in SUBSET Nat, NEW n \in Nat \ {0}
  PROVE  Cited(nums, n) # <<>> /\ \A k \in DOMAIN Cited(nums, n) : Cited(nums, n)[k] \in 1..n
<1> DEFINE S == {x \in nums : x >= 1 /\ x <= n}
           some == dedupeInRange(nums, n)
           every == [i \in 1..n |-> i]
<1>1. S \in SUBSET (1..n) /\ S \in SUBSET Nat
  <2>1. \A x \in S : x \in Nat /\ x \in 1..n
    OBVIOUS
  <2> QED BY <2>1
<1>2. IsFiniteSet(S)
  BY <1>1, PlacesAreFinite, PartsAreFinite
<1>3. some = Ascending(S)
  BY DEF dedupeInRange
<1> HIDE DEF S
<1>4. some \in Seq(S)
  BY <1>1, <1>2, <1>3, AscendingList
<1>5. Cited(nums, n) = IF some = <<>> THEN every ELSE some
  BY DEF Cited
<1> HIDE DEF some
<1>6. \A k \in DOMAIN some : some[k] \in 1..n
  <2>1. \A k \in DOMAIN some : some[k] \in S
    BY <1>4
  <2> QED BY <1>1, <2>1
<1>7. every # <<>> /\ \A k \in DOMAIN every : every[k] \in 1..n
  <2>1. 1 \in DOMAIN every /\ \A k \in DOMAIN every : every[k] \in 1..n
    OBVIOUS
  <2>2. DOMAIN <<>> = {}
    OBVIOUS
  <2> HIDE DEF every
  <2> QED BY <2>1, <2>2
<1> HIDE DEF every
<1> QED BY <1>5, <1>6, <1>7

\* The pages gathered are the pool's and those of the readers.
LEMMA GatheredFits ==
  ASSUME NEW Good \in SUBSET CWEntry, pool \in Seq(Good), chosen \in Seq(CWNames),
         \A k \in DOMAIN chosen : PagesOf(k) \in Seq(Good)
  PROVE  Gathered \in Seq(Good)
<1> DEFINE n == Len(chosen)
           A == Seq(Good)
           upTo[k \in 0..n] == IF k = 0 THEN pool ELSE upTo[k - 1] \o PagesOf(k)
           G == [p \in A \X (1..n) |-> p[1] \o PagesOf(p[2])]
<1>1. n \in Nat
  OBVIOUS
<1>2. Gathered = upTo[n]
  BY DEF Gathered
<1>3. \A k \in 1..n : PagesOf(k) \in A
  OBVIOUS
<1>4. \A s \in A, k \in 1..n : s \o PagesOf(k) \in A
  BY <1>3
<1>4a. pool \in A
  OBVIOUS
<1> HIDE DEF n, A
<1>5. G \in [A \X (1..n) -> A] /\ \A s \in A, k \in 1..n : G[<<s, k>>] = s \o PagesOf(k)
  BY <1>4
<1>6. PICK f \in [0..n -> A] : f[0] = pool /\ \A k \in 1..n : f[k] = G[<<f[k - 1], k>>]
  <2> HIDE DEF G
  <2>1. \E f : GoesOn(f, n, A, pool, G)
    BY <1>1, <1>4a, <1>5, PrefixRecursion, Zenon
  <2> QED BY <2>1 DEF GoesOn
<1> HIDE DEF G
<1>7. ASSUME NEW k \in 1..n PROVE f[k] = f[k - 1] \o PagesOf(k)
  <2>1. k - 1 \in 0..n
    BY <1>1
  <2>2. f[k - 1] \in A
    BY <2>1
  <2> QED BY <1>5, <1>6, <2>2
<1>8. f = [k \in 0..n |-> IF k = 0 THEN pool ELSE f[k - 1] \o PagesOf(k)]
  <2>1. \A k \in 0..n : k # 0 => k \in 1..n
    BY <1>1
  <2> QED BY <1>6, <1>7, <2>1
<1>9. upTo = [k \in 0..n |-> IF k = 0 THEN pool ELSE upTo[k - 1] \o PagesOf(k)]
  BY <1>8
<1> HIDE DEF upTo
<1> DEFINE T == {k \in 0..n : upTo[k] \in A}
<1>10. 0 \in T
  BY <1>1, <1>4a, <1>9
<1>11. ASSUME NEW k \in 1..n, k - 1 \in T PROVE k \in T
  <2>1. k \in 0..n /\ k # 0
    BY <1>1
  <2>2. upTo[k] = upTo[k - 1] \o PagesOf(k)
    BY <1>9, <2>1
  <2>3. upTo[k - 1] \in A
    BY <1>11
  <2>4. upTo[k] \in A
    BY <1>4, <2>2, <2>3
  <2> QED BY <2>1, <2>4
<1>12. \A k \in 0..n : k \in T
  <2> HIDE DEF T
  <2> QED BY <1>1, <1>10, <1>11, UpTo
<1>13. upTo[n] \in A
  <2>1. n \in 0..n
    BY <1>1
  <2> QED BY <1>12, <2>1
<1> QED BY <1>2, <1>13 DEF A

\* Products grow with a factor.
LEMMA TimesGrows ==
  ASSUME NEW a \in Nat, NEW b \in Nat, NEW c \in Nat, a <= b
  PROVE  a * c <= b * c /\ a * c \in Nat /\ (a + 1) * c = a * c + c
OBVIOUS

-----------------------------------------------------------------------------
(***************************************************************************)
(* The steps.                                                              *)
(***************************************************************************)
\* What the constants are.
LEMMA CWConstants ==
  /\ CWDocs \in Seq(Nat) /\ Len(CWDocs) \in Nat /\ DOMAIN CWDocs = 1..Len(CWDocs) /\ CWScores \in SUBSET Nat
  /\ CWPages \in SUBSET Seq([page : Nat, p : Nat]) /\ CWThreshold \in Nat /\ CWAnswerable \in Nat
  /\ CWMinDocs \in Nat \ {0} /\ CWMaxDocs \in Nat \ {0} /\ CWPerDoc \in Nat \ {0} /\ CWLimit \in Nat \ {0}
  /\ CWMaxHops \in Nat \ {0}
BY CorpusAssumption DEF CorpusAssumption

\* The items of a list are at most as many as it is long.
LEMMA ItemCount ==
  ASSUME NEW E, NEW s \in Seq(E)
  PROVE  IsFiniteSet(ToSet(s)) /\ Cardinality(ToSet(s)) <= Len(s) /\ Cardinality(ToSet(s)) \in Nat
<1> DEFINE T == ToSet(s)
           f == [k \in 1..Len(s) |-> s[k]]
<1>1. Len(s) \in Nat /\ DOMAIN s = 1..Len(s) /\ IsFiniteSet(1..Len(s)) /\ Cardinality(1..Len(s)) = Len(s)
  BY PlacesAreFinite, PlacesCount
<1>2. T = {s[k] : k \in 1..Len(s)}
  BY <1>1 DEF ToSet
<1>3. f \in [1..Len(s) -> T] /\ \A t \in T : \E k \in 1..Len(s) : f[k] = t
  BY <1>2
<1> HIDE DEF f, T
<1>4. IsFiniteSet(T) /\ Cardinality(T) <= Cardinality(1..Len(s))
  BY <1>1, <1>3, ImageCount
<1> QED BY <1>1, <1>4, PartsAreFinite DEF T

\* The documents read are finitely many, and so are the namings.
LEMMA ReadCounted ==
  ASSUME NEW S, S \in SUBSET CWNames \/ S \in SUBSET DOMAIN CWDocs
  PROVE  IsFiniteSet(S) /\ Cardinality(S) \in Nat
<1>1. IsFiniteSet(CWNames)
  BY CWConstants, ItemCount DEF CWNames
<1>2. IsFiniteSet(DOMAIN CWDocs)
  BY CWConstants, PlacesAreFinite
<1> QED BY <1>1, <1>2, PartsAreFinite

\* A corpus query begins with nothing read.
LEMMA CorpusStart == CWInit => CWInv
<1>1. SUFFICES ASSUME CWInit PROVE CWInv
  OBVIOUS
<1> USE <1>1 DEF CWInit
<1>2. CWTypes
  BY CWConstants DEF CWTypes
<1>3. Len(<<>>) = 0 /\ <<>> \in Seq(CWEntry) /\ DOMAIN <<>> = {}
  OBVIOUS
<1>4. PoolFits
  <2>1. \A d : OfDoc(<<>>, d) = {}
    BY <1>3 DEF OfDoc
  <2>2. \A d : Cardinality(OfDoc(<<>>, d)) = 0
    BY <2>1, NoMembers
  <2>3. \A d : ~Offers(<<>>, d)
    BY <1>3 DEF Offers
  <2>4. From(<<>>, <<>>) /\ KeysDiffer(<<>>) /\ JudgedAsBest(<<>>, <<>>)
    BY <1>3 DEF From, KeysDiffer, JudgedAsBest
  <2>5. Shares(<<>>, <<>>)
    BY <1>3, <2>2, <2>3, <2>4 DEF Shares
  <2> QED BY <1>3, <2>5 DEF PoolFits
<1>5. RouteFits /\ OutFits
  BY DEF RouteFits, OutFits
<1>6. ReadersFit
  BY <1>3 DEF ReadersFit
<1>7. BudgetFits
  <2>1. Cardinality(read) = 0
    BY NoMembers
  <2>2. CWMaxHops * CWMaxDocs \in Nat /\ 0 * CWMaxDocs = 0
    BY CWConstants
  <2> QED BY <2>1, <2>2 DEF BudgetFits
<1> QED BY <1>2, <1>4, <1>5, <1>6, <1>7 DEF CWInv

\* A step that leaves pool, evidence and documents alone.
LEMMA SamePool ==
  ASSUME PoolFits, UNCHANGED <<pool, merged, read, cwErrors>>
  PROVE  PoolFits'
BY DEF PoolFits, Brings

\* A hop begins, or the query is over.
LEMMA HopStep == ASSUME CWInv, BeginHop PROVE CWInv'
<1> USE DEF CWInv, BeginHop
<1>1. cwPhase = "hop" /\ cwPhase' \in {"done", "route"}
  OBVIOUS
<1>2. UNCHANGED <<cwHop, chosen, reader, read, pool, fetched, merged, cwErrors, covered, cwOut, cwGone>>
  OBVIOUS
<1>3. cwPhase' = "route" => cwHop <= CWMaxHops /\ score' = [i \in Unconsulted |-> 0]
  BY CWConstants DEF CWTypes
<1>3a. Unconsulted' = Unconsulted /\ Consulted' = Consulted
  BY <1>2 DEF Unconsulted, Consulted
<1>4. cwPhase' = "done" => Unconsulted = {} \/ cwHop > CWMaxHops
  OBVIOUS
<1>5. CWTypes'
  BY <1>1, <1>2, <1>3 DEF CWTypes
<1>6. PoolFits'
  BY <1>2, SamePool
<1>7. RouteFits'
  BY <1>2, <1>3, <1>3a DEF RouteFits
<1>8. ReadersFit'
  BY <1>1, <1>2 DEF ReadersFit
<1>9. BudgetFits'
  <2>1. ASSUME cwPhase' = "done" PROVE EnoughRead
    <3>1. CASE cwHop > 1
      BY <3>1 DEF BudgetFits
    <3>2. CASE ~(cwHop > 1)
      <4>1. cwHop = 1 /\ read = {}
        BY <1>1, <3>2, CWConstants DEF CWTypes, BudgetFits
      <4>2. ~(cwHop > CWMaxHops)
        BY <4>1, CWConstants
      <4>3. Consulted = DOMAIN CWDocs /\ Cardinality(DOMAIN CWDocs) = Len(CWDocs)
        BY <1>4, <2>1, <4>2, CWConstants, PlacesCount DEF Consulted
      <4>4. Smaller(Smaller(CWMinDocs, CWMaxDocs), Len(CWDocs)) <= Len(CWDocs)
        BY CWConstants DEF Smaller
      <4> QED BY <4>3, <4>4 DEF EnoughRead
    <3> QED BY <3>1, <3>2
  <2>2. EnoughRead' = EnoughRead
    BY <1>3a DEF EnoughRead
  <2> QED BY <1>1, <1>2, <2>1, <2>2 DEF BudgetFits
<1>10. OutFits'
  BY <1>1 DEF OutFits
<1> QED BY <1>5, <1>6, <1>7, <1>8, <1>9, <1>10

\* A batch of the route is answered.
LEMMA RouteStep == ASSUME CWInv, RouteAnswered PROVE CWInv'
<1> USE DEF CWInv
<1>0. PICK b \in routing : \E p \in [b -> CWScores] :
        /\ cwPhase = "route" /\ score' = [i \in DOMAIN score |-> IF i \in b THEN p[i] ELSE score[i]]
        /\ UNCHANGED <<cwPhase, cwHop, chosen, reader, read, pool, fetched, merged, cwErrors, covered, cwOut, cwGone>>
  BY DEF RouteAnswered
<1>1. PICK p \in [b -> CWScores] :
        /\ cwPhase = "route" /\ score' = [i \in DOMAIN score |-> IF i \in b THEN p[i] ELSE score[i]]
        /\ UNCHANGED <<cwPhase, cwHop, chosen, reader, read, pool, fetched, merged, cwErrors, covered, cwOut, cwGone>>
  BY <1>0
<1>2. RouteFits'
  <2>1. score \in [Unconsulted -> Nat] /\ Unconsulted' = Unconsulted
    BY <1>1 DEF RouteFits, Unconsulted
  <2>2. \A d \in b : p[d] \in Nat
    BY CWConstants
  <2>3. score' \in [Unconsulted -> Nat]
    BY <1>1, <2>1, <2>2
  <2> QED BY <1>1, <2>1, <2>3 DEF RouteFits
<1>3. CWTypes' /\ ReadersFit' /\ OutFits'
  BY <1>1 DEF CWTypes, ReadersFit, OutFits
<1>4. PoolFits'
  BY <1>1, SamePool
<1>5. BudgetFits'
  BY <1>1 DEF BudgetFits, EnoughRead, Consulted, Unconsulted
<1> QED BY <1>2, <1>3, <1>4, <1>5

\* A step that ends the query for an error.
LEMMA ErrorStep ==
  ASSUME CWInv, cwPhase \in {"route", "cover"}, cwPhase' = "error",
         UNCHANGED <<cwHop, chosen, reader, read, pool, fetched, merged, cwErrors, covered, cwOut, cwGone>>
  PROVE  CWInv'
<1> USE DEF CWInv
<1>1. CWTypes' /\ RouteFits' /\ ReadersFit' /\ OutFits'
  BY DEF CWTypes, RouteFits, ReadersFit, OutFits, Unconsulted
<1>2. PoolFits'
  BY SamePool
<1>3. BudgetFits'
  BY DEF BudgetFits, EnoughRead, Consulted, Unconsulted
<1> QED BY <1>1, <1>2, <1>3

\* Documents are chosen for reading.
LEMMA ChooseStep == ASSUME CWInv, ChooseDocs PROVE CWInv'
<1> DEFINE picks == choose(score, cwHop)
           docs == [k \in DOMAIN picks |-> CWDocs[picks[k]]]
           D == Unconsulted
<1> USE DEF CWInv
<1>1. /\ cwPhase = "route" /\ cwPhase' = IF picks = <<>> THEN "done" ELSE "read"
      /\ chosen' = docs /\ read' = read \cup {CWDocs[picks[k]] : k \in DOMAIN picks}
      /\ reader' = [k \in DOMAIN picks |-> "wait"] /\ fetched' = [k \in DOMAIN picks |-> <<>>]
      /\ UNCHANGED <<cwHop, pool, merged, cwErrors, covered, cwOut, cwGone>>
  BY DEF ChooseDocs
<1>2. /\ D \in SUBSET DOMAIN CWDocs /\ score \in [D -> Nat] /\ cwHop \in Nat /\ cwHop <= CWMaxHops /\ cwHop >= 1
      /\ read \in SUBSET CWNames /\ cwErrors \in SUBSET read
  BY <1>1, CWConstants DEF CWTypes, RouteFits, Unconsulted
<1>3. picks \in Seq(D) /\ NoTwice(picks) /\ Len(picks) <= CWMaxDocs
  BY <1>2, Choice
<1>4. cwHop = 1 => Len(picks) >= Smaller(Smaller(CWMinDocs, CWMaxDocs), Cardinality(D))
  BY <1>2, Choice
<1> HIDE DEF picks
<1>5. Len(picks) \in Nat /\ DOMAIN picks = 1..Len(picks)
      /\ \A k \in DOMAIN picks : picks[k] \in D /\ picks[k] \in DOMAIN CWDocs /\ CWDocs[picks[k]] \notin read
  <2>1. \A i \in D : i \in DOMAIN CWDocs /\ CWDocs[i] \notin read
    BY DEF Unconsulted
  <2> HIDE DEF D
  <2> QED BY <1>3, <2>1
<1>6. /\ docs \in Seq(CWNames) /\ Len(docs) = Len(picks) /\ DOMAIN docs = DOMAIN picks
      /\ \A k \in DOMAIN picks : docs[k] = CWDocs[picks[k]] /\ docs[k] \in CWNames
  <2>1. \A k \in DOMAIN picks : CWDocs[picks[k]] \in CWNames
    BY <1>5 DEF CWNames, ToSet
  <2>2. docs \in [1..Len(picks) -> CWNames]
    BY <1>5, <2>1
  <2> QED BY <1>5, <2>1, <2>2
<1> HIDE DEF docs
<1>7. /\ read' = read \cup ToSet(docs) /\ ToSet(docs) \in SUBSET CWNames
      /\ \A d \in ToSet(docs) : d \notin read /\ d \notin cwErrors
  <2>1. ToSet(docs) = {docs[k] : k \in DOMAIN picks}
    BY <1>6 DEF ToSet
  <2>2. \A k \in DOMAIN picks : docs[k] \notin read /\ docs[k] \notin cwErrors
    BY <1>2, <1>5, <1>6
  <2> QED BY <1>1, <1>6, <2>1, <2>2
<1>8. ASSUME NEW j \in DOMAIN docs, NEW k \in DOMAIN docs, j # k, docs[j] = docs[k] PROVE NamedTwice(docs[k])
  <2>1. picks[j] # picks[k]
    BY <1>3, <1>5, <1>6, <1>8 DEF NoTwice
  <2>2. picks[j] \in DOMAIN CWDocs /\ picks[k] \in DOMAIN CWDocs /\ CWDocs[picks[j]] = docs[k] /\ CWDocs[picks[k]] = docs[k]
    BY <1>5, <1>6, <1>8
  <2> QED BY <2>1, <2>2 DEF NamedTwice
<1>9. CWTypes'
  BY <1>1, <1>2, <1>7 DEF CWTypes
<1>10. PoolFits'
  <2>1. Shares(pool, merged) /\ pool \in Seq(CWEntry) /\ \A k \in 1..Len(pool) : Brings(pool[k].doc)
    BY DEF PoolFits
  <2>2. Shares(pool, merged)'
    BY <1>1, <2>1
  <2>3. \A k \in 1..Len(pool) : Brings(pool[k].doc)'
    BY <1>1, <2>1 DEF Brings
  <2> QED BY <1>1, <2>1, <2>2, <2>3 DEF PoolFits
<1>11. RouteFits' /\ OutFits'
  BY <1>1 DEF RouteFits, OutFits
<1>12. ReadersFit'
  <2>1. CASE picks = <<>>
    <3>1. cwPhase' = "done" /\ DOMAIN reader' = {}
      BY <1>1, <1>5, <2>1
    <3> QED BY <3>1 DEF ReadersFit
  <2>2. CASE picks # <<>>
    <3>1. cwPhase' = "read" /\ DOMAIN reader' = DOMAIN chosen' /\ DOMAIN fetched' = DOMAIN chosen' /\ chosen' \in Seq(CWNames)
      BY <1>1, <1>6, <2>2
    <3>2. ASSUME NEW k \in DOMAIN chosen' PROVE ReaderFits(k)'
      <4>1. k \in DOMAIN docs /\ k \in DOMAIN picks /\ chosen'[k] = docs[k]
        BY <1>1, <1>6
      <4>2. docs[k] \in ToSet(docs)
        BY <4>1 DEF ToSet
      <4>3. chosen'[k] \in read' /\ chosen'[k] \notin cwErrors' /\ reader'[k] = "wait" /\ fetched'[k] = <<>>
        BY <1>1, <1>7, <4>1, <4>2
      <4>4. \A i \in 1..Len(pool') : pool'[i].doc # chosen'[k]
        BY <1>1, <1>7, <4>1, <4>2 DEF PoolFits, Brings
      <4>5. <<>> \in Seq([page : Nat, p : Nat])
        OBVIOUS
      <4> QED BY <4>3, <4>4, <4>5 DEF ReaderFits
    <3>3. \A j, k \in DOMAIN chosen' : j # k /\ chosen'[j] = chosen'[k] => NamedTwice(chosen'[k])
      BY <1>1, <1>8
    <3> QED BY <3>1, <3>2, <3>3 DEF ReadersFit
  <2> QED BY <2>1, <2>2
<1>13. BudgetFits'
  <2> DEFINE c == Cardinality(read)
             w == Cardinality(read')
             u == Cardinality(ToSet(docs))
  <2>1. c \in Nat /\ w \in Nat /\ IsFiniteSet(read) /\ IsFiniteSet(read') /\ read' \in SUBSET CWNames
    BY <1>2, <1>7, ReadCounted
  <2>2. w = c + u /\ u \in Nat /\ u <= CWMaxDocs
    <3>1. IsFiniteSet(ToSet(docs)) /\ u \in Nat /\ u <= Len(docs)
      BY <1>6, ItemCount
    <3>2. read \cap ToSet(docs) = {}
      BY <1>7
    <3>3. w = c + u - Cardinality(read \cap ToSet(docs))
      BY <1>7, <2>1, <3>1, Together
    <3>4. Cardinality(read \cap ToSet(docs)) = 0
      BY <3>2, NoMembers
    <3>5. CWMaxDocs \in Nat
      BY CWConstants
    <3> HIDE DEF c, w, u
    <3> QED BY <1>3, <1>5, <1>6, <2>1, <3>1, <3>3, <3>4, <3>5
  <2>3. c <= (cwHop - 1) * CWMaxDocs
    BY <1>1 DEF BudgetFits
  <2> HIDE DEF c, w, u
  <2>4. w <= cwHop * CWMaxDocs
    <3>1. cwHop - 1 \in Nat /\ CWMaxDocs \in Nat
      BY <1>2, CWConstants
    <3>2. (cwHop - 1 + 1) * CWMaxDocs = (cwHop - 1) * CWMaxDocs + CWMaxDocs /\ (cwHop - 1) * CWMaxDocs \in Nat
      BY <3>1, TimesGrows
    <3>3. cwHop - 1 + 1 = cwHop
      BY <1>2
    <3> QED BY <2>1, <2>2, <2>3, <3>1, <3>2, <3>3
  <2>5. w <= CWMaxHops * CWMaxDocs
    <3>1. cwHop * CWMaxDocs <= CWMaxHops * CWMaxDocs /\ cwHop * CWMaxDocs \in Nat
      BY <1>2, CWConstants, TimesGrows
    <3>2. CWMaxHops * CWMaxDocs \in Nat
      BY CWConstants
    <3> QED BY <2>1, <2>4, <3>1, <3>2
  <2>6. EnoughRead'
    <3> DEFINE need == Smaller(Smaller(CWMinDocs, CWMaxDocs), Len(CWDocs))
    <3>1. /\ Consulted \in SUBSET Consulted' /\ Consulted' \in SUBSET DOMAIN CWDocs
          /\ Cardinality(Consulted) \in Nat /\ Cardinality(Consulted') \in Nat /\ IsFiniteSet(Consulted')
          /\ need \in Nat
      <4>1. Consulted \in SUBSET Consulted' /\ Consulted' \in SUBSET DOMAIN CWDocs /\ Consulted \in SUBSET DOMAIN CWDocs
        BY <1>7 DEF Consulted, Unconsulted
      <4>2. need \in Nat
        BY CWConstants DEF Smaller
      <4> QED BY <4>1, <4>2, ReadCounted
    <3>2. CASE cwHop = 1
      <4>1. D = DOMAIN CWDocs /\ Cardinality(DOMAIN CWDocs) = Len(CWDocs)
        <5>1. read = {}
          BY <1>1, <3>2 DEF BudgetFits
        <5> QED BY <5>1, CWConstants, PlacesCount DEF Unconsulted
      <4>2. Len(picks) >= need
        BY <1>4, <3>2, <4>1
      <4>3. ToSet(picks) \in SUBSET Consulted' /\ Cardinality(ToSet(picks)) = Len(picks)
        <5>1. \A k \in DOMAIN picks : picks[k] \in Consulted'
          BY <1>1, <1>5 DEF Consulted, Unconsulted
        <5>2. ToSet(picks) \in SUBSET Consulted'
          BY <5>1 DEF ToSet
        <5> QED BY <1>3, <5>2, DistinctCount
      <4>4. Len(picks) <= Cardinality(Consulted')
        BY <3>1, <4>3, FewerParts
      <4>5. need <= Cardinality(Consulted')
        BY <1>5, <3>1, <4>2, <4>4
      <4> QED BY <4>5 DEF EnoughRead
    <3>3. CASE cwHop # 1
      <4>1. Cardinality(Consulted) >= need
        BY <1>2, <3>3 DEF BudgetFits, EnoughRead, Consulted, Unconsulted
      <4>2. Cardinality(Consulted) <= Cardinality(Consulted')
        BY <3>1, FewerParts
      <4> HIDE DEF need
      <4>3. Cardinality(Consulted') >= need
        BY <3>1, <4>1, <4>2
      <4> QED BY <4>3 DEF EnoughRead, need
    <3> QED BY <3>2, <3>3
  <2>7. cwPhase' \in {"done", "read"} /\ cwHop' = cwHop
    BY <1>1
  <2> QED BY <2>4, <2>5, <2>6, <2>7 DEF BudgetFits, w
<1> QED BY <1>9, <1>10, <1>11, <1>12, <1>13

\* A step of one reader: its state, its pages and its error.
LEMMA ReaderStep ==
  ASSUME CWInv, cwPhase = "read", NEW d \in DOMAIN reader, NEW st, NEW pages \in Seq([page : Nat, p : Nat]),
         reader[d] \in {"wait", "run"},
         reader' = [reader EXCEPT ![d] = st], DOMAIN fetched' = DOMAIN fetched, fetched'[d] = pages,
         \A x \in DOMAIN fetched : x # d => fetched'[x] = fetched[x],
         st # "done" => pages = <<>>,
         \/ st \in {"run", "done"} /\ cwErrors' = cwErrors
         \/ st = "failed" /\ cwErrors' = cwErrors \cup {chosen[d]}
         \/ st = "gone" /\ cwErrors' = cwErrors /\ cwGone,
         UNCHANGED <<cwPhase, cwHop, chosen, read, pool, merged, covered, cwOut, cwGone>>
  PROVE  CWInv'
<1> USE DEF CWInv
<1>1. /\ chosen \in Seq(CWNames) /\ DOMAIN reader = DOMAIN chosen /\ DOMAIN fetched = DOMAIN chosen /\ d \in DOMAIN chosen
      /\ \A k \in DOMAIN chosen : ReaderFits(k)
      /\ \A j, k \in DOMAIN chosen : j # k /\ chosen[j] = chosen[k] => NamedTwice(chosen[k])
  BY DEF ReadersFit
<1>2. chosen[d] \in read /\ \A k \in 1..Len(pool) : pool[k].doc # chosen[d]
  BY <1>1 DEF ReaderFits
<1>3. CWTypes' /\ RouteFits' /\ OutFits'
  BY <1>2 DEF CWTypes, RouteFits, OutFits, Unconsulted
<1>4. PoolFits'
  <2>1. \A k \in 1..Len(pool) : Brings(pool[k].doc) /\ pool[k].doc # chosen[d]
    BY <1>2 DEF PoolFits
  <2>2. \A k \in 1..Len(pool) : Brings(pool[k].doc)'
    BY <2>1 DEF Brings
  <2> QED BY <2>1, <2>2 DEF PoolFits
<1>5. BudgetFits'
  BY DEF BudgetFits, EnoughRead, Consulted, Unconsulted
<1>6. ReadersFit'
  <2>1. ASSUME NEW x \in DOMAIN chosen PROVE ReaderFits(x)'
    <3>1. CASE x = d
      <4>1. reader'[x] = st /\ fetched'[x] = pages
        BY <1>1, <3>1
      <4>2. chosen[x] \in cwErrors => NamedTwice(chosen[x])
        BY <1>1, <3>1 DEF ReaderFits
      <4> QED BY <1>2, <3>1, <4>1, <4>2 DEF ReaderFits
    <3>2. CASE x # d
      <4>1. reader'[x] = reader[x] /\ fetched'[x] = fetched[x]
        BY <1>1, <3>2
      <4>2. chosen[x] \in cwErrors' => chosen[x] \in cwErrors \/ NamedTwice(chosen[x])
        BY <1>1, <3>2
      <4>3. chosen[x] \in cwErrors => chosen[x] \in cwErrors'
        OBVIOUS
      <4> QED BY <1>1, <4>1, <4>2, <4>3 DEF ReaderFits
    <3> QED BY <3>1, <3>2
  <2>2. DOMAIN reader' = DOMAIN chosen' /\ DOMAIN fetched' = DOMAIN chosen' /\ chosen' = chosen
    BY <1>1
  <2> QED BY <1>1, <2>1, <2>2 DEF ReadersFit
<1> QED BY <1>3, <1>4, <1>5, <1>6

\* A reader starts, gives up, is done or fails.
LEMMA ReadingStep ==
  ASSUME CWInv, NEW k \in DOMAIN reader, StartReading(k) \/ GiveUpReading(k) \/ ReadDone(k) \/ ReadFails(k)
  PROVE  CWInv'
<1>1. <<>> \in Seq([page : Nat, p : Nat])
  OBVIOUS
<1>2. ASSUME cwPhase = "read", reader[k] \in {"wait", "run"} PROVE fetched[k] = <<>>
  BY <1>2 DEF CWInv, ReadersFit, ReaderFits
<1>3. CASE StartReading(k)
  <2>1. /\ cwPhase = "read" /\ reader[k] \in {"wait", "run"} /\ reader' = [reader EXCEPT ![k] = "run"]
        /\ fetched' = fetched /\ cwErrors' = cwErrors
        /\ UNCHANGED <<cwPhase, cwHop, chosen, read, pool, merged, covered, cwOut, cwGone>>
    BY <1>3 DEF StartReading
  <2>2. fetched'[k] = <<>>
    BY <1>2, <2>1
  <2> QED BY <1>1, <2>1, <2>2, ReaderStep
<1>4. CASE GiveUpReading(k)
  <2>1. /\ cwPhase = "read" /\ reader[k] \in {"wait", "run"} /\ reader' = [reader EXCEPT ![k] = "gone"]
        /\ fetched' = fetched /\ cwErrors' = cwErrors /\ cwGone
        /\ UNCHANGED <<cwPhase, cwHop, chosen, read, pool, merged, covered, cwOut, cwGone>>
    BY <1>4 DEF GiveUpReading
  <2>2. fetched'[k] = <<>>
    BY <1>2, <2>1
  <2> QED BY <1>1, <2>1, <2>2, ReaderStep
<1>5. CASE ReadDone(k)
  <2>1. PICK pages \in CWPages :
          /\ cwPhase = "read" /\ reader[k] \in {"wait", "run"} /\ reader' = [reader EXCEPT ![k] = "done"]
          /\ fetched' = [fetched EXCEPT ![k] = pages] /\ cwErrors' = cwErrors
          /\ UNCHANGED <<cwPhase, cwHop, chosen, read, pool, merged, covered, cwOut, cwGone>>
    BY <1>5 DEF ReadDone
  <2>2. pages \in Seq([page : Nat, p : Nat])
    BY CWConstants
  <2>3. k \in DOMAIN fetched
    BY <2>1 DEF CWInv, ReadersFit
  <2>4. DOMAIN fetched' = DOMAIN fetched /\ fetched'[k] = pages /\ \A x \in DOMAIN fetched : x # k => fetched'[x] = fetched[x]
    BY <2>1, <2>3
  <2> QED BY <2>1, <2>2, <2>4, ReaderStep
<1>6. CASE ReadFails(k)
  <2>1. /\ cwPhase = "read" /\ reader[k] \in {"wait", "run"} /\ reader' = [reader EXCEPT ![k] = "failed"]
        /\ fetched' = fetched /\ cwErrors' = cwErrors \cup {chosen[k]}
        /\ UNCHANGED <<cwPhase, cwHop, chosen, read, pool, merged, covered, cwOut, cwGone>>
    BY <1>6 DEF ReadFails
  <2>2. fetched'[k] = <<>>
    BY <1>2, <2>1
  <2> QED BY <1>1, <2>1, <2>2, ReaderStep
<1> QED BY <1>3, <1>4, <1>5, <1>6

\* The pages of a hop are merged with the pool.
LEMMA MergeStep == ASSUME CWInv, MergePages PROVE CWInv'
<1> DEFINE Good == {e \in CWEntry : Brings(e.doc)}
<1> USE DEF CWInv
<1>1. /\ cwPhase = "read" /\ \A k \in DOMAIN reader : reader[k] \notin {"wait", "run"}
      /\ pool' = Gathered /\ merged' = merge(Gathered) /\ cwPhase' = "cover"
      /\ UNCHANGED <<cwHop, chosen, reader, read, cwErrors, covered, cwOut, cwGone>>
  BY DEF MergePages
<1>2. Good \in SUBSET CWEntry
  OBVIOUS
<1>3. pool \in Seq(Good)
  <2>1. pool \in Seq(CWEntry) /\ \A k \in 1..Len(pool) : Brings(pool[k].doc)
    BY DEF PoolFits
  <2>2. \A k \in 1..Len(pool) : pool[k] \in CWEntry
    BY <2>1
  <2>3. \A k \in 1..Len(pool) : pool[k] \in Good
    BY <2>1, <2>2
  <2> HIDE DEF Good
  <2> QED BY <2>1, <2>3
<1>4. chosen \in Seq(CWNames) /\ DOMAIN reader = DOMAIN chosen /\ \A k \in DOMAIN chosen : ReaderFits(k)
  BY <1>1 DEF ReadersFit
<1>5. ASSUME NEW x \in DOMAIN chosen PROVE PagesOf(x) \in Seq(Good)
  <2> DEFINE s == fetched[x]
             d == chosen[x]
  <2>1. s \in Seq([page : Nat, p : Nat]) /\ d \in read /\ d \in CWNames
    BY <1>4 DEF ReaderFits, CWTypes
  <2>2. s # <<>> => Brings(d)
    BY <1>4 DEF ReaderFits, Brings
  <2>3. PagesOf(x) = [k \in DOMAIN s |-> [doc |-> d, page |-> s[k].page, p |-> s[k].p]]
    BY DEF PagesOf
  <2> HIDE DEF d
  <2> HIDE DEF s
  <2>4. Len(s) \in Nat /\ DOMAIN s = 1..Len(s) /\ \A k \in 1..Len(s) : s[k].page \in Nat /\ s[k].p \in Nat
    <3> DEFINE R == [page : Nat, p : Nat]
    <3>1. \A e \in R : e.page \in Nat /\ e.p \in Nat
      OBVIOUS
    <3>2. s \in Seq(R)
      BY <2>1
    <3> HIDE DEF R
    <3>3. Len(s) \in Nat /\ DOMAIN s = 1..Len(s) /\ \A k \in 1..Len(s) : s[k] \in R
      BY <3>2
    <3> QED BY <3>1, <3>3
  <2>5. ASSUME NEW k \in 1..Len(s) PROVE [doc |-> d, page |-> s[k].page, p |-> s[k].p] \in Good
    <3>1. Brings(d)
      <4>1. s # <<>>
        BY <2>4
      <4> QED BY <2>1, <2>2, <4>1
    <3>2. [doc |-> d, page |-> s[k].page, p |-> s[k].p] \in CWEntry
      BY <2>1, <2>4 DEF CWEntry
    <3> QED BY <3>1, <3>2
  <2> HIDE DEF Good
  <2>6. [k \in 1..Len(s) |-> [doc |-> d, page |-> s[k].page, p |-> s[k].p]] \in [1..Len(s) -> Good]
    BY <2>5
  <2> QED BY <2>3, <2>4, <2>6
<1> HIDE DEF Good
<1>6. Gathered \in Seq(Good)
  BY <1>2, <1>3, <1>4, <1>5, GatheredFits
<1> DEFINE all == Gathered
<1> HIDE DEF all
<1>7. all \in Seq(Good) /\ pool' = all /\ merged' = merge(all)
  BY <1>1, <1>6 DEF all
<1>8. /\ all \in Seq(CWEntry) /\ \A k \in 1..Len(all) : Brings(all[k].doc)
  <2>1. \A k \in 1..Len(all) : all[k] \in Good
    BY <1>7
  <2>2. \A k \in 1..Len(all) : Brings(all[k].doc)
    BY <2>1 DEF Good
  <2> QED BY <1>2, <1>7, <2>2
<1>9. Shares(all, merge(all))
  BY <1>8, MergeShares
<1>10. PoolFits'
  BY <1>1, <1>7, <1>8, <1>9 DEF PoolFits, Brings
<1>11. CWTypes' /\ RouteFits' /\ OutFits'
  BY <1>1 DEF CWTypes, RouteFits, OutFits, Unconsulted
<1>12. BudgetFits'
  BY <1>1 DEF BudgetFits, EnoughRead, Consulted, Unconsulted
<1>13. ReadersFit'
  <2>1. ASSUME NEW k \in DOMAIN reader PROVE reader[k] = "done" \/ chosen[k] \in cwErrors \/ cwGone
    BY <1>1, <1>4 DEF ReaderFits
  <2> QED BY <1>1, <2>1 DEF ReadersFit
<1> QED BY <1>10, <1>11, <1>12, <1>13

\* The evidence is asked about: the query is over, or another hop begins.
LEMMA CoverStep == ASSUME CWInv, Coverage PROVE CWInv'
<1> USE DEF CWInv
<1>1. /\ cwPhase = "cover" /\ covered' \in CWScores
      /\ (cwPhase' = "done" /\ cwHop' = cwHop) \/ (cwPhase' = "hop" /\ cwHop' = cwHop + 1)
      /\ UNCHANGED <<chosen, reader, read, pool, fetched, merged, cwErrors, cwOut, cwGone>>
  <2>1. PICK c \in CWScores :
          /\ cwPhase = "cover" /\ covered' = c
          /\ IF c >= CWThreshold \/ (AddedKeys = 0 /\ cwHop > 1)
             THEN cwPhase' = "done" /\ UNCHANGED cwHop
             ELSE cwPhase' = "hop" /\ cwHop' = cwHop + 1
          /\ UNCHANGED <<chosen, reader, read, pool, fetched, merged, cwErrors, cwOut, cwGone>>
    BY DEF Coverage
  <2> QED BY <2>1
<1>2. cwHop \in Nat /\ cwHop >= 1 /\ cwHop <= CWMaxHops /\ covered' \in Nat
  BY <1>1, CWConstants DEF CWTypes
<1>3. CWTypes'
  BY <1>1, <1>2, CWConstants DEF CWTypes
<1>4. PoolFits'
  BY <1>1, SamePool
<1>5. RouteFits' /\ ReadersFit' /\ OutFits'
  BY <1>1 DEF RouteFits, ReadersFit, OutFits
<1>6. BudgetFits'
  <2>1. EnoughRead /\ Cardinality(read) <= cwHop * CWMaxDocs /\ Cardinality(read) <= CWMaxHops * CWMaxDocs
    BY <1>1 DEF BudgetFits
  <2>2. EnoughRead' /\ read' = read
    BY <1>1, <2>1 DEF EnoughRead, Consulted, Unconsulted
  <2>3. CASE cwPhase' = "done" /\ cwHop' = cwHop
    BY <2>1, <2>2, <2>3 DEF BudgetFits
  <2>4. CASE cwPhase' = "hop" /\ cwHop' = cwHop + 1
    <3>1. cwHop' - 1 = cwHop /\ cwHop' # 1
      BY <1>2, <2>4
    <3> QED BY <2>1, <2>2, <2>4, <3>1 DEF BudgetFits
  <2> QED BY <1>1, <2>3, <2>4
<1> QED BY <1>3, <1>4, <1>5, <1>6

\* The client goes away.
LEMMA GoneStep == ASSUME CWInv, CWClientGone PROVE CWInv'
<1> USE DEF CWInv
<1>1. /\ cwGone' = TRUE
      /\ UNCHANGED <<cwPhase, cwHop, score, chosen, reader, read, pool, fetched, merged, cwErrors, covered, cwOut>>
  BY DEF CWClientGone
<1>2. CWTypes' /\ RouteFits' /\ OutFits'
  BY <1>1 DEF CWTypes, RouteFits, OutFits, Unconsulted
<1>3. PoolFits'
  BY <1>1, SamePool
<1>4. BudgetFits'
  BY <1>1 DEF BudgetFits, EnoughRead, Consulted, Unconsulted
<1>5. ReadersFit'
  <2>1. CASE cwPhase = "read"
    BY <1>1, <2>1 DEF ReadersFit, ReaderFits
  <2>2. CASE cwPhase # "read"
    BY <1>1, <2>2 DEF ReadersFit
  <2> QED BY <2>1, <2>2
<1> QED BY <1>2, <1>3, <1>4, <1>5

\* The query is answered.
LEMMA RespondStep == ASSUME CWInv, RespondCorpus PROVE CWInv'
<1> USE DEF CWInv
<1>1. PICK abstain \in BOOLEAN, marks \in SUBSET (1..CWLimit) :
        LET resp == corpusResponse(abstain)
        IN  /\ cwPhase = "done" /\ cwPhase' = "answered"
            /\ cwOut' = [resp |-> resp,
                         cites |-> IF resp.evidence = <<>> THEN <<>> ELSE Cited(marks, Len(resp.evidence))]
            /\ UNCHANGED <<cwHop, chosen, reader, read, pool, fetched, merged, cwErrors, covered, cwGone>>
  BY DEF RespondCorpus
<1> DEFINE resp == corpusResponse(abstain)
           shown == resp.evidence
           cites == IF shown = <<>> THEN <<>> ELSE Cited(marks, Len(shown))
<1>2. cwOut' = [resp |-> resp, cites |-> cites]
  BY <1>1
<1>3. /\ cwPhase = "done" /\ cwPhase' = "answered"
      /\ UNCHANGED <<cwHop, chosen, reader, read, pool, fetched, merged, cwErrors, covered, cwGone>>
  BY <1>1
<1>4. shown = (IF abstain /\ ~Answerable THEN <<>> ELSE merged) /\ (resp.abstained => ~Answerable)
  BY DEF corpusResponse
<1>5. merged \in Seq(CWEntry) /\ covered \in Nat
  BY DEF PoolFits, Shares, CWTypes
<1> HIDE DEF resp, shown
<1>6. (shown = <<>> <=> cites = <<>>) /\ \A k \in DOMAIN cites : cites[k] \in DOMAIN merged
  <2>1. CASE shown = <<>>
    <3>1. cites = <<>> /\ DOMAIN <<>> = {}
      BY <2>1
    <3> QED BY <2>1, <3>1
  <2>2. CASE shown # <<>>
    <3>1. shown = merged
      BY <1>4, <2>2
    <3>2. Len(merged) \in Nat \ {0} /\ DOMAIN merged = 1..Len(merged)
      BY <1>5, <2>2, <3>1
    <3>3. marks \in SUBSET Nat
      BY CWConstants
    <3>4. Cited(marks, Len(merged)) # <<>> /\ \A k \in DOMAIN Cited(marks, Len(merged)) : Cited(marks, Len(merged))[k] \in 1..Len(merged)
      BY <3>2, <3>3, CitedFits
    <3>5. cites = Cited(marks, Len(merged))
      BY <2>2, <3>1
    <3> HIDE DEF cites
    <3> QED BY <2>2, <3>2, <3>4, <3>5
  <2> QED BY <2>1, <2>2
<1>7. resp.abstained => covered < CWAnswerable \/ merged = <<>>
  <2>1. ~Answerable => covered < CWAnswerable \/ merged = <<>>
    BY <1>5, CWConstants DEF Answerable
  <2> QED BY <1>4, <2>1
<1> HIDE DEF cites
<1>8. cwOut'.resp = resp /\ cwOut'.cites = cites /\ cwOut'.resp.evidence = shown
  BY <1>2 DEF shown
<1>9. OutFits'
  <2>1. \A k \in DOMAIN cwOut'.cites : cwOut'.cites[k] \in DOMAIN merged'
    BY <1>3, <1>6, <1>8
  <2>2. cwOut'.resp.evidence = <<>> <=> cwOut'.cites = <<>>
    BY <1>6, <1>8
  <2>3. cwOut'.resp.abstained => covered' < CWAnswerable \/ merged' = <<>>
    BY <1>3, <1>7, <1>8
  <2> QED BY <2>1, <2>2, <2>3 DEF OutFits
<1>10. CWTypes' /\ RouteFits' /\ ReadersFit'
  BY <1>3 DEF CWTypes, RouteFits, ReadersFit
<1>11. PoolFits'
  BY <1>3, SamePool
<1>12. BudgetFits'
  BY <1>3 DEF BudgetFits, EnoughRead, Consulted, Unconsulted
<1> QED BY <1>9, <1>10, <1>11, <1>12

\* Every step of a corpus query keeps its invariant.
LEMMA CorpusStep == ASSUME CWInv, [CWNext]_cwVars PROVE CWInv'
<1>1. CASE UNCHANGED cwVars
  <2> USE <1>1 DEF cwVars, CWInv
  <2>1. CWTypes' /\ RouteFits' /\ OutFits'
    BY DEF CWTypes, RouteFits, OutFits, Unconsulted
  <2>2. PoolFits'
    BY SamePool
  <2>3. ReadersFit'
    BY DEF ReadersFit, ReaderFits
  <2>4. BudgetFits'
    BY DEF BudgetFits, EnoughRead, Consulted, Unconsulted
  <2> QED BY <2>1, <2>2, <2>3, <2>4
<1>2. CASE RouteFails
  <2>1. /\ cwPhase \in {"route", "cover"} /\ cwPhase' = "error"
        /\ UNCHANGED <<cwHop, chosen, reader, read, pool, fetched, merged, cwErrors, covered, cwOut, cwGone>>
    BY <1>2 DEF RouteFails
  <2> QED BY <2>1, ErrorStep
<1>3. CASE CoverageFails
  <2>1. /\ cwPhase \in {"route", "cover"} /\ cwPhase' = "error"
        /\ UNCHANGED <<cwHop, chosen, reader, read, pool, fetched, merged, cwErrors, covered, cwOut, cwGone>>
    BY <1>3 DEF CoverageFails
  <2> QED BY <2>1, ErrorStep
<1>4. CASE \E k \in DOMAIN reader : StartReading(k) \/ GiveUpReading(k) \/ ReadDone(k) \/ ReadFails(k)
  BY <1>4, ReadingStep
<1>5. CASE RespondCorpus \/ BeginHop \/ RouteAnswered \/ ChooseDocs
  BY <1>5, RespondStep, HopStep, RouteStep, ChooseStep
<1>6. CASE MergePages \/ Coverage \/ CWClientGone
  BY <1>6, MergeStep, CoverStep, GoneStep
<1> QED BY <1>1, <1>2, <1>3, <1>4, <1>5, <1>6 DEF CWNext, CWStep

\* The invariant of a corpus query says that its evidence is shared and its
\* documents accounted for.
LEMMA CorpusFollows == CWInv => CorpusSound
<1>1. SUFFICES ASSUME CWInv PROVE CorpusSound
  OBVIOUS
<1> USE <1>1 DEF CWInv
<1>2. /\ Shares(pool, merged) /\ pool \in Seq(CWEntry) /\ read \in SUBSET CWNames
      /\ \A k \in 1..Len(pool) : Brings(pool[k].doc)
  BY DEF PoolFits, CWTypes
<1>3. merged \in Seq(CWEntry)
  BY <1>2 DEF Shares
<1>4. Len(pool) \in Nat /\ DOMAIN pool = 1..Len(pool) /\ Len(merged) \in Nat /\ DOMAIN merged = 1..Len(merged)
  BY <1>2, <1>3
<1>5. ToSet(pool) = {pool[k] : k \in 1..Len(pool)} /\ ToSet(merged) = {merged[k] : k \in 1..Len(merged)}
  BY <1>4 DEF ToSet
<1>6. EvidenceIsShared
  <2> DEFINE offered(d) == {e \in ToSet(pool) : e.doc = d /\ e.p >= CWThreshold}
             of(d) == {k \in DOMAIN merged : merged[k].doc = d}
             bestGuess == Len(merged) <= 2 /\ \A d \in read : offered(d) = {}
  <2>1. \A d : of(d) = OfDoc(merged, d)
    BY <1>4 DEF OfDoc
  <2>2. \A d : offered(d) # {} <=> Offers(pool, d)
    BY <1>5 DEF Offers
  <2>3. ToSet(merged) \subseteq ToSet(pool) /\ (pool # <<>> => merged # <<>>)
    BY <1>2, <1>5 DEF Shares, From
  <2>4. \A j, k \in DOMAIN merged : j < k => merged[j].p >= merged[k].p
    BY <1>2, <1>4 DEF Shares
  <2>5. \A j, k \in DOMAIN merged : evidenceKey(merged[j]) = evidenceKey(merged[k]) => j = k
    BY <1>2, <1>4 DEF Shares, KeysDiffer, evidenceKey
  <2>5a. \A k \in DOMAIN merged, e \in ToSet(pool) : evidenceKey(e) = evidenceKey(merged[k]) => e.p <= merged[k].p
    BY <1>2, <1>4, <1>5 DEF Shares, JudgedAsBest, evidenceKey
  <2> HIDE DEF offered, of
  <2>6. bestGuess \/ (Len(merged) <= CWLimit /\ \A d \in read : Cardinality(of(d)) <= CWPerDoc)
    BY <1>2, <2>1, <2>2 DEF Shares
  <2>7. \A d, other \in read : offered(d) # {} /\ of(d) = {} => Cardinality(of(other)) <= 1
    BY <1>2, <2>1, <2>2 DEF Shares
  <2> QED BY <2>3, <2>4, <2>5, <2>5a, <2>6, <2>7 DEF EvidenceIsShared, offered, of
<1>7. DocumentsAccounted
  <2>1. \A e \in ToSet(pool) : Brings(e.doc)
    BY <1>2, <1>5
  <2>1a. \A e \in ToSet(pool) : e.doc \in read
    BY <2>1 DEF Brings
  <2>1b. \A e \in ToSet(pool) :
           e.doc \in cwErrors => \E i, j \in DOMAIN CWDocs : i # j /\ CWDocs[i] = e.doc /\ CWDocs[j] = e.doc
    BY <2>1 DEF Brings, NamedTwice
  <2>2. cwErrors \subseteq read /\ cwHop <= CWMaxHops + 1 /\ Cardinality(read) <= CWMaxHops * CWMaxDocs
    BY CWConstants DEF CWTypes, BudgetFits
  <2>3. cwPhase \in {"done", "answered"} /\ ~cwGone => \A k \in DOMAIN reader : reader[k] = "done" \/ chosen[k] \in cwErrors
    BY DEF ReadersFit
  <2>4. cwPhase = "done" /\ ~cwGone =>
          Cardinality(DOMAIN CWDocs \ Unconsulted) >= Smaller(Smaller(CWMinDocs, CWMaxDocs), Len(CWDocs))
    BY DEF BudgetFits, EnoughRead, Consulted
  <2>5. OutFits
    OBVIOUS
  <2> QED BY <2>1a, <2>1b, <2>2, <2>3, <2>4, <2>5, Zenon DEF DocumentsAccounted, OutFits
<1> QED BY <1>6, <1>7 DEF CorpusSound

\* What a corpus query shows for evidence, whatever documents are named, and
\* however often: pages of documents it read, a failed one's only if it was
\* named more than once, shared among those that have some, best first, each
\* as the best of its readings judged it; and every document it chose is read
\* or reported, within its budget.
THEOREM ServedCorpus == ServingSpec => []CorpusSound
<1>1. ServingInit => CWInv
  BY PartsStart, CorpusStart
<1>2. CWInv /\ [ServingNext]_servingVars => CWInv'
  BY PartsStep, CorpusStep
<1>3. CWInv => CorpusSound
  BY CorpusFollows
<1> QED BY <1>1, <1>2, <1>3, PTL DEF ServingSpec

-----------------------------------------------------------------------------
(***************************************************************************)
(* THE QUERIES, for any requests, documents, plans and sizes of caches.    *)
(***************************************************************************)

-----------------------------------------------------------------------------
(***************************************************************************)
(* The cache: what its operations leave are entries it had, or the new     *)
(* one.                                                                    *)
(***************************************************************************)
\* An element of a sequence is one of its set.
LEMMA EntryOf == ASSUME NEW E, NEW c \in Seq(E), NEW i \in DOMAIN c PROVE c[i] \in E
OBVIOUS

\* What follows the head of a sequence.
LEMMA TailOf ==
  ASSUME NEW E, NEW c \in Seq(E), c # <<>>
  PROVE  /\ Head(c) = c[1] /\ Head(c) \in E /\ 1 \in DOMAIN c
         /\ Tail(c) \in Seq(E) /\ Len(Tail(c)) = Len(c) - 1
         /\ \A i \in DOMAIN Tail(c) : Tail(c)[i] = c[i + 1] /\ i + 1 \in DOMAIN c
<1>1. Len(c) \in Nat /\ Len(c) > 0
  OBVIOUS
<1> QED BY <1>1

\* A key that is held has a place, and its entry is one of the cache's.
LEMMA LruPlaceIsEntry ==
  ASSUME NEW E, NEW c \in Seq(E), NEW k, LruPlaces(c, k) # {}
  PROVE  LruPlace(c, k) \in 1..Len(c) /\ c[LruPlace(c, k)] \in E /\ c[LruPlace(c, k)].key = k
<1>1. LruPlace(c, k) \in LruPlaces(c, k)
  BY Zenon DEF LruPlace
<1>2. LruPlace(c, k) \in DOMAIN c /\ c[LruPlace(c, k)].key = k
  BY <1>1 DEF LruPlaces
<1> QED BY <1>2

\* Removing an entry leaves the others.
LEMMA RemoveAtLeaves ==
  ASSUME NEW E, NEW c \in Seq(E), NEW i \in 1..Len(c)
  PROVE  RemoveAt(c, i) \in Seq(E)
<1>1. SubSeq(c, 1, i - 1) \in Seq(E)
  OBVIOUS
<1>2. SubSeq(c, i + 1, Len(c)) \in Seq(E)
  OBVIOUS
<1> QED BY <1>1, <1>2 DEF RemoveAt

\* Get adds nothing.
LEMMA LruGetLeaves ==
  ASSUME NEW E, NEW c \in Seq(E), NEW k
  PROVE  LruGet(c, k) \in Seq(E)
<1>1. CASE LruPlaces(c, k) = {}
  BY <1>1 DEF LruGet
<1>2. CASE LruPlaces(c, k) # {}
  <2> DEFINE p == LruPlace(c, k)
             front == IF LruHolds(c, k) THEN <<c[p]>> ELSE <<>>
  <2>1. p \in 1..Len(c) /\ c[p] \in E
    BY <1>2, LruPlaceIsEntry
  <2>2. RemoveAt(c, p) \in Seq(E)
    BY <2>1, RemoveAtLeaves
  <2>3. front \in Seq(E)
    BY <2>1
  <2>4. LruGet(c, k) = front \o RemoveAt(c, p)
    BY <1>2 DEF LruGet
  <2> HIDE DEF p, front
  <2> QED BY <2>2, <2>3, <2>4
<1> QED BY <1>1, <1>2

\* Set adds the one entry.
LEMMA LruSetLeaves ==
  ASSUME NEW E, NEW c \in Seq(E), NEW k, NEW v, NEW max \in Nat \ {0},
         [key |-> k, value |-> v, live |-> TRUE] \in E
  PROVE  LruSet(c, k, v, max) \in Seq(E)
<1> DEFINE e == [key |-> k, value |-> v, live |-> TRUE]
           rest == IF LruPlaces(c, k) # {} THEN RemoveAt(c, LruPlace(c, k)) ELSE FirstN(c, max - 1)
<1>1. CASE LruPlaces(c, k) # {}
  <2>1. rest \in Seq(E)
    BY <1>1, LruPlaceIsEntry, RemoveAtLeaves
  <2> QED BY <2>1 DEF LruSet
<1>2. CASE LruPlaces(c, k) = {}
  <2> DEFINE n == IF Len(c) < max - 1 THEN Len(c) ELSE max - 1
  <2>1. n \in 0..Len(c)
    OBVIOUS
  <2>2. rest = SubSeq(c, 1, n)
    BY <1>2 DEF FirstN
  <2> HIDE DEF n
  <2>3. rest \in Seq(E)
    BY <2>1, <2>2
  <2> QED BY <2>3 DEF LruSet
<1> QED BY <1>1, <1>2

\* An entry that expires is the same but for that.
LEMMA LruExpireLeaves ==
  ASSUME NEW E, NEW c \in Seq(E), NEW i \in DOMAIN c, [c[i] EXCEPT !.live = FALSE] \in E
  PROVE  LruExpire(c, i) \in Seq(E)
BY DEF LruExpire

\* A Get never brings a key in.
LEMMA LruGetKeepsMiss ==
  ASSUME NEW E, NEW c \in Seq(E), NEW j, NEW k, ~LruHolds(c, k)
  PROVE  ~LruHolds(LruGet(c, j), k)
<1> DEFINE Present == {c[i] : i \in DOMAIN c}
<1>1. c \in Seq(Present)
  OBVIOUS
<1>2. \A e \in Present : e.key = k => ~e.live
  BY DEF LruHolds, LruPlaces
<1> HIDE DEF Present
<1>3. LruGet(c, j) \in Seq(Present)
  BY <1>1, LruGetLeaves
<1>4. \A i \in DOMAIN LruGet(c, j) : LruGet(c, j)[i] \in Present
  BY <1>3
<1> QED BY <1>2, <1>4, Zenon DEF LruHolds, LruPlaces

\* Nor does an entry that expires.
LEMMA LruExpireKeepsMiss ==
  ASSUME NEW K, NEW V, NEW c \in Seq([key: K, value: V, live: BOOLEAN]), NEW i \in DOMAIN c,
         NEW k, ~LruHolds(c, k)
  PROVE  ~LruHolds(LruExpire(c, i), k)
<1>1. DOMAIN LruExpire(c, i) = DOMAIN c
  BY DEF LruExpire
<1>2. \A h \in DOMAIN c : LruExpire(c, i)[h] = IF h = i THEN [c[i] EXCEPT !.live = FALSE] ELSE c[h]
  BY DEF LruExpire
<1>3. c[i] \in [key: K, value: V, live: BOOLEAN]
  BY EntryOf
<1>4. [c[i] EXCEPT !.live = FALSE].live = FALSE
  BY <1>3
<1>5. ASSUME NEW h \in DOMAIN c, LruExpire(c, i)[h].live, LruExpire(c, i)[h].key = k
      PROVE  FALSE
  <2>1. h # i
    BY <1>2, <1>4, <1>5
  <2>2. c[h].live /\ c[h].key = k
    BY <1>2, <1>5, <2>1
  <2> QED BY <2>2, Zenon DEF LruHolds, LruPlaces
<1> QED BY <1>1, <1>5, Zenon DEF LruHolds, LruPlaces

-----------------------------------------------------------------------------
(***************************************************************************)
(* Requests about one document: types and the shape of a handler's steps.  *)
(***************************************************************************)
QPSteps ==
  {"start", "plan", "lock", "planning", "select", "primary", "fallback", "selected", "rerank", "write", "done"}
FoundType == [sel: QPSelections, of: STRING, by: {"primary", "fallback"}]
PlanEntryType == [key: STRING, value: QPPlanType, live: BOOLEAN]

\* Found selections are of their key, and the fallback's only after an outage.
SelEntries ==
  {e \in [key: STRING, value: FoundType, live: BOOLEAN] :
     e.value.of = e.key /\ (e.value.by = "fallback" => e.key \in outages)}

QPTypeOK ==
  /\ qpAsk \in Seq(QPRequestType)
  /\ qpStep \in [qpAsked -> QPSteps]
  /\ qpPlan \in [qpAsked -> QPPlanType \cup {NoPlan}]
  /\ qpTodo \in [qpAsked -> Seq(STRING)]
  /\ qpFound \in [qpAsked -> Seq(FoundType)]
  /\ planCache \in Seq(PlanEntryType)
  /\ selCache \in Seq(SelEntries)

\* Requests are numbered from 1.
LEMMA AskedType ==
  ASSUME QPTypeOK
  PROVE  qpAsked \subseteq Nat \ {Free} /\ \A q \in qpAsked : qpAsk[q] \in QPRequestType /\ qpAsk[q].query \in STRING
<1>1. qpAsk \in Seq(QPRequestType)
  BY DEF QPTypeOK
<1>2. qpAsked = 1..Len(qpAsk) /\ Len(qpAsk) \in Nat
  BY <1>1 DEF qpAsked
<1>3. \A q \in qpAsked : qpAsk[q] \in QPRequestType
  BY <1>1, EntryOf DEF qpAsked
<1> QED BY <1>2, <1>3 DEF Free, QPRequestType

\* A plan found in the cache is a plan.
LEMMA CachedPlan ==
  ASSUME QPTypeOK, NEW k, LruHolds(planCache, k)
  PROVE  LruValue(planCache, k) \in QPPlanType
<1>1. LruPlaces(planCache, k) # {}
  BY DEF LruHolds
<1>2. planCache[LruPlace(planCache, k)] \in PlanEntryType
  BY <1>1, LruPlaceIsEntry DEF QPTypeOK
<1> QED BY <1>2 DEF LruValue, PlanEntryType

\* A selection found in the cache was made for the question it is found by.
LEMMA CachedSelection ==
  ASSUME QPTypeOK, NEW k, LruHolds(selCache, k)
  PROVE  /\ LruValue(selCache, k) \in FoundType
         /\ LruValue(selCache, k).of = k
         /\ LruValue(selCache, k).by = "fallback" => k \in outages
<1>1. LruPlaces(selCache, k) # {}
  BY DEF LruHolds
<1>2. selCache[LruPlace(selCache, k)] \in SelEntries /\ selCache[LruPlace(selCache, k)].key = k
  BY <1>1, LruPlaceIsEntry DEF QPTypeOK
<1> QED BY <1>2 DEF LruValue, SelEntries

\* What the planner replies is a plan once parsed.
LEMMA ParsedPlan ==
  ASSUME NEW reply \in QPPlans
  PROVE  ParsePlan(reply) \in QPPlanType
<1>1. reply \in QPPlanType
  BY QPAssumption
<1> QED BY <1>1 DEF ParsePlan, QPPlanType

\* Taking a plan keeps the types; its questions are never none.
LEMMA PlannedType ==
  ASSUME QPTypeOK, NEW q \in qpAsked, NEW plan \in QPPlanType \cup {NoPlan}, Planned(q, plan)
  PROVE  /\ qpStep' \in [qpAsked -> QPSteps]
         /\ qpPlan' \in [qpAsked -> QPPlanType \cup {NoPlan}]
         /\ qpTodo' \in [qpAsked -> Seq(STRING)]
         /\ qpStep' = [qpStep EXCEPT ![q] = "select"]
         /\ qpPlan'[q] = plan
         /\ qpTodo'[q] = IF shouldDecompose(plan) THEN plan.subs ELSE qpTodo[q]
         /\ \A r \in qpAsked \ {q} : qpPlan'[r] = qpPlan[r] /\ qpTodo'[r] = qpTodo[r]
<1>1. shouldDecompose(plan) => plan.subs \in Seq(STRING)
  BY DEF shouldDecompose, QPPlanType
<1> QED BY <1>1 DEF Planned, Goto, QPTypeOK, QPSteps

\* Taking a selection does.
LEMMA TookType ==
  ASSUME QPTypeOK, NEW q \in qpAsked, qpTodo[q] # <<>>, NEW found \in FoundType, Took(q, found)
  PROVE  /\ qpFound' \in [qpAsked -> Seq(FoundType)]
         /\ qpTodo' \in [qpAsked -> Seq(STRING)]
         /\ qpStep' \in [qpAsked -> QPSteps]
         /\ qpStep' = [qpStep EXCEPT ![q] = IF Len(qpTodo[q]) = 1 THEN "selected" ELSE "select"]
         /\ qpFound'[q] = Append(qpFound[q], found)
         /\ qpTodo'[q] = Tail(qpTodo[q])
         /\ \A r \in qpAsked \ {q} : qpFound'[r] = qpFound[r] /\ qpTodo'[r] = qpTodo[r]
<1>1. qpTodo[q] \in Seq(STRING) /\ qpFound[q] \in Seq(FoundType)
  BY DEF QPTypeOK
<1>2. Tail(qpTodo[q]) \in Seq(STRING)
  BY <1>1, TailOf
<1>3. Append(qpFound[q], found) \in Seq(FoundType)
  BY <1>1
<1> QED BY <1>2, <1>3 DEF Took, Goto, QPTypeOK, QPSteps

-----------------------------------------------------------------------------
(***************************************************************************)
(* Selections: a request goes through its questions in order, and what it  *)
(* has found so far answers the ones before.                               *)
(***************************************************************************)
Questions(q) == IF shouldDecompose(qpPlan[q]) THEN qpPlan[q].subs ELSE <<qpAsk[q].query>>

Own(q) ==
  /\ qpStep[q] = "start" => qpFound[q] = <<>> /\ qpPlan[q] = NoPlan
  /\ qpStep[q] \in {"plan", "lock", "planning"} =>
       qpFound[q] = <<>> /\ qpPlan[q] = NoPlan /\ qpTodo[q] = <<qpAsk[q].query>>
  /\ qpStep[q] \in {"select", "primary", "fallback"} =>
       /\ qpTodo[q] # <<>>
       /\ Len(qpFound[q]) + Len(qpTodo[q]) = Len(Questions(q))
       /\ \A i \in DOMAIN qpTodo[q] : qpTodo[q][i] = Questions(q)[Len(qpFound[q]) + i]
  /\ qpStep[q] = "fallback" => Question(q) \in outages
  /\ \A i \in DOMAIN qpFound[q] :
       /\ i <= Len(Questions(q)) /\ qpFound[q][i].of = Questions(q)[i]
       /\ qpFound[q][i].by = "fallback" => qpFound[q][i].of \in outages

OwnInv == QPTypeOK /\ \A q \in qpAsked : Own(q)

\* A step of request q leaves the others where they are.
OnlyOf(q) ==
  /\ qpAsk' = qpAsk /\ outages \subseteq outages'
  /\ \A r \in qpAsked \ {q} :
       /\ qpStep'[r] = qpStep[r] /\ qpPlan'[r] = qpPlan[r]
       /\ qpTodo'[r] = qpTodo[r] /\ qpFound'[r] = qpFound[r]

\* ... and what is theirs stays theirs.
LEMMA OthersKeep ==
  ASSUME OwnInv, NEW q, OnlyOf(q), QPTypeOK', q \in qpAsked => Own(q)'
  PROVE  OwnInv'
<1>1. qpAsked' = qpAsked
  BY DEF OnlyOf, qpAsked
<1>2. ASSUME NEW r \in qpAsked \ {q} PROVE Own(r)'
  <2>1. Own(r)
    BY DEF OwnInv
  <2>2. Questions(r)' = Questions(r)
    BY DEF OnlyOf, Questions
  <2> QED BY <2>1, <2>2 DEF OnlyOf, Own, Question
<1> QED BY <1>1, <1>2 DEF OwnInv

\* The questions of a request are a sequence of questions.
LEMMA QuestionsType ==
  ASSUME QPTypeOK, NEW q \in qpAsked
  PROVE  Questions(q) \in Seq(STRING)
<1>1. shouldDecompose(qpPlan[q]) => qpPlan[q].subs \in Seq(STRING)
  <2>1. qpPlan[q] \in QPPlanType \cup {NoPlan}
    BY DEF QPTypeOK
  <2> QED BY <2>1 DEF shouldDecompose, QPPlanType
<1>2. qpAsk[q].query \in STRING
  BY AskedType
<1>3. <<qpAsk[q].query>> \in Seq(STRING)
  BY <1>2
<1> QED BY <1>1, <1>3, Zenon DEF Questions

\* A handler opens: one question, and no plan yet.
LEMMA OpensOwn ==
  ASSUME OwnInv, NEW q \in qpAsked, NEW server, NEW endpoint, Opens(q, server, endpoint)
  PROVE  OwnInv'
<1>0. QPTypeOK /\ Own(q) /\ qpAsk[q].query \in STRING
  BY AskedType DEF OwnInv
<1>1. /\ UNCHANGED <<qpAsk, qpPlan, planCache, selCache, outages>> /\ qpStep[q] = "start"
      /\ OnlyOf(q)
  BY <1>0 DEF Opens, At, Refuse, Send, Goto, qpShared, OnlyOf, QPTypeOK
<1>2. qpFound[q] = <<>> /\ qpPlan[q] = NoPlan /\ ~shouldDecompose(NoPlan)
  BY <1>0, <1>1 DEF Own, shouldDecompose
<1>3. CASE Refuse(q, 404)
  <2>1. qpStep' = [qpStep EXCEPT ![q] = "done"] /\ qpTodo' = [qpTodo EXCEPT ![q] = <<>>]
        /\ qpFound' = [qpFound EXCEPT ![q] = <<>>]
    BY <1>3 DEF Refuse, Send, Goto
  <2>2. QPTypeOK'
    BY <1>0, <1>1, <2>1 DEF QPTypeOK, QPSteps, SelEntries, qpAsked
  <2>3. Own(q)'
    BY <1>0, <1>1, <2>1 DEF QPTypeOK, Own
  <2> QED BY <1>1, <2>2, <2>3, OthersKeep
<1>4. CASE /\ Goto(q, IF planningEnabled(qpAsk[q]) THEN "plan" ELSE "select")
           /\ qpTodo' = [qpTodo EXCEPT ![q] = <<qpAsk[q].query>>]
           /\ UNCHANGED qpFound
  <2>1. qpStep' = [qpStep EXCEPT ![q] = IF planningEnabled(qpAsk[q]) THEN "plan" ELSE "select"]
    BY <1>4 DEF Goto
  <2>2. QPTypeOK'
    BY <1>0, <1>1, <1>4, <2>1 DEF QPTypeOK, QPSteps, SelEntries, qpAsked
  <2>3. Own(q)'
    <3>1. Questions(q)' = <<qpAsk[q].query>>
      BY <1>1, <1>2 DEF Questions
    <3>2. qpStep'[q] \in {"plan", "select"} /\ qpTodo'[q] = <<qpAsk[q].query>> /\ qpFound'[q] = <<>> /\ qpPlan'[q] = NoPlan
      BY <1>0, <1>1, <1>2, <1>4, <2>1 DEF QPTypeOK
    <3> QED BY <1>1, <3>1, <3>2 DEF Own
  <2> QED BY <1>1, <2>2, <2>3, OthersKeep
<1> QED BY <1>3, <1>4 DEF Opens

\* With a plan in hand the questions are the plan's, or still the one.
LEMMA PlannedOwn ==
  ASSUME OwnInv, NEW q \in qpAsked, NEW plan \in QPPlanType \cup {NoPlan}, Planned(q, plan),
         qpStep[q] \in {"plan", "lock", "planning"},
         UNCHANGED <<qpAsk, qpFound, selCache, outages>>, planCache' \in Seq(PlanEntryType)
  PROVE  OwnInv'
<1>0. /\ QPTypeOK /\ qpFound[q] = <<>> /\ qpTodo[q] = <<qpAsk[q].query>>
  BY DEF OwnInv, Own
<1>1. /\ qpStep' \in [qpAsked -> QPSteps] /\ qpPlan' \in [qpAsked -> QPPlanType \cup {NoPlan}]
      /\ qpTodo' \in [qpAsked -> Seq(STRING)] /\ qpStep' = [qpStep EXCEPT ![q] = "select"]
      /\ qpPlan'[q] = plan /\ qpTodo'[q] = IF shouldDecompose(plan) THEN plan.subs ELSE qpTodo[q]
      /\ \A r \in qpAsked \ {q} : qpPlan'[r] = qpPlan[r] /\ qpTodo'[r] = qpTodo[r]
  BY <1>0, PlannedType
<1>2. QPTypeOK'
  BY <1>0, <1>1 DEF QPTypeOK, SelEntries, qpAsked
<1>3. OnlyOf(q)
  BY <1>0, <1>1 DEF OnlyOf, QPTypeOK
<1>4. Own(q)'
  <2>1. Questions(q)' = qpTodo'[q]
    BY <1>0, <1>1 DEF Questions
  <2>2. qpStep'[q] = "select" /\ qpFound'[q] = <<>> /\ qpTodo'[q] \in Seq(STRING)
    BY <1>0, <1>1 DEF QPTypeOK
  <2>3. qpTodo'[q] # <<>>
    BY <1>0, <1>1 DEF shouldDecompose
  <2>4. Len(qpFound'[q]) = 0 /\ Len(qpTodo'[q]) \in Nat
    BY <2>2
  <2> QED BY <2>1, <2>2, <2>3, <2>4 DEF Own
<1> QED BY <1>2, <1>3, <1>4, OthersKeep

\* A handler that only moves on among the planner's or the strategies' steps.
LEMMA MovedOwn ==
  ASSUME OwnInv, NEW q \in qpAsked, NEW next \in QPSteps, qpStep' = [qpStep EXCEPT ![q] = next],
         UNCHANGED <<qpAsk, qpPlan, qpTodo, qpFound>>,
         planCache' \in Seq(PlanEntryType), selCache' \in Seq(SelEntries), outages \subseteq outages',
         \/ qpStep[q] \in {"plan", "lock", "planning"} /\ next \in {"plan", "lock", "planning"}
         \/ qpStep[q] \in {"select", "primary"} /\ next = "primary"
         \/ qpStep[q] \in {"select", "primary"} /\ next = "fallback" /\ Question(q) \in outages'
         \/ next \in {"selected", "rerank", "write", "done"}
  PROVE  OwnInv'
<1>0. QPTypeOK /\ Own(q)
  BY DEF OwnInv
<1>1. selCache' \in Seq(SelEntries')
  <2>1. SelEntries \subseteq SelEntries'
    BY DEF SelEntries
  <2> QED BY <2>1
<1>2. QPTypeOK'
  BY <1>0, <1>1 DEF QPTypeOK, qpAsked
<1>3. OnlyOf(q)
  BY <1>0 DEF OnlyOf, QPTypeOK
<1>4. Own(q)'
  <2>1. qpStep'[q] = next /\ Questions(q)' = Questions(q)
    BY <1>0 DEF QPTypeOK, Questions
  <2> QED BY <1>0, <2>1 DEF Own, Question
<1> QED BY <1>2, <1>3, <1>4, OthersKeep

\* The planner.
LEMMA PlannerOwn ==
  ASSUME OwnInv, NEW q \in qpAsked,
         LookUpPlan(q) \/ LockPlanner(q) \/ PlanReplied(q) \/ PlanFails(q)
  PROVE  OwnInv'
<1>0. QPTypeOK /\ selCache \in Seq(SelEntries) /\ planCache \in Seq(PlanEntryType) /\ QPCacheMax \in Nat \ {0}
  BY QPAssumption DEF OwnInv, QPTypeOK
<1> DEFINE key == qpAsk[q].query
<1>k. key \in STRING
  BY <1>0, AskedType
<1>1. LruGet(planCache, key) \in Seq(PlanEntryType)
  BY <1>0, LruGetLeaves
<1>2. CASE LookUpPlan(q)
  <2>1. /\ qpStep[q] = "plan" /\ planCache' = LruGet(planCache, key)
        /\ UNCHANGED <<qpAsk, qpFound, selCache, outages>>
    BY <1>2 DEF LookUpPlan, At
  <2>2. CASE LruHolds(planCache, key)
    <3>1. Planned(q, LruValue(planCache, key))
      BY <1>2, <2>2 DEF LookUpPlan
    <3>2. LruValue(planCache, key) \in QPPlanType
      BY <1>0, <2>2, CachedPlan
    <3> HIDE DEF key
    <3> QED BY <1>1, <2>1, <3>1, <3>2, PlannedOwn
  <2>3. CASE ~LruHolds(planCache, key)
    <3>1. qpStep' = [qpStep EXCEPT ![q] = "lock"] /\ UNCHANGED <<qpPlan, qpTodo>>
      BY <1>2, <2>3 DEF LookUpPlan, Goto
    <3> QED BY <1>0, <1>1, <2>1, <3>1, MovedOwn DEF QPSteps
  <2> QED BY <2>2, <2>3
<1>3. CASE LockPlanner(q)
  <2>1. /\ qpStep[q] = "lock" /\ planCache' = LruGet(planCache, key)
        /\ UNCHANGED <<qpAsk, qpFound, selCache, outages>>
    BY <1>3 DEF LockPlanner, At
  <2>2. CASE LruHolds(planCache, key)
    <3>1. Planned(q, LruValue(planCache, key))
      BY <1>3, <2>2 DEF LockPlanner
    <3>2. LruValue(planCache, key) \in QPPlanType
      BY <1>0, <2>2, CachedPlan
    <3> HIDE DEF key
    <3> QED BY <1>1, <2>1, <3>1, <3>2, PlannedOwn
  <2>3. CASE ~LruHolds(planCache, key)
    <3>1. qpStep' = [qpStep EXCEPT ![q] = "planning"] /\ UNCHANGED <<qpPlan, qpTodo>>
      BY <1>3, <2>3 DEF LockPlanner, Goto
    <3> QED BY <1>0, <1>1, <2>1, <3>1, MovedOwn DEF QPSteps
  <2> QED BY <2>2, <2>3
<1>4. CASE PlanReplied(q)
  <2>1. PICK reply \in QPPlans :
          /\ planCache' = LruSet(planCache, key, ParsePlan(reply), QPCacheMax)
          /\ Planned(q, ParsePlan(reply))
    BY <1>4 DEF PlanReplied
  <2>2. ParsePlan(reply) \in QPPlanType
    BY ParsedPlan
  <2>3. [key |-> key, value |-> ParsePlan(reply), live |-> TRUE] \in PlanEntryType
    BY <1>k, <2>2 DEF PlanEntryType
  <2> HIDE DEF key
  <2>4. planCache' \in Seq(PlanEntryType)
    BY <1>0, <2>1, <2>3, LruSetLeaves
  <2>5. qpStep[q] = "planning" /\ UNCHANGED <<qpAsk, qpFound, selCache, outages>>
    BY <1>4 DEF PlanReplied, At
  <2> QED BY <2>1, <2>2, <2>4, <2>5, PlannedOwn
<1>5. CASE PlanFails(q)
  <2>1. Planned(q, NoPlan) /\ qpStep[q] = "planning" /\ UNCHANGED <<qpAsk, qpFound, selCache, outages, planCache>>
    BY <1>5 DEF PlanFails, At
  <2> QED BY <1>0, <2>1, PlannedOwn
<1> QED BY <1>2, <1>3, <1>4, <1>5

\* A response is written: nothing is left to select, and nothing found.
LEMMA SentOwn ==
  ASSUME OwnInv, NEW q \in qpAsked, NEW response, Send(q, response),
         UNCHANGED <<qpAsk, qpPlan, planCache, selCache, outages>>
  PROVE  OwnInv'
<1>0. QPTypeOK
  BY DEF OwnInv
<1>1. /\ qpStep' = [qpStep EXCEPT ![q] = "done"] /\ qpTodo' = [qpTodo EXCEPT ![q] = <<>>]
      /\ qpFound' = [qpFound EXCEPT ![q] = <<>>]
  BY DEF Send, Goto
<1>2. QPTypeOK'
  BY <1>0, <1>1 DEF QPTypeOK, QPSteps, SelEntries, qpAsked
<1>3. Own(q)'
  BY <1>0, <1>1 DEF QPTypeOK, Own
<1>4. OnlyOf(q)
  BY <1>0, <1>1 DEF OnlyOf, QPTypeOK
<1> QED BY <1>2, <1>3, <1>4, OthersKeep

\* A selection made for the question at hand is the next one found.
LEMMA TookOwn ==
  ASSUME OwnInv, NEW q \in qpAsked, qpStep[q] \in {"select", "primary", "fallback"},
         NEW found \in FoundType, Took(q, found), found.of = Question(q),
         found.by = "fallback" => Question(q) \in outages,
         UNCHANGED <<qpAsk, qpPlan, planCache, outages>>, selCache' \in Seq(SelEntries)
  PROVE  OwnInv'
<1>0. /\ QPTypeOK /\ Own(q) /\ qpTodo[q] # <<>>
      /\ qpTodo[q] \in Seq(STRING) /\ qpFound[q] \in Seq(FoundType)
  BY DEF OwnInv, Own, QPTypeOK
<1>1. /\ qpFound' \in [qpAsked -> Seq(FoundType)] /\ qpTodo' \in [qpAsked -> Seq(STRING)]
      /\ qpStep' \in [qpAsked -> QPSteps]
      /\ qpStep' = [qpStep EXCEPT ![q] = IF Len(qpTodo[q]) = 1 THEN "selected" ELSE "select"]
      /\ qpFound'[q] = Append(qpFound[q], found) /\ qpTodo'[q] = Tail(qpTodo[q])
      /\ \A r \in qpAsked \ {q} : qpFound'[r] = qpFound[r] /\ qpTodo'[r] = qpTodo[r]
  BY <1>0, TookType
<1>2. QPTypeOK'
  BY <1>0, <1>1 DEF QPTypeOK, SelEntries, qpAsked
<1>3. OnlyOf(q)
  BY <1>0, <1>1 DEF OnlyOf, QPTypeOK
<1> DEFINE n == Len(qpFound[q])
           todo == qpTodo[q]
           asked == Questions(q)
<1>4. /\ Questions(q)' = asked /\ asked \in Seq(STRING)
      /\ n + Len(todo) = Len(asked) /\ \A i \in DOMAIN todo : todo[i] = asked[n + i]
      /\ \A i \in DOMAIN qpFound[q] :
           /\ i <= Len(asked) /\ qpFound[q][i].of = asked[i]
           /\ qpFound[q][i].by = "fallback" => qpFound[q][i].of \in outages
  <2>1. asked \in Seq(STRING)
    BY <1>0, QuestionsType
  <2>2. Questions(q)' = asked
    BY DEF Questions
  <2> QED BY <1>0, <2>1, <2>2 DEF Own
<1>5. /\ Head(todo) = todo[1] /\ 1 \in DOMAIN todo /\ Len(Tail(todo)) = Len(todo) - 1
      /\ \A i \in DOMAIN Tail(todo) : Tail(todo)[i] = todo[i + 1] /\ i + 1 \in DOMAIN todo
  BY <1>0, TailOf
<1>6. /\ n \in Nat /\ Len(todo) \in Nat /\ Len(todo) > 0 /\ n + Len(todo) = Len(asked)
      /\ Len(Tail(todo)) = Len(todo) - 1
  <2>1. n \in Nat /\ Len(todo) \in Nat /\ Len(todo) > 0
    BY <1>0
  <2> QED BY <1>4, <1>5, <2>1, Zenon
<1>7. found.of = asked[n + 1] /\ n + 1 <= Len(asked)
  <2>1. found.of = todo[1] /\ 1 \in DOMAIN todo
    BY <1>5, Zenon DEF Question
  <2>2. found.of = asked[n + 1]
    BY <1>4, <2>1, Zenon
  <2> HIDE DEF n, todo, asked
  <2> QED BY <1>6, <2>2
<1>8. qpFound'[q] = Append(qpFound[q], found) /\ qpTodo'[q] = Tail(todo)
      /\ qpStep'[q] = IF Len(todo) = 1 THEN "selected" ELSE "select"
  BY <1>0, <1>1 DEF QPTypeOK
<1>9. /\ Len(Append(qpFound[q], found)) = n + 1 /\ DOMAIN Append(qpFound[q], found) = 1..(n + 1)
      /\ DOMAIN qpFound[q] = 1..n
      /\ \A i \in 1..(n + 1) : Append(qpFound[q], found)[i] = IF i = n + 1 THEN found ELSE qpFound[q][i]
  BY <1>0
<1>10. Tail(todo) \in Seq(STRING)
  BY <1>0, TailOf
<1> HIDE DEF n, todo, asked
<1>11. \A i \in 1..(n + 1) :
         /\ i <= Len(asked) /\ qpFound'[q][i].of = asked[i]
         /\ qpFound'[q][i].by = "fallback" => qpFound'[q][i].of \in outages
  <2> TAKE i \in 1..(n + 1)
  <2>1. CASE i = n + 1
    BY <1>6, <1>7, <1>8, <1>9, <2>1
  <2>2. CASE i # n + 1
    <3>1. i \in 1..n /\ qpFound'[q][i] = qpFound[q][i]
      BY <1>6, <1>8, <1>9, <2>2
    <3> QED BY <1>4, <1>9, <3>1
  <2> QED BY <2>1, <2>2
<1>12. ASSUME Len(todo) # 1
       PROVE  /\ Tail(todo) # <<>> /\ n + 1 + Len(Tail(todo)) = Len(asked)
              /\ \A i \in DOMAIN Tail(todo) : Tail(todo)[i] = asked[(n + 1) + i]
  <2>1. Len(Tail(todo)) > 0 /\ n + 1 + Len(Tail(todo)) = Len(asked)
    <3>1. \A a, m \in Nat : a > 0 /\ a # 1 => a - 1 > 0 /\ m + 1 + (a - 1) = m + a
      OBVIOUS
    <3> QED BY <1>6, <1>12, <3>1, Zenon
  <2>2. Tail(todo) # <<>>
    BY <2>1
  <2>3. ASSUME NEW i \in DOMAIN Tail(todo) PROVE Tail(todo)[i] = asked[(n + 1) + i]
    <3>1. Tail(todo)[i] = asked[n + (i + 1)]
      BY <1>4, <1>5
    <3>2. i \in Nat
      BY <1>10
    <3>3. n + (i + 1) = (n + 1) + i
      BY <3>2, <1>6
    <3> QED BY <3>1, <3>3
  <2> QED BY <2>1, <2>2, <2>3, Zenon
<1>13. Own(q)'
  BY <1>4, <1>8, <1>9, <1>11, <1>12 DEF Own
<1> QED BY <1>2, <1>3, <1>13, OthersKeep

\* The cache, the primary strategy and the fallback.
LEMMA SelectorOwn ==
  ASSUME OwnInv, NEW q \in qpAsked,
         \/ LookUpSelection(q) \/ PrimarySelects(q) \/ FallbackSelects(q)
         \/ ProviderUnavailable(q) \/ SelectionFails(q)
  PROVE  OwnInv'
<1>0. /\ QPTypeOK /\ Own(q) /\ selCache \in Seq(SelEntries) /\ planCache \in Seq(PlanEntryType)
      /\ QPCacheMax \in Nat \ {0}
  BY QPAssumption DEF OwnInv, QPTypeOK
<1>1. ASSUME qpStep[q] \in {"select", "primary", "fallback"} PROVE Question(q) \in STRING
  <2>1. qpTodo[q] # <<>> /\ qpTodo[q] \in Seq(STRING)
    BY <1>0, <1>1 DEF Own, QPTypeOK
  <2> QED BY <2>1, TailOf DEF Question
<1>2. ASSUME NEW by \in {"primary", "fallback"}, NEW sel \in QPSelections, Selected(q, by, sel), qpStep[q] = by
      PROVE  OwnInv'
  <2> DEFINE found == [sel |-> sel, of |-> Question(q), by |-> by]
  <2>1. found \in FoundType /\ found.of = Question(q) /\ found.by = by
    BY <1>1, <1>2 DEF FoundType
  <2>2. by = "fallback" => Question(q) \in outages
    BY <1>0, <1>2 DEF Own
  <2>3. [key |-> Question(q), value |-> found, live |-> TRUE] \in SelEntries
    BY <1>1, <1>2, <2>1, <2>2 DEF SelEntries
  <2>4. /\ selCache' = LruSet(selCache, Question(q), found, QPCacheMax) /\ Took(q, found)
        /\ UNCHANGED <<qpAsk, qpPlan, planCache, outages>>
    BY <1>2 DEF Selected
  <2> HIDE DEF found
  <2>5. selCache' \in Seq(SelEntries)
    BY <1>0, <2>3, <2>4, LruSetLeaves
  <2> QED BY <1>2, <2>1, <2>2, <2>4, <2>5, TookOwn
<1>3. CASE LookUpSelection(q)
  <2>1. /\ qpStep[q] = "select" /\ selCache' = LruGet(selCache, Question(q))
        /\ UNCHANGED <<qpAsk, qpPlan, planCache, outages>>
    BY <1>3 DEF LookUpSelection, At
  <2>2. selCache' \in Seq(SelEntries)
    BY <1>0, <2>1, LruGetLeaves
  <2>3. CASE LruHolds(selCache, Question(q))
    <3>1. Took(q, LruValue(selCache, Question(q)))
      BY <1>3, <2>3 DEF LookUpSelection
    <3>2. /\ LruValue(selCache, Question(q)) \in FoundType
          /\ LruValue(selCache, Question(q)).of = Question(q)
          /\ LruValue(selCache, Question(q)).by = "fallback" => Question(q) \in outages
      BY <1>0, <2>3, CachedSelection
    <3> QED BY <2>1, <2>2, <3>1, <3>2, TookOwn
  <2>4. CASE ~LruHolds(selCache, Question(q))
    <3>1. qpStep' = [qpStep EXCEPT ![q] = "primary"] /\ UNCHANGED <<qpFound, qpTodo>>
      BY <1>3, <2>4 DEF LookUpSelection, Goto
    <3> QED BY <1>0, <2>1, <2>2, <3>1, MovedOwn DEF QPSteps
  <2> QED BY <2>3, <2>4
<1>4. CASE PrimarySelects(q)
  BY <1>2, <1>4 DEF PrimarySelects, At
<1>5. CASE FallbackSelects(q)
  BY <1>2, <1>5 DEF FallbackSelects, At
<1>6. CASE ProviderUnavailable(q)
  <2>1. /\ qpStep[q] = "primary" /\ qpStep' = [qpStep EXCEPT ![q] = "fallback"]
        /\ outages' = outages \cup {Question(q)}
        /\ UNCHANGED <<qpAsk, qpPlan, qpTodo, qpFound, planCache, selCache>>
    BY <1>6 DEF ProviderUnavailable, At, Goto
  <2>2. Question(q) \in outages' /\ outages \subseteq outages'
    BY <2>1
  <2> QED BY <1>0, <2>1, <2>2, MovedOwn DEF QPSteps
<1>7. CASE SelectionFails(q)
  <2>1. UNCHANGED <<qpAsk, qpPlan, planCache, selCache, outages>>
    BY <1>7 DEF SelectionFails, qpShared
  <2>2. Send(q, [NoResponse EXCEPT !.status = 500])
    BY <1>7 DEF SelectionFails, Refuse
  <2> QED BY <2>1, <2>2, SentOwn
<1> QED BY <1>3, <1>4, <1>5, <1>6, <1>7

\* From the selection to the response.
LEMMA WriterOwn ==
  ASSUME OwnInv, NEW q \in qpAsked,
         \/ respondAbstained(q) \/ Assemble(q) \/ runReRank(q) \/ ReRankFails(q) \/ WriteQuery(q) \/ WriteUnits(q)
         \/ synthesiseAnswer(q) \/ answerFromSections(q) \/ answerFromPages(q) \/ AnswerFails(q)
  PROVE  OwnInv'
<1>0. selCache \in Seq(SelEntries) /\ planCache \in Seq(PlanEntryType)
  BY DEF OwnInv, QPTypeOK
<1>1. CASE Assemble(q) \/ runReRank(q) \/ ReRankFails(q)
  <2>1. UNCHANGED <<qpAsk, qpPlan, qpTodo, qpFound, planCache, selCache, outages>>
    BY <1>1 DEF Assemble, runReRank, ReRankFails, qpShared
  <2>2. PICK next \in {"rerank", "write"} : qpStep' = [qpStep EXCEPT ![q] = next]
    BY <1>1 DEF Assemble, runReRank, ReRankFails, Goto
  <2> QED BY <1>0, <2>1, <2>2, MovedOwn DEF QPSteps
<1>2. CASE respondAbstained(q) \/ WriteUnits(q) \/ AnswerFails(q)
  <2>1. UNCHANGED <<qpAsk, qpPlan, planCache, selCache, outages>>
    BY <1>2 DEF respondAbstained, WriteUnits, AnswerFails, qpShared
  <2>2. \E response : Send(q, response)
    BY <1>2, Zenon DEF respondAbstained, WriteUnits, AnswerFails, Refuse
  <2> QED BY <2>1, <2>2, SentOwn
<1>3. CASE WriteQuery(q) \/ synthesiseAnswer(q) \/ answerFromSections(q) \/ answerFromPages(q)
  <2>1. UNCHANGED <<qpAsk, qpPlan, planCache, selCache, outages>>
    BY <1>3 DEF WriteQuery, synthesiseAnswer, answerFromSections, answerFromPages
  <2>2. \E response : Send(q, response)
    BY <1>3, Zenon DEF WriteQuery, synthesiseAnswer, answerFromSections, answerFromPages, writeJSONWithReplay
  <2> QED BY <2>1, <2>2, SentOwn
<1> QED BY <1>1, <1>2, <1>3

\* Nothing a request selects with changes.
LEMMA SameOwn ==
  ASSUME OwnInv, UNCHANGED <<qpAsk, qpStep, qpPlan, qpTodo, qpFound, outages>>,
         planCache' \in Seq(PlanEntryType), selCache' \in Seq(SelEntries)
  PROVE  OwnInv'
<1>1. QPTypeOK'
  BY DEF OwnInv, QPTypeOK, SelEntries, qpAsked
<1>2. qpAsked' = qpAsked
  BY DEF qpAsked
<1>3. ASSUME NEW q \in qpAsked PROVE Own(q)'
  BY DEF OwnInv, Own, Questions, Question
<1> QED BY <1>1, <1>2, <1>3 DEF OwnInv

\* An entry past its time is still an entry, of the plans and of the selections.
LEMMA ExpiredEntries ==
  ASSUME QPTypeOK
  PROVE  /\ \A i \in DOMAIN planCache : LruExpire(planCache, i) \in Seq(PlanEntryType)
         /\ \A i \in DOMAIN selCache : LruExpire(selCache, i) \in Seq(SelEntries)
<1>1. ASSUME NEW i \in DOMAIN planCache PROVE LruExpire(planCache, i) \in Seq(PlanEntryType)
  <2>1. planCache \in Seq(PlanEntryType)
    BY DEF QPTypeOK
  <2>2. planCache[i] \in PlanEntryType
    BY <2>1, EntryOf
  <2>3. [planCache[i] EXCEPT !.live = FALSE] \in PlanEntryType
    BY <2>2 DEF PlanEntryType
  <2> QED BY <2>1, <2>3, LruExpireLeaves
<1>2. ASSUME NEW i \in DOMAIN selCache PROVE LruExpire(selCache, i) \in Seq(SelEntries)
  <2>1. selCache \in Seq(SelEntries)
    BY DEF QPTypeOK
  <2>2. selCache[i] \in SelEntries
    BY <2>1, EntryOf
  <2>3. [selCache[i] EXCEPT !.live = FALSE] \in SelEntries
    BY <2>2 DEF SelEntries
  <2> QED BY <2>1, <2>3, LruExpireLeaves
<1> QED BY <1>1, <1>2

\* Before anything is asked for, nothing is found.
LEMMA OwnStart ==
  ASSUME QPInit \/ QPIdle
  PROVE  OwnInv
<1>1. qpAsk \in Seq(QPRequestType) /\ QPBlank
  <2>1. <<>> \in Seq(QPRequestType)
    OBVIOUS
  <2> QED BY <2>1, QPAssumption DEF QPInit, QPIdle
<1>2. QPTypeOK
  <2>1. <<>> \in Seq(PlanEntryType) /\ <<>> \in Seq(SelEntries) /\ <<>> \in Seq(STRING) /\ <<>> \in Seq(FoundType)
    OBVIOUS
  <2> QED BY <1>1, <2>1 DEF QPTypeOK, QPBlank, QPSteps
<1>3. ASSUME NEW q \in qpAsked PROVE Own(q)
  BY <1>1 DEF QPBlank, Own
<1> QED BY <1>2, <1>3 DEF OwnInv

\* Every step keeps what requests have found theirs.
LEMMA OwnStep ==
  ASSUME OwnInv, [QPNext]_qpVars
  PROVE  OwnInv'
<1>0. QPTypeOK /\ selCache \in Seq(SelEntries) /\ planCache \in Seq(PlanEntryType)
  BY DEF OwnInv, QPTypeOK
<1>1. CASE UNCHANGED qpVars
  BY <1>0, <1>1, SameOwn DEF qpVars
<1>2. ASSUME NEW q \in qpAsked, QPHandle(q) PROVE OwnInv'
  BY <1>2, OpensOwn, PlannerOwn, SelectorOwn, WriterOwn, Zenon
  DEF QPHandle, handleQuery, handleAnswer, HandleQuery, HandleAnswer
<1>3. ASSUME NEW q \in qpAsked, handleReplay(q) PROVE OwnInv'
  <2>1. UNCHANGED <<qpAsk, qpStep, qpPlan, qpTodo, qpFound, outages, planCache, selCache>>
    BY <1>3 DEF handleReplay
  <2> QED BY <1>0, <2>1, SameOwn
<1>4. CASE EntryExpires
  <2>1. UNCHANGED <<qpAsk, qpStep, qpPlan, qpTodo, qpFound, outages>>
    BY <1>4 DEF EntryExpires
  <2>2. planCache' \in Seq(PlanEntryType) /\ selCache' \in Seq(SelEntries)
    BY <1>0, <1>4, ExpiredEntries DEF EntryExpires
  <2> QED BY <2>1, <2>2, SameOwn
<1> QED BY <1>1, <1>2, <1>3, <1>4 DEF QPNext

\* So every answer is made from selections of the request's own questions.
LEMMA OwnIsAnswered ==
  ASSUME OwnInv
  PROVE  AnsweredFromOwnSelection
<1>1. ASSUME NEW q \in qpAsked, NEW i \in DOMAIN qpFound[q]
      PROVE  /\ i <= Len(Questions(q)) /\ qpFound[q][i].of = Questions(q)[i]
             /\ qpFound[q][i].by = "fallback" => qpFound[q][i].of \in outages
  BY DEF OwnInv, Own
<1> QED BY <1>1, Zenon DEF AnsweredFromOwnSelection, Questions


-----------------------------------------------------------------------------
(***************************************************************************)
(* Planning: who asks the model holds the lock, and looked at the cache    *)
(* after taking it; only the holder fills the cache.                       *)
(***************************************************************************)
\* No one begins to plan, and no plan comes into the cache.
LEMMA StillPlanned ==
  ASSUME QPTypeOK, PlannedOnce, qpAsk' = qpAsk, planLock' = planLock,
         \A r \in qpAsked : qpStep'[r] = "planning" => qpStep[r] = "planning",
         \A k : ~LruHolds(planCache, k) => ~LruHolds(planCache', k)
  PROVE  PlannedOnce'
<1>1. qpAsked' = qpAsked
  BY DEF qpAsked
<1> QED BY <1>1, Zenon DEF PlannedOnce, At

\* A handler moves to a step that is not planning.
LEMMA MovedPlanned ==
  ASSUME QPTypeOK, PlannedOnce, qpAsk' = qpAsk, planLock' = planLock, NEW q \in qpAsked, NEW next, next # "planning",
         qpStep' = [qpStep EXCEPT ![q] = next], planCache' = planCache \/ \E k : planCache' = LruGet(planCache, k)
  PROVE  PlannedOnce'
<1>1. ASSUME NEW r \in qpAsked, qpStep'[r] = "planning" PROVE qpStep[r] = "planning"
  BY <1>1 DEF QPTypeOK
<1>2. ASSUME NEW k, ~LruHolds(planCache, k) PROVE ~LruHolds(planCache', k)
  <2>1. CASE planCache' = planCache
    BY <1>2, <2>1, Zenon
  <2>2. CASE \E j : planCache' = LruGet(planCache, j)
    <3>1. PICK j : planCache' = LruGet(planCache, j)
      BY <2>2
    <3>2. planCache \in Seq(PlanEntryType)
      BY DEF QPTypeOK
    <3> QED BY <1>2, <3>1, <3>2, LruGetKeepsMiss
  <2> QED BY <2>1, <2>2
<1> QED BY <1>1, <1>2, StillPlanned

\* A handler that does not plan moves to another step that does not.
LEMMA HandlerMoves ==
  ASSUME NEW q \in qpAsked, QPHandle(q),
         ~LookUpPlan(q), ~LockPlanner(q), ~PlanReplied(q), ~PlanFails(q)
  PROVE  /\ UNCHANGED <<qpAsk, planCache, planLock>>
         /\ \E next \in QPSteps \ {"planning"} : qpStep' = [qpStep EXCEPT ![q] = next]
<1>1. CASE handleQuery(q) \/ handleAnswer(q) \/ HandleQuery(q) \/ HandleAnswer(q)
  <2>1. PICK server, endpoint : Opens(q, server, endpoint)
    BY <1>1, Zenon DEF handleQuery, handleAnswer, HandleQuery, HandleAnswer
  <2>2. UNCHANGED <<qpAsk, planCache, planLock>>
    BY <2>1 DEF Opens, qpShared
  <2>3. \E next \in {"plan", "select", "done"} : qpStep' = [qpStep EXCEPT ![q] = next]
    BY <2>1 DEF Opens, Refuse, Send, Goto
  <2> QED BY <2>2, <2>3 DEF QPSteps
<1>2. CASE LookUpSelection(q)
  BY <1>2 DEF LookUpSelection, Took, Goto, QPSteps
<1>3. CASE PrimarySelects(q) \/ FallbackSelects(q)
  BY <1>3 DEF PrimarySelects, FallbackSelects, Selected, Took, Goto, QPSteps
<1>4. CASE ProviderUnavailable(q) \/ SelectionFails(q)
  BY <1>4 DEF ProviderUnavailable, SelectionFails, Refuse, Send, Goto, qpShared, QPSteps
<1>5. CASE respondAbstained(q) \/ WriteUnits(q) \/ AnswerFails(q)
  BY <1>5 DEF respondAbstained, WriteUnits, AnswerFails, Refuse, Send, Goto, qpShared, QPSteps
<1>6. CASE Assemble(q) \/ runReRank(q) \/ ReRankFails(q)
  <2>1. UNCHANGED <<qpAsk, planCache, planLock>>
    BY <1>6 DEF Assemble, runReRank, ReRankFails, qpShared
  <2>2. \E next \in {"rerank", "write"} : qpStep' = [qpStep EXCEPT ![q] = next]
    BY <1>6 DEF Assemble, runReRank, ReRankFails, Goto
  <2> QED BY <2>1, <2>2 DEF QPSteps
<1>7. CASE WriteQuery(q) \/ synthesiseAnswer(q) \/ answerFromSections(q) \/ answerFromPages(q)
  <2>1. UNCHANGED <<qpAsk, planCache, planLock>>
    BY <1>7 DEF WriteQuery, synthesiseAnswer, answerFromSections, answerFromPages
  <2>2. qpStep' = [qpStep EXCEPT ![q] = "done"]
    BY <1>7, Zenon DEF WriteQuery, synthesiseAnswer, answerFromSections, answerFromPages, writeJSONWithReplay, Send, Goto
  <2> QED BY <2>1, <2>2 DEF QPSteps
<1> QED BY <1>1, <1>2, <1>3, <1>4, <1>5, <1>6, <1>7, Zenon DEF QPHandle

\* The planner plans a question once.
LEMMA PlannerPlansOnce ==
  ASSUME QPTypeOK, PlannedOnce, NEW q \in qpAsked,
         LookUpPlan(q) \/ LockPlanner(q) \/ PlanReplied(q) \/ PlanFails(q)
  PROVE  PlannedOnce'
<1>0. qpAsked \subseteq Nat \ {Free} /\ planCache \in Seq(PlanEntryType) /\ qpStep \in [qpAsked -> QPSteps]
  BY AskedType DEF QPTypeOK
<1>a. qpAsk' = qpAsk /\ qpAsked' = qpAsked
  BY DEF LookUpPlan, LockPlanner, PlanReplied, PlanFails, qpAsked
<1> DEFINE key == qpAsk[q].query
<1>1. CASE LookUpPlan(q)
  <2>1. planLock' = planLock /\ planCache' = LruGet(planCache, key)
    BY <1>1 DEF LookUpPlan
  <2>2. PICK next \in {"select", "lock"} : qpStep' = [qpStep EXCEPT ![q] = next]
    BY <1>1 DEF LookUpPlan, Planned, Goto
  <2> QED BY <1>a, <2>1, <2>2, MovedPlanned
<1>2. CASE LockPlanner(q)
  <2>1. planLock = Free /\ planCache' = LruGet(planCache, key)
    BY <1>2 DEF LockPlanner
  <2>2. CASE LruHolds(planCache, key)
    <3>1. planLock' = planLock /\ qpStep' = [qpStep EXCEPT ![q] = "select"]
      BY <1>2, <2>2 DEF LockPlanner, Planned, Goto
    <3> QED BY <1>a, <2>1, <3>1, MovedPlanned
  <2>3. CASE ~LruHolds(planCache, key)
    <3>1. qpStep' = [qpStep EXCEPT ![q] = "planning"] /\ planLock' = q
      BY <1>2, <2>3 DEF LockPlanner, Goto
    <3>2. ~LruHolds(planCache', key)
      BY <1>0, <2>1, <2>3, LruGetKeepsMiss
    <3>3. ASSUME NEW r \in qpAsked, qpStep'[r] = "planning" PROVE r = q
      <4>1. SUFFICES ASSUME r # q PROVE FALSE
        OBVIOUS
      <4>2. qpStep[r] = "planning"
        BY <1>0, <3>1, <3>3, <4>1
      <4>3. planLock = r
        BY <4>2 DEF PlannedOnce, At
      <4> QED BY <1>0, <2>1, <4>3
    <3> QED BY <1>a, <3>1, <3>2, <3>3, Zenon DEF PlannedOnce, At
  <2> QED BY <2>2, <2>3
<1>3. CASE PlanReplied(q) \/ PlanFails(q)
  <2>1. qpStep[q] = "planning" /\ qpStep' = [qpStep EXCEPT ![q] = "select"]
    BY <1>3 DEF PlanReplied, PlanFails, At, Planned, Goto
  <2>2. ASSUME NEW r \in qpAsked, qpStep'[r] = "planning" PROVE FALSE
    <3>1. r # q /\ qpStep[r] = "planning"
      BY <1>0, <2>1, <2>2
    <3> QED BY <2>1, <3>1, Zenon DEF PlannedOnce, At
  <2> QED BY <1>a, <2>2, Zenon DEF PlannedOnce, At
<1> QED BY <1>1, <1>2, <1>3

\* Every step keeps to one planner per question.
LEMMA PlannedStep ==
  ASSUME QPTypeOK, PlannedOnce, [QPNext]_qpVars
  PROVE  PlannedOnce'
<1>1. CASE UNCHANGED qpVars
  BY <1>1, StillPlanned, Zenon DEF qpVars
<1>2. ASSUME NEW q \in qpAsked, QPHandle(q) PROVE PlannedOnce'
  <2>1. CASE LookUpPlan(q) \/ LockPlanner(q) \/ PlanReplied(q) \/ PlanFails(q)
    BY <2>1, PlannerPlansOnce
  <2>2. CASE ~(LookUpPlan(q) \/ LockPlanner(q) \/ PlanReplied(q) \/ PlanFails(q))
    BY <1>2, <2>2, HandlerMoves, MovedPlanned
  <2> QED BY <2>1, <2>2
<1>3. ASSUME NEW q \in qpAsked, handleReplay(q) PROVE PlannedOnce'
  <2>1. UNCHANGED <<qpAsk, qpStep, planCache, planLock>>
    BY <1>3 DEF handleReplay
  <2> QED BY <2>1, StillPlanned, Zenon
<1>4. CASE EntryExpires
  <2>1. UNCHANGED <<qpAsk, qpStep, planLock>>
    BY <1>4 DEF EntryExpires
  <2>2. planCache' = planCache \/ \E i \in DOMAIN planCache : planCache' = LruExpire(planCache, i)
    BY <1>4 DEF EntryExpires
  <2>3. planCache \in Seq([key: STRING, value: QPPlanType, live: BOOLEAN])
    BY DEF QPTypeOK, PlanEntryType
  <2>4. \A k : ~LruHolds(planCache, k) => ~LruHolds(planCache', k)
    <3> TAKE k
    <3>1. CASE planCache' = planCache
      BY <3>1, Zenon
    <3>2. CASE \E i \in DOMAIN planCache : planCache' = LruExpire(planCache, i)
      <4>1. PICK i \in DOMAIN planCache : planCache' = LruExpire(planCache, i)
        BY <3>2
      <4>2. ~LruHolds(planCache, k) => ~LruHolds(LruExpire(planCache, i), k)
        BY <2>3, LruExpireKeepsMiss, Zenon
      <4> QED BY <4>1, <4>2, Zenon
    <3> QED BY <2>2, <3>1, <3>2
  <2> QED BY <2>1, <2>4, StillPlanned, Zenon
<1> QED BY <1>1, <1>2, <1>3, <1>4 DEF QPNext


-----------------------------------------------------------------------------
(***************************************************************************)
(* Replay: an entry of the store is a response that was sent, under the    *)
(* token in it.                                                            *)
(***************************************************************************)
Sent == {q \in qpAsked : qpStep[q] = "done"}
ReplayEntry(q, live) ==
  [key |-> qpOut[q].token, value |-> [doc |-> qpAsk[q].doc, query |-> qpAsk[q].query, body |-> q], live |-> live]
ReplayEntries == {ReplayEntry(q, TRUE) : q \in Sent} \cup {ReplayEntry(q, FALSE) : q \in Sent}

ReplayInv ==
  /\ DOMAIN qpOut = qpAsked
  /\ \A q \in qpAsked \ Sent : qpOut[q] = NoResponse
  /\ replayStore \in Seq(ReplayEntries)
  /\ replayed.status = 200 => {replayed.body, replayed.ask} \subseteq Sent
  /\ ReplayIsAnAnswer

\* A handler goes on, or sends its response and stores it at most.
Progress(q) ==
  /\ qpAsk' = qpAsk /\ replayed' = replayed /\ qpStep[q] # "done"
  /\ \/ /\ \E next \in QPSteps \ {"done"} : Goto(q, next)
        /\ qpOut' = qpOut /\ replayStore' = replayStore
     \/ \E response :
          /\ Goto(q, "done") /\ qpOut' = [qpOut EXCEPT ![q] = response]
          /\ \/ replayStore' = replayStore
             \/ replayStore' = LruSet(replayStore, response.token,
                  [doc |-> qpAsk[q].doc, query |-> qpAsk[q].query, body |-> q], QPReplayMax)

\* Every step of a handler is one of these two.
LEMMA HandlerProgress ==
  ASSUME NEW q \in qpAsked, QPHandle(q)
  PROVE  Progress(q)
<1>1. CASE handleQuery(q) \/ handleAnswer(q) \/ HandleQuery(q) \/ HandleAnswer(q)
  <2>1. PICK server, endpoint : Opens(q, server, endpoint)
    BY <1>1, Zenon DEF handleQuery, handleAnswer, HandleQuery, HandleAnswer
  <2>2. UNCHANGED <<qpAsk, replayed, replayStore>> /\ qpStep[q] = "start"
    BY <2>1 DEF Opens, qpShared, At
  <2>3. CASE Refuse(q, 404)
    BY <2>2, <2>3 DEF Refuse, Send, Progress
  <2>4. CASE ~Refuse(q, 404)
    BY <2>1, <2>2, <2>4 DEF Opens, Progress, QPSteps
  <2> QED BY <2>3, <2>4
<1>2. CASE LookUpPlan(q) \/ LockPlanner(q)
  BY <1>2 DEF LookUpPlan, LockPlanner, Planned, At, Progress, QPSteps
<1>3. CASE PlanReplied(q) \/ PlanFails(q)
  BY <1>3 DEF PlanReplied, PlanFails, Planned, At, Progress, QPSteps
<1>4. CASE LookUpSelection(q)
  BY <1>4 DEF LookUpSelection, Took, At, Progress, QPSteps
<1>5. CASE PrimarySelects(q) \/ FallbackSelects(q)
  BY <1>5 DEF PrimarySelects, FallbackSelects, Selected, Took, At, Progress, QPSteps
<1>6. CASE ProviderUnavailable(q)
  BY <1>6 DEF ProviderUnavailable, At, Progress, QPSteps
<1>7. CASE SelectionFails(q) \/ respondAbstained(q) \/ WriteUnits(q) \/ AnswerFails(q)
  <2>1. UNCHANGED <<qpAsk, replayed, replayStore>>
    BY <1>7 DEF SelectionFails, respondAbstained, WriteUnits, AnswerFails, qpShared
  <2>2. qpStep[q] # "done"
    BY <1>7 DEF SelectionFails, respondAbstained, WriteUnits, AnswerFails, At
  <2>3. \E response : Send(q, response)
    BY <1>7, Zenon DEF SelectionFails, respondAbstained, WriteUnits, AnswerFails, Refuse
  <2> QED BY <2>1, <2>2, <2>3, Zenon DEF Send, Progress
<1>8. CASE Assemble(q) \/ runReRank(q) \/ ReRankFails(q)
  <2>1. UNCHANGED <<qpAsk, replayed, replayStore, qpOut>> /\ qpStep[q] # "done"
    BY <1>8 DEF Assemble, runReRank, ReRankFails, qpShared, At
  <2>2. \E next \in {"rerank", "write"} : Goto(q, next)
    BY <1>8 DEF Assemble, runReRank, ReRankFails
  <2> QED BY <2>1, <2>2 DEF Progress, QPSteps
<1>9. CASE WriteQuery(q) \/ synthesiseAnswer(q) \/ answerFromSections(q) \/ answerFromPages(q)
  <2>1. UNCHANGED <<qpAsk, replayed>> /\ qpStep[q] # "done"
    BY <1>9 DEF WriteQuery, synthesiseAnswer, answerFromSections, answerFromPages, At
  <2>2. PICK ids : writeJSONWithReplay(q, ids)
    BY <1>9, Zenon DEF WriteQuery, synthesiseAnswer, answerFromSections, answerFromPages
  <2> DEFINE token == ComputeTraceToken(qpAsk[q].doc, ids)
             response == [status |-> 200, ids |-> ids, token |-> token]
  <2>3. response.token = token
    OBVIOUS
  <2>4. /\ Goto(q, "done") /\ qpOut' = [qpOut EXCEPT ![q] = response]
        /\ replayStore' = LruSet(replayStore, response.token,
             [doc |-> qpAsk[q].doc, query |-> qpAsk[q].query, body |-> q], QPReplayMax)
    BY <2>2, <2>3 DEF writeJSONWithReplay, Send
  <2> HIDE DEF response
  <2> QED BY <2>1, <2>4, Zenon DEF Progress
<1> QED BY <1>1, <1>2, <1>3, <1>4, <1>5, <1>6, <1>7, <1>8, <1>9, Zenon DEF QPHandle

\* What has been sent and stored stays so; a handler adds its own response.
LEMMA ProgressReplays ==
  ASSUME QPTypeOK, ReplayInv, NEW q \in qpAsked, Progress(q)
  PROVE  ReplayInv'
<1>0. /\ qpStep \in [qpAsked -> QPSteps] /\ DOMAIN qpOut = qpAsked /\ QPReplayMax \in Nat \ {0}
      /\ qpAsk' = qpAsk /\ qpAsked' = qpAsked /\ replayed' = replayed /\ q \notin Sent
      /\ replayStore \in Seq(ReplayEntries)
  BY QPAssumption DEF QPTypeOK, ReplayInv, Progress, Sent, qpAsked
<1>1. /\ Sent \subseteq Sent' /\ Sent' \subseteq Sent \cup {q}
      /\ DOMAIN qpOut' = qpAsked /\ \A r \in qpAsked \ {q} : qpOut'[r] = qpOut[r]
      /\ q \notin Sent' => qpOut' = qpOut
  BY <1>0 DEF Progress, Sent, Goto
<1>2. ReplayEntries \subseteq ReplayEntries'
  <2>1. \A r \in Sent : r \in Sent' /\ qpOut'[r] = qpOut[r]
    BY <1>0, <1>1 DEF Sent
  <2>2. \A r \in Sent, b \in BOOLEAN : ReplayEntry(r, b)' = ReplayEntry(r, b)
    BY <1>0, <2>1 DEF ReplayEntry
  <2> QED BY <2>1, <2>2 DEF ReplayEntries
<1>3. replayStore' \in Seq(ReplayEntries')
  <2>1. replayStore \in Seq(ReplayEntries')
    BY <1>0, <1>2
  <2>2. CASE replayStore' = replayStore
    BY <2>1, <2>2
  <2>3. CASE replayStore' # replayStore
    <3>1. PICK response :
            /\ Goto(q, "done") /\ qpOut' = [qpOut EXCEPT ![q] = response]
            /\ replayStore' = LruSet(replayStore, response.token,
                 [doc |-> qpAsk[q].doc, query |-> qpAsk[q].query, body |-> q], QPReplayMax)
      BY <2>3 DEF Progress
    <3>2. q \in Sent' /\ qpOut'[q] = response
      BY <1>0, <3>1 DEF Goto, Sent
    <3> DEFINE value == [doc |-> qpAsk[q].doc, query |-> qpAsk[q].query, body |-> q]
    <3>3. [key |-> response.token, value |-> value, live |-> TRUE] \in ReplayEntries'
      <4>1. ReplayEntry(q, TRUE)' \in ReplayEntries'
        BY <3>2, Zenon DEF ReplayEntries
      <4> QED BY <1>0, <3>2, <4>1, Zenon DEF ReplayEntry
    <3>4. replayStore' = LruSet(replayStore, response.token, value, QPReplayMax)
      BY <3>1
    <3> HIDE DEF value
    <3> QED BY <1>0, <2>1, <3>3, <3>4, LruSetLeaves
  <2> QED BY <2>2, <2>3
<1>4. \A r \in qpAsked \ Sent' : qpOut'[r] = NoResponse
  BY <1>1 DEF ReplayInv
<1>5. ASSUME replayed.status = 200
      PROVE  /\ {replayed.body, replayed.ask} \subseteq Sent'
             /\ qpAsk[replayed.body].query = qpAsk[replayed.ask].query
             /\ qpAsk[replayed.body].doc = qpAsk[replayed.ask].doc
             /\ qpOut'[replayed.body].token = qpOut'[replayed.ask].token
  <2>1. {replayed.body, replayed.ask} \subseteq Sent
    BY <1>5 DEF ReplayInv
  <2>2. qpOut'[replayed.body] = qpOut[replayed.body] /\ qpOut'[replayed.ask] = qpOut[replayed.ask]
    BY <1>0, <1>1, <2>1 DEF Sent
  <2> QED BY <1>1, <1>5, <2>1, <2>2 DEF ReplayInv, ReplayIsAnAnswer
<1> QED BY <1>0, <1>1, <1>3, <1>4, <1>5 DEF ReplayInv, ReplayIsAnAnswer

\* An entry found by a token holds a sent response with that token.
LEMMA FoundReplay ==
  ASSUME ReplayInv, NEW k, LruHolds(replayStore, k)
  PROVE  LET e == LruValue(replayStore, k)
         IN  e.body \in Sent /\ qpOut[e.body].token = k /\ e.doc = qpAsk[e.body].doc /\ e.query = qpAsk[e.body].query
<1>1. LruPlaces(replayStore, k) # {}
  BY DEF LruHolds
<1> DEFINE e == replayStore[LruPlace(replayStore, k)]
<1>2. e \in ReplayEntries /\ e.key = k
  BY <1>1, LruPlaceIsEntry DEF ReplayInv
<1> HIDE DEF e
<1>3. PICK q \in Sent, b \in BOOLEAN : e = ReplayEntry(q, b)
  BY <1>2 DEF ReplayEntries
<1>4. e.value.body = q /\ e.value.doc = qpAsk[q].doc /\ e.value.query = qpAsk[q].query /\ qpOut[q].token = k
  BY <1>2, <1>3 DEF ReplayEntry
<1>5. LruValue(replayStore, k) = e.value
  BY DEF LruValue, e
<1> QED BY <1>4, <1>5

\* A replay gives back a response to the same question, or none.
LEMMA ReplayReplays ==
  ASSUME QPTypeOK, ReplayInv, NEW q \in qpAsked, handleReplay(q)
  PROVE  ReplayInv'
<1> DEFINE token == qpOut[q].token
           entry == LruValue(replayStore, token)
           status == IF ~LruHolds(replayStore, token) THEN 404
                     ELSE IF entry.doc # qpAsk[q].doc \/ entry.query # qpAsk[q].query THEN 409 ELSE 200
<1>1. /\ token # <<>> /\ UNCHANGED <<qpAsk, qpStep, qpOut>>
      /\ replayStore' = LruGet(replayStore, token)
      /\ replayed' = [ask |-> q, status |-> status, body |-> IF status = 200 THEN entry.body ELSE 0]
  BY DEF handleReplay
<1>2. q \in Sent
  BY <1>1 DEF ReplayInv, NoResponse
<1>3. qpAsked' = qpAsked /\ Sent' = Sent /\ ReplayEntries' = ReplayEntries
  BY <1>1 DEF qpAsked, Sent, ReplayEntries, ReplayEntry
<1>4. replayStore' \in Seq(ReplayEntries')
  BY <1>1, <1>3, LruGetLeaves DEF ReplayInv
<1>5. ASSUME status = 200
      PROVE  /\ entry.body \in Sent /\ qpOut[entry.body].token = token
             /\ qpAsk[entry.body].doc = qpAsk[q].doc /\ qpAsk[entry.body].query = qpAsk[q].query
  <2>1. LruHolds(replayStore, token) /\ entry.doc = qpAsk[q].doc /\ entry.query = qpAsk[q].query
    BY <1>5
  <2>2. /\ entry.body \in Sent /\ qpOut[entry.body].token = token
        /\ entry.doc = qpAsk[entry.body].doc /\ entry.query = qpAsk[entry.body].query
    BY <2>1, FoundReplay
  <2> QED BY <2>1, <2>2
<1>6. replayed'.status = status /\ replayed'.ask = q /\ (status = 200 => replayed'.body = entry.body)
  BY <1>1
<1> HIDE DEF status, entry, token
<1>7. replayed'.status = 200 =>
        /\ {replayed'.body, replayed'.ask} \subseteq Sent
        /\ qpAsk[replayed'.body].query = qpAsk[replayed'.ask].query
        /\ qpAsk[replayed'.body].doc = qpAsk[replayed'.ask].doc
        /\ qpOut[replayed'.body].token = qpOut[replayed'.ask].token
  BY <1>2, <1>5, <1>6 DEF token
<1> QED BY <1>1, <1>3, <1>4, <1>7 DEF ReplayInv, ReplayIsAnAnswer

\* At the start no one plans and nothing was sent or replayed.
LEMMA ReplayStart ==
  ASSUME QPInit \/ QPIdle
  PROVE  ReplayInv /\ PlannedOnce
<1>1. QPBlank
  BY DEF QPInit, QPIdle
<1>2. <<>> \in Seq(ReplayEntries)
  OBVIOUS
<1>3. ReplayInv
  BY <1>1, <1>2 DEF QPBlank, ReplayInv, ReplayIsAnAnswer, NoReplay
<1>4. PlannedOnce
  BY <1>1 DEF QPBlank, PlannedOnce, At
<1> QED BY <1>3, <1>4

\* An expired entry keeps its key and its value.
LEMMA ExpiredEntry ==
  ASSUME NEW k, NEW v, NEW live, NEW dead
  PROVE  [[key |-> k, value |-> v, live |-> live] EXCEPT !.live = dead] = [key |-> k, value |-> v, live |-> dead]
OBVIOUS

\* Every step keeps the store to responses that were sent.
LEMMA ReplayStep ==
  ASSUME QPTypeOK, ReplayInv, [QPNext]_qpVars
  PROVE  ReplayInv'
<1>1. CASE UNCHANGED qpVars
  BY <1>1 DEF qpVars, ReplayInv, ReplayIsAnAnswer, ReplayEntries, ReplayEntry, Sent, qpAsked
<1>2. ASSUME NEW q \in qpAsked, QPHandle(q) PROVE ReplayInv'
  BY <1>2, HandlerProgress, ProgressReplays
<1>3. ASSUME NEW q \in qpAsked, handleReplay(q) PROVE ReplayInv'
  BY <1>3, ReplayReplays
<1>4. CASE EntryExpires
  <2>1. UNCHANGED <<qpAsk, qpStep, qpOut, replayed>>
    BY <1>4 DEF EntryExpires
  <2>2. \/ replayStore' = replayStore
        \/ \E i \in DOMAIN replayStore : replayStore' = LruExpire(replayStore, i)
    BY <1>4 DEF EntryExpires
  <2>3. ASSUME NEW e \in ReplayEntries PROVE [e EXCEPT !.live = FALSE] \in ReplayEntries
    <3> DEFINE dead == FALSE
    <3>1. PICK q \in Sent : e = ReplayEntry(q, TRUE) \/ e = ReplayEntry(q, FALSE)
      BY <2>3 DEF ReplayEntries
    <3>2. ReplayEntry(q, dead) \in ReplayEntries /\ \E live : e = ReplayEntry(q, live)
      BY <3>1, Zenon DEF ReplayEntries
    <3>3. [e EXCEPT !.live = dead] \in ReplayEntries
      <4> HIDE DEF dead
      <4>1. PICK live : e = ReplayEntry(q, live)
        BY <3>2
      <4>2. [ReplayEntry(q, live) EXCEPT !.live = dead] = ReplayEntry(q, dead)
        BY ExpiredEntry DEF ReplayEntry
      <4> QED BY <3>2, <4>1, <4>2, Zenon
    <3> QED BY <3>3
  <2>4. replayStore' \in Seq(ReplayEntries)
    <3>1. replayStore \in Seq(ReplayEntries)
      BY DEF ReplayInv
    <3>2. ASSUME NEW i \in DOMAIN replayStore PROVE LruExpire(replayStore, i) \in Seq(ReplayEntries)
      <4>1. replayStore[i] \in ReplayEntries
        BY <3>1, EntryOf
      <4>2. [replayStore[i] EXCEPT !.live = FALSE] \in ReplayEntries
        BY <2>3, <4>1
      <4> QED BY <3>1, <4>2, LruExpireLeaves
    <3> QED BY <2>2, <3>1, <3>2
  <2> QED BY <2>1, <2>4 DEF ReplayInv, ReplayIsAnAnswer, ReplayEntries, ReplayEntry, Sent, qpAsked
<1> QED BY <1>1, <1>2, <1>3, <1>4 DEF QPNext

-----------------------------------------------------------------------------
\* Requests that share the planner, the caches and the replay store get what
\* is theirs: however many meet, whatever the planner and the strategies
\* reply, and whenever calls fail and entries expire.
THEOREM ServedAnswers == ServingSpec => []AnswersSound
<1> DEFINE Inv == OwnInv /\ PlannedOnce /\ ReplayInv
<1>1. ServingInit => Inv
  BY PartsStart, OwnStart, ReplayStart
<1>2. Inv /\ [ServingNext]_servingVars => Inv'
  <2>1. OwnInv => QPTypeOK
    BY DEF OwnInv
  <2> QED BY <2>1, PartsStep, OwnStep, PlannedStep, ReplayStep
<1>3. Inv => AnswersSound
  BY OwnIsAnswered DEF AnswersSound, ReplayInv
<1> HIDE DEF Inv
<1> QED BY <1>1, <1>2, <1>3, PTL DEF ServingSpec

-----------------------------------------------------------------------------
(***************************************************************************)
(* SEVERAL DOCUMENTS, for any requests, picks, limits and capacity: each   *)
(* document is answered for, and a store answer's evidence fits its prompt.*)
(***************************************************************************)
MQReq == [kind : {"none", "multi", "stream", "store"}, docs : Seq(Nat), max : Int]
MQSection == [at : Nat, len : Nat \ {0}]

\* What the documents gave are sections with text.
GivenFits(found) ==
  /\ found \in [DOMAIN found -> Seq(Nat \ {0})]

\* The sections of the documents at the first n places, in order: each of a
\* place that is named, and one at least of every document that gave some.
OfferFits(all, req, found, n) ==
  /\ all \in Seq(MQSection)
  /\ \A k \in DOMAIN all : all[k].at \in 1..n
  /\ \A j, k \in DOMAIN all : j < k => all[j].at <= all[k].at
  /\ \A i \in 1..n : req.docs[i] \in DOMAIN found /\ found[req.docs[i]] # <<>> =>
       \E k \in DOMAIN all : all[k].at = i

\* Putting the sections of the next place behind.
LEMMA OfferGrows ==
  ASSUME NEW req, NEW found, NEW n \in Nat, NEW all, OfferFits(all, req, found, n),
         NEW new \in Seq(MQSection), \A k \in DOMAIN new : new[k].at = n + 1,
         req.docs[n + 1] \in DOMAIN found /\ found[req.docs[n + 1]] # <<>> => new # <<>>
  PROVE  OfferFits(all \o new, req, found, n + 1)
<1> DEFINE both == all \o new
<1>1. all \in Seq(MQSection)
  BY DEF OfferFits
<1>2. /\ both \in Seq(MQSection) /\ Len(both) = Len(all) + Len(new) /\ Len(all) \in Nat /\ Len(new) \in Nat
      /\ DOMAIN both = 1..Len(both) /\ DOMAIN all = 1..Len(all) /\ DOMAIN new = 1..Len(new)
      /\ \A k \in DOMAIN all : k \in DOMAIN both /\ both[k] = all[k]
      /\ \A k \in DOMAIN new : Len(all) + k \in DOMAIN both /\ both[Len(all) + k] = new[k]
      /\ \A k \in DOMAIN both : k \in DOMAIN all \/ (k > Len(all) /\ k - Len(all) \in DOMAIN new /\ both[k] = new[k - Len(all)])
  BY <1>1
<1> HIDE DEF both
<1>3. \A k \in DOMAIN both : IF k \in DOMAIN all THEN both[k].at \in 1..n ELSE both[k].at = n + 1
  BY <1>2 DEF OfferFits
<1>4. \A k \in DOMAIN both : both[k].at \in 1..(n + 1)
  BY <1>3
<1>5. ASSUME NEW j \in DOMAIN both, NEW k \in DOMAIN both, j < k PROVE both[j].at <= both[k].at
  <2>1. CASE k \in DOMAIN all
    <3>1. j \in DOMAIN all
      BY <1>2, <1>5, <2>1
    <3>2. all[j].at <= all[k].at
      BY <1>5, <2>1, <3>1 DEF OfferFits
    <3> QED BY <1>2, <2>1, <3>1, <3>2
  <2>2. CASE k \notin DOMAIN all
    BY <1>3, <1>4, <2>2
  <2> QED BY <2>1, <2>2
<1>6. ASSUME NEW i \in 1..(n + 1), req.docs[i] \in DOMAIN found, found[req.docs[i]] # <<>>
      PROVE  \E k \in DOMAIN both : both[k].at = i
  <2>1. CASE i = n + 1
    <3>1. 1 \in DOMAIN new
      BY <1>2, <1>6, <2>1
    <3> QED BY <1>2, <2>1, <3>1
  <2>2. CASE i # n + 1
    <3>1. i \in 1..n
      BY <2>2
    <3>2. PICK k \in DOMAIN all : all[k].at = i
      BY <1>6, <3>1 DEF OfferFits
    <3> QED BY <1>2, <3>2
  <2> QED BY <2>1, <2>2
<1>7. OfferFits(both, req, found, n + 1)
  BY <1>2, <1>4, <1>5, <1>6 DEF OfferFits
<1> QED BY <1>7 DEF both

\* What is offered is in the order the documents were named.
LEMMA OfferedFits ==
  ASSUME NEW req \in MQReq, NEW found, GivenFits(found)
  PROVE  OfferFits(Offered(req, found), req, found, Len(req.docs))
<1> DEFINE n == Len(req.docs)
           A == Seq(MQSection)
           of(i) == IF req.docs[i] \in DOMAIN found
                    THEN [k \in DOMAIN found[req.docs[i]] |-> [at |-> i, len |-> found[req.docs[i]][k]]]
                    ELSE <<>>
           upTo[k \in 0..n] == IF k = 0 THEN <<>> ELSE upTo[k - 1] \o of(k)
           G == [p \in A \X (1..n) |-> p[1] \o of(p[2])]
<1>1. n \in Nat
  BY DEF MQReq
<1>2. Offered(req, found) = upTo[n]
  BY DEF Offered
<1>3. ASSUME NEW i \in 1..n
      PROVE  /\ of(i) \in A /\ \A k \in DOMAIN of(i) : of(i)[k].at = i
             /\ req.docs[i] \in DOMAIN found /\ found[req.docs[i]] # <<>> => of(i) # <<>>
  <2>0. i \in Nat
    BY <1>1
  <2>1. CASE req.docs[i] \in DOMAIN found
    <3> DEFINE f == found[req.docs[i]]
               s == [k \in DOMAIN f |-> [at |-> i, len |-> f[k]]]
    <3>1. f \in Seq(Nat \ {0})
      BY <2>1 DEF GivenFits
    <3>2. of(i) = s
      BY <2>1
    <3> HIDE DEF f
    <3>3. DOMAIN f = 1..Len(f) /\ Len(f) \in Nat /\ \A k \in DOMAIN f : f[k] \in Nat \ {0}
      BY <3>1
    <3>4. \A k \in DOMAIN f : [at |-> i, len |-> f[k]] \in MQSection
      BY <2>0, <3>3 DEF MQSection
    <3>5. s \in Seq(MQSection) /\ \A k \in DOMAIN s : s[k].at = i
      BY <3>3, <3>4
    <3>6. f # <<>> => s # <<>>
      <4>1. SUFFICES ASSUME f # <<>> PROVE s # <<>>
        OBVIOUS
      <4>2. 1 \in DOMAIN f
        BY <3>1, <3>3, <4>1
      <4>3. DOMAIN s = DOMAIN f
        OBVIOUS
      <4> QED BY <4>2, <4>3
    <3> HIDE DEF s
    <3> QED BY <3>2, <3>5, <3>6 DEF f
  <2>2. CASE req.docs[i] \notin DOMAIN found
    BY <2>2
  <2> QED BY <2>1, <2>2
<1> HIDE DEF of
<1>4. \A s \in A, k \in 1..n : s \o of(k) \in A
  <2> TAKE s \in A, k \in 1..n
  <2>1. of(k) \in A
    BY <1>3
  <2> QED BY <2>1, Joined
<1>4a. <<>> \in A
  OBVIOUS
<1> HIDE DEF n, A
<1>5. G \in [A \X (1..n) -> A] /\ \A s \in A, k \in 1..n : G[<<s, k>>] = s \o of(k)
  BY <1>4
<1>6. PICK f \in [0..n -> A] : f[0] = <<>> /\ \A k \in 1..n : f[k] = G[<<f[k - 1], k>>]
  <2> HIDE DEF G
  <2>1. \E f : GoesOn(f, n, A, <<>>, G)
    BY <1>1, <1>4a, <1>5, PrefixRecursion, Zenon
  <2> QED BY <2>1 DEF GoesOn
<1> HIDE DEF G
<1>7. ASSUME NEW k \in 1..n PROVE f[k] = f[k - 1] \o of(k)
  <2>1. k - 1 \in 0..n
    BY <1>1
  <2>2. f[k - 1] \in A
    BY <2>1
  <2> QED BY <1>5, <1>6, <2>2
<1>8. f = [k \in 0..n |-> IF k = 0 THEN <<>> ELSE f[k - 1] \o of(k)]
  <2>1. \A k \in 0..n : k # 0 => k \in 1..n
    BY <1>1
  <2> QED BY <1>6, <1>7, <2>1
<1>9. upTo = [k \in 0..n |-> IF k = 0 THEN <<>> ELSE upTo[k - 1] \o of(k)]
  BY <1>8
<1> HIDE DEF upTo
<1> DEFINE T == {k \in 0..n : OfferFits(upTo[k], req, found, k)}
<1>10. 0 \in T
  <2>1. upTo[0] = <<>> /\ 0 \in 0..n
    BY <1>1, <1>9
  <2>2. OfferFits(<<>>, req, found, 0)
    BY DEF OfferFits
  <2> QED BY <2>1, <2>2
<1>11. ASSUME NEW k \in 1..n, k - 1 \in T PROVE k \in T
  <2>1. k \in 0..n /\ k # 0 /\ k - 1 \in Nat /\ (k - 1) + 1 = k
    BY <1>1
  <2>2. upTo[k] = upTo[k - 1] \o of(k)
    BY <1>9, <2>1
  <2>3. OfferFits(upTo[k - 1], req, found, k - 1)
    BY <1>11
  <2> HIDE DEF T
  <2>4. /\ of(k) \in Seq(MQSection) /\ \A j \in DOMAIN of(k) : of(k)[j].at = (k - 1) + 1
        /\ req.docs[(k - 1) + 1] \in DOMAIN found /\ found[req.docs[(k - 1) + 1]] # <<>> => of(k) # <<>>
    BY <1>3, <2>1 DEF A
  <2>5. OfferFits(upTo[k - 1] \o of(k), req, found, (k - 1) + 1)
    BY <2>1, <2>3, <2>4, OfferGrows
  <2>6. OfferFits(upTo[k], req, found, k)
    BY <2>1, <2>2, <2>5
  <2> QED BY <2>1, <2>6 DEF T
<1>12. \A k \in 0..n : k \in T
  <2> HIDE DEF T
  <2> QED BY <1>1, <1>10, <1>11, UpTo
<1>13. OfferFits(upTo[n], req, found, n)
  <2>1. n \in 0..n
    BY <1>1
  <2> QED BY <1>12, <2>1
<1> QED BY <1>2, <1>13 DEF n


\* The length of all sections is what counting them up gives.
Counts(f, flat) ==
  /\ f \in [0..Len(flat) -> Int] /\ f[0] = 0
  /\ \A k \in 1..Len(flat) : f[k] = f[k - 1] + flat[k].len

LEMMA TotalCounts ==
  ASSUME NEW flat \in Seq(MQSection), NEW f, Counts(f, flat)
  PROVE  Total(flat) = f[Len(flat)]
<1> DEFINE n == Len(flat)
           upTo[k \in 0..n] == IF k = 0 THEN 0 ELSE upTo[k - 1] + flat[k].len
<1>1. n \in Nat
  OBVIOUS
<1>2. Total(flat) = upTo[n]
  BY DEF Total
<1>3. f \in [0..n -> Int] /\ f[0] = 0 /\ \A k \in 1..n : f[k] = f[k - 1] + flat[k].len
  BY DEF Counts
<1> HIDE DEF n
<1>4. f = [k \in 0..n |-> IF k = 0 THEN 0 ELSE f[k - 1] + flat[k].len]
  <2>1. \A k \in 0..n : k # 0 => k \in 1..n
    BY <1>1
  <2> QED BY <1>3, <2>1
<1>5. upTo = [k \in 0..n |-> IF k = 0 THEN 0 ELSE upTo[k - 1] + flat[k].len]
  BY <1>4
<1> HIDE DEF upTo
<1> DEFINE T == {k \in 0..n : upTo[k] = f[k]}
<1>6. 0 \in T
  BY <1>1, <1>3, <1>5
<1>7. ASSUME NEW k \in 1..n, k - 1 \in T PROVE k \in T
  <2>1. k \in 0..n /\ k # 0
    BY <1>1
  <2>2. upTo[k - 1] = f[k - 1]
    BY <1>7
  <2>3. upTo[k] = f[k]
    BY <1>3, <1>5, <2>1, <2>2
  <2> QED BY <2>1, <2>3
<1>8. \A k \in 0..n : k \in T
  <2> HIDE DEF T
  <2> QED BY <1>1, <1>6, <1>7, UpTo
<1>9. n \in 0..n
  BY <1>1
<1> QED BY <1>2, <1>8, <1>9 DEF n

\* A section is cut to something as long as there is room, and to what is left.
LEMMA CutFits ==
  ASSUME NEW len \in Nat \ {0}, NEW spent \in 0..MQBudget
  PROVE  /\ CutTo(len, spent) \in 0..MQCap /\ spent + CutTo(len, spent) \in 0..MQBudget
         /\ spent < MQBudget => CutTo(len, spent) \in 1..MQCap
BY MQAssumption DEF CutTo, Smaller

\* What is spent grows with every section, up to the budget.
SpendFits(s, all) ==
  /\ s \in [0..Len(all) -> 0..MQBudget] /\ s[0] = 0
  /\ \A k \in 1..Len(all) : s[k] = s[k - 1] + CutTo(all[k].len, s[k - 1])
  /\ \A k \in 0..Len(all) : \A j \in 0..k : s[j] <= s[k]

LEMMA SpendingFits ==
  ASSUME NEW all \in Seq(MQSection)
  PROVE  SpendFits(Spending(all), all)
<1> DEFINE n == Len(all)
           A == 0..MQBudget
           upTo[k \in 0..n] == IF k = 0 THEN 0 ELSE upTo[k - 1] + CutTo(all[k].len, upTo[k - 1])
           G == [p \in A \X (1..n) |-> p[1] + CutTo(all[p[2]].len, p[1])]
<1>1. n \in Nat /\ \A k \in 1..n : all[k].len \in Nat \ {0}
  <2>1. n \in Nat /\ \A k \in 1..n : all[k] \in MQSection
    OBVIOUS
  <2> QED BY <2>1 DEF MQSection
<1>2. Spending(all) = upTo
  BY DEF Spending
<1>3. 0 \in A
  BY MQAssumption
<1> HIDE DEF n
<1>4. \A s \in A, k \in 1..n : s + CutTo(all[k].len, s) \in A
  BY <1>1, CutFits
<1> HIDE DEF A
<1>5. G \in [A \X (1..n) -> A] /\ \A s \in A, k \in 1..n : G[<<s, k>>] = s + CutTo(all[k].len, s)
  BY <1>4
<1>6. PICK f \in [0..n -> A] : f[0] = 0 /\ \A k \in 1..n : f[k] = G[<<f[k - 1], k>>]
  <2> HIDE DEF G
  <2>1. \E f : GoesOn(f, n, A, 0, G)
    BY <1>1, <1>3, <1>5, PrefixRecursion, Zenon
  <2> QED BY <2>1 DEF GoesOn
<1> HIDE DEF G
<1>7. ASSUME NEW k \in 1..n PROVE f[k] = f[k - 1] + CutTo(all[k].len, f[k - 1])
  <2>1. k - 1 \in 0..n
    BY <1>1
  <2>2. f[k - 1] \in A
    BY <2>1
  <2> QED BY <1>5, <1>6, <2>2
<1>8. f = [k \in 0..n |-> IF k = 0 THEN 0 ELSE f[k - 1] + CutTo(all[k].len, f[k - 1])]
  <2>1. \A k \in 0..n : k # 0 => k \in 1..n
    BY <1>1
  <2> QED BY <1>6, <1>7, <2>1
<1>9. upTo = [k \in 0..n |-> IF k = 0 THEN 0 ELSE upTo[k - 1] + CutTo(all[k].len, upTo[k - 1])]
  BY <1>8
<1> HIDE DEF upTo
<1>10. upTo[0] = 0 /\ \A k \in 1..n : upTo[k] = upTo[k - 1] + CutTo(all[k].len, upTo[k - 1])
  <2>1. \A k \in 1..n : k \in 0..n /\ k # 0
    BY <1>1
  <2>2. 0 \in 0..n
    BY <1>1
  <2> QED BY <1>9, <2>1, <2>2
<1> DEFINE T == {k \in 0..n : \A j \in 0..k : upTo[j] \in A /\ upTo[j] <= upTo[k]}
<1>11. 0 \in T
  <2>1. 0 \in 0..n /\ \A j \in 0..0 : j = 0
    BY <1>1
  <2> QED BY <1>3, <1>10, <2>1 DEF A
<1>12. ASSUME NEW k \in 1..n, k - 1 \in T PROVE k \in T
  <2>1. k \in 0..n /\ \A j \in 0..k : j \in 0..(k - 1) \/ j = k
    BY <1>1
  <2>2a. k - 1 \in 0..(k - 1) /\ \A j \in 0..(k - 1) : upTo[j] \in A /\ upTo[j] <= upTo[k - 1]
    BY <1>12
  <2>2. upTo[k - 1] \in A
    BY <2>2a
  <2>3. upTo[k] = upTo[k - 1] + CutTo(all[k].len, upTo[k - 1])
    BY <1>10
  <2>4. CutTo(all[k].len, upTo[k - 1]) \in 0..MQCap /\ upTo[k] \in A
    BY <1>1, <2>2, <2>3, CutFits DEF A
  <2>5. upTo[k - 1] \in Nat /\ CutTo(all[k].len, upTo[k - 1]) \in Nat
    BY <2>2, <2>4, MQAssumption DEF A
  <2>6. upTo[k - 1] <= upTo[k] /\ upTo[k] \in Nat
    BY <2>3, <2>5
  <2>7. ASSUME NEW j \in 0..k PROVE upTo[j] \in A /\ upTo[j] <= upTo[k]
    <3>1. CASE j = k
      BY <2>4, <2>6, <3>1
    <3>2. CASE j \in 0..(k - 1)
      <4>1. upTo[j] \in A /\ upTo[j] <= upTo[k - 1]
        BY <2>2a, <3>2
      <4>2. upTo[j] \in Int
        BY <4>1 DEF A
      <4> QED BY <2>5, <2>6, <4>1, <4>2
    <3> QED BY <2>1, <3>1, <3>2
  <2> QED BY <2>1, <2>7
<1>13. \A k \in 0..n : k \in T
  <2> HIDE DEF T
  <2> QED BY <1>1, <1>11, <1>12, UpTo
<1>14. \A k \in 0..n : upTo[k] \in A /\ \A j \in 0..k : upTo[j] <= upTo[k]
  <2>1. \A k \in 0..n : k \in 0..k
    BY <1>1
  <2> QED BY <1>13, <2>1
<1>15. upTo \in [0..n -> A]
  BY <1>9, <1>14
<1> QED BY <1>2, <1>10, <1>14, <1>15 DEF SpendFits, n, A


\* The evidence of a store answer, and what it was made from.
EvidenceFits(flat, req, found) ==
  /\ flat \in Seq(MQSection)
  /\ Total(flat) <= MQBudget /\ (req.max > 0 => Len(flat) <= req.max)
  /\ \A k \in DOMAIN flat : flat[k].at \in DOMAIN req.docs /\ flat[k].len \in 1..MQCap
  /\ \A j, k \in DOMAIN flat : j < k => flat[j].at <= flat[k].at
  /\ \A i \in DOMAIN req.docs : req.docs[i] \in DOMAIN found /\ found[req.docs[i]] # <<>> =>
       \/ Total(flat) = MQBudget \/ (req.max > 0 /\ Len(flat) = req.max)
       \/ \E k \in DOMAIN flat : flat[k].at = i

LEMMA SelectedFits ==
  ASSUME NEW req \in MQReq, NEW found, GivenFits(found)
  PROVE  EvidenceFits(selectRelevant(req, found), req, found)
<1> DEFINE all == Offered(req, found)
           spent == Spending(all)
           n == Len(all)
           S == {k \in DOMAIN all : (req.max > 0 => k <= req.max) /\ spent[k - 1] < MQBudget}
           flat == [k \in S |-> [at |-> all[k].at, len |-> CutTo(all[k].len, spent[k - 1])]]
<1>1. OfferFits(all, req, found, Len(req.docs))
  BY OfferedFits
<1>2. selectRelevant(req, found) = flat
  BY DEF selectRelevant
<1> HIDE DEF all
<1>3. all \in Seq(MQSection)
  BY <1>1 DEF OfferFits
<1>4. SpendFits(spent, all)
  BY <1>3, SpendingFits
<1> HIDE DEF spent
<1>5. /\ n \in Nat /\ DOMAIN all = 1..n /\ req.max \in Int /\ Len(req.docs) \in Nat
      /\ DOMAIN req.docs = 1..Len(req.docs)
      /\ \A k \in 1..n : all[k].len \in Nat \ {0} /\ all[k].at \in Nat
  <2>1. \A k \in 1..n : all[k] \in MQSection
    BY <1>3
  <2>2. n \in Nat /\ DOMAIN all = 1..n
    BY <1>3
  <2>3. req.max \in Int /\ req.docs \in Seq(Nat)
    BY DEF MQReq
  <2>4. Len(req.docs) \in Nat /\ DOMAIN req.docs = 1..Len(req.docs)
    BY <2>3
  <2> QED BY <2>1, <2>2, <2>3, <2>4 DEF MQSection
<1>6. /\ spent \in [0..n -> 0..MQBudget] /\ spent[0] = 0
      /\ \A k \in 1..n : spent[k] = spent[k - 1] + CutTo(all[k].len, spent[k - 1])
      /\ \A k \in 0..n : \A j \in 0..k : spent[j] <= spent[k]
  BY <1>4 DEF SpendFits
<1> HIDE DEF n
<1>6a. \A k \in 1..n : k - 1 \in 0..n /\ spent[k - 1] \in 0..MQBudget
  <2>1. \A k \in 1..n : k - 1 \in 0..n
    BY <1>5
  <2> QED BY <1>6, <2>1
<1>7. ASSUME NEW k \in S, NEW j \in 1..k PROVE j \in S
  <2>1. k \in 1..n /\ j \in 1..n /\ j - 1 \in 0..(k - 1) /\ k - 1 \in 0..n /\ j <= k
    BY <1>5
  <2>2. spent[j - 1] <= spent[k - 1] /\ spent[k - 1] < MQBudget
    BY <1>6, <2>1
  <2>3. spent[j - 1] \in Int /\ spent[k - 1] \in Int /\ MQBudget \in Int
    BY <1>6a, <2>1, MQAssumption
  <2>4. spent[j - 1] < MQBudget
    BY <2>2, <2>3
  <2>5. req.max > 0 => j <= req.max
    BY <1>5, <2>1
  <2> QED BY <1>5, <2>1, <2>4, <2>5
<1>8. PICK m \in 0..n : S = 1..m
  <2>1. S \in SUBSET (1..n)
    BY <1>5
  <2> HIDE DEF S
  <2> QED BY <1>5, <1>7, <2>1, FromTheFront
<1>9. m \in Nat /\ \A k \in 1..m : k \in 1..n /\ (req.max > 0 => k <= req.max) /\ spent[k - 1] < MQBudget
  <2>1. \A k \in S : k \in 1..n /\ (req.max > 0 => k <= req.max) /\ spent[k - 1] < MQBudget
    BY <1>5
  <2> HIDE DEF S
  <2> QED BY <1>5, <1>8, <2>1
<1>10. m + 1 \in 1..n => (req.max > 0 /\ m + 1 > req.max) \/ ~(spent[m] < MQBudget)
  <2>1. SUFFICES ASSUME m + 1 \in 1..n PROVE (req.max > 0 /\ m + 1 > req.max) \/ ~(spent[m] < MQBudget)
    OBVIOUS
  <2>2. m + 1 \notin S
    <3> HIDE DEF S
    <3> QED BY <1>5, <1>8
  <2>3. (m + 1) - 1 = m
    BY <1>9
  <2> QED BY <1>5, <2>1, <2>2, <2>3, <1>9
<1>11. flat = [k \in 1..m |-> [at |-> all[k].at, len |-> CutTo(all[k].len, spent[k - 1])]]
  BY <1>8
<1> HIDE DEF S, flat
<1>12. ASSUME NEW k \in 1..m PROVE CutTo(all[k].len, spent[k - 1]) \in 1..MQCap
  BY <1>5, <1>6a, <1>9, CutFits
<1>13. /\ flat \in Seq(MQSection) /\ Len(flat) = m /\ DOMAIN flat = 1..m
       /\ \A k \in 1..m : flat[k].at = all[k].at /\ flat[k].len = CutTo(all[k].len, spent[k - 1])
  <2>1. \A k \in 1..m : [at |-> all[k].at, len |-> CutTo(all[k].len, spent[k - 1])] \in MQSection
    BY <1>5, <1>9, <1>12, MQAssumption DEF MQSection
  <2> QED BY <1>9, <1>11, <2>1
<1>14. Total(flat) = spent[m] /\ spent[m] \in 0..MQBudget
  <2> DEFINE f == [k \in 0..m |-> spent[k]]
  <2>1. \A k \in 0..m : k \in 0..n /\ spent[k] \in 0..MQBudget
    BY <1>5, <1>6, <1>8
  <2>2. f \in [0..m -> Int] /\ f[0] = 0
    BY <1>6, <1>9, <2>1
  <2>3. ASSUME NEW k \in 1..m PROVE f[k] = f[k - 1] + flat[k].len
    <3>1. k \in 0..m /\ k - 1 \in 0..m /\ k \in 1..n
      BY <1>9
    <3>2. f[k] = spent[k] /\ f[k - 1] = spent[k - 1]
      BY <3>1
    <3> QED BY <1>6, <1>13, <3>1, <3>2
  <2>4. Counts(f, flat)
    BY <1>13, <2>2, <2>3 DEF Counts
  <2>5. f[m] = spent[m]
    BY <1>9
  <2> HIDE DEF f
  <2>6. Total(flat) = f[m]
    BY <1>13, <2>4, TotalCounts
  <2>7. m \in 0..m
    BY <1>9
  <2> QED BY <2>1, <2>5, <2>6, <2>7
<1>15. req.max > 0 => Len(flat) <= req.max
  <2>1. CASE m = 0
    BY <1>5, <1>13, <2>1
  <2>2. CASE m # 0
    <3>1. m \in 1..m
      BY <1>9, <2>2
    <3> QED BY <1>9, <1>13, <3>1
  <2> QED BY <2>1, <2>2
<1>16. \A k \in DOMAIN flat : flat[k].at \in DOMAIN req.docs /\ flat[k].len \in 1..MQCap
  <2>1. \A k \in 1..n : all[k].at \in DOMAIN req.docs
    BY <1>1, <1>5 DEF OfferFits
  <2> QED BY <1>9, <1>12, <1>13, <2>1
<1>17. \A j, k \in DOMAIN flat : j < k => flat[j].at <= flat[k].at
  <2>1. \A j, k \in 1..n : j < k => all[j].at <= all[k].at
    BY <1>1, <1>5 DEF OfferFits
  <2> QED BY <1>9, <1>13, <2>1
<1>18. ASSUME NEW i \in DOMAIN req.docs, req.docs[i] \in DOMAIN found, found[req.docs[i]] # <<>>
       PROVE  \/ Total(flat) = MQBudget \/ (req.max > 0 /\ Len(flat) = req.max)
              \/ \E k \in DOMAIN flat : flat[k].at = i
  <2>1. PICK k \in 1..n : all[k].at = i
    BY <1>1, <1>5, <1>18 DEF OfferFits
  <2>2. CASE k \in 1..m
    BY <1>13, <2>1, <2>2
  <2>3. CASE k \notin 1..m
    <3>1. m + 1 \in 1..n
      BY <1>5, <1>9, <2>3
    <3>2. CASE req.max > 0 /\ m + 1 > req.max
      BY <1>5, <1>9, <1>13, <1>15, <3>2
    <3>3. CASE ~(spent[m] < MQBudget)
      BY <1>14, <3>3, MQAssumption
    <3> QED BY <1>10, <3>1, <3>2, <3>3
  <2> QED BY <2>2, <2>3
<1>19. Total(flat) <= MQBudget
  BY <1>14, MQAssumption
<1>20. EvidenceFits(flat, req, found)
  BY <1>13, <1>15, <1>16, <1>17, <1>18, <1>19 DEF EvidenceFits
<1> QED BY <1>2, <1>20


-----------------------------------------------------------------------------
(***************************************************************************)
(* The stream: what the handler has written of a document, what is in the  *)
(* channel and what its worker still has to send are, put together, the    *)
(* events of that document.                                                *)
(***************************************************************************)
EventType == {"started", "completed", "error"}
MQEvent == Mail(EventType)
Streams == {<<"started", "completed">>, <<"error">>}

-----------------------------------------------------------------------------
Places == DOMAIN mqReq.docs
MQOutType == [status : {"pending", "ok", "error"}, flat : Seq(MQSection)]

MQTypes ==
  /\ mqReq \in MQReq /\ (mqReq.kind # "none" => mqReq.docs # <<>>)
  /\ mqWorker \in [Places -> {"wait", "run", "send", "done", "gone"}]
  /\ \A i \in Places : mqWorker[i] = "send" => mqReq.kind = "stream" /\ mqEvents[i] # <<>>
  /\ mqEvents \in [Places -> Seq(EventType)] /\ mqSeen \in [Places -> Seq(EventType)]
  /\ GivenFits(mqFound)
  /\ mqChan \in Seq(MQEvent) /\ \A p \in DOMAIN mqChan : mqChan[p].at \in Places
  /\ mqGone \in BOOLEAN /\ mqOut \in MQOutType

\* The semaphore.
SlotsFit == IsFiniteSet(Running) /\ Cardinality(Running) <= MQParallel

\* What is known of a place of a stream: before its worker has begun nothing,
\* and then that its events are written, in the channel or still to be sent.
PlaceFits(w, ev, wrote, ch, i) ==
  /\ w \in {"wait", "run"} => ev = <<>> /\ wrote = <<>> /\ Carries(EventType, ch, i, <<>>)
  /\ w = "done" => ev = <<>>
  /\ w \in {"send", "done"} => \E ahead : Carries(EventType, ch, i, ahead) /\ Whole(wrote, ahead, ev) \in Streams

StreamFits ==
  mqReq.kind = "stream" /\ ~mqGone =>
    \A i \in Places : PlaceFits(mqWorker[i], mqEvents[i], mqSeen[i], mqChan, i)

\* Documents that are over have given or failed; a worker leaves only with
\* the client.
AnsweredFits ==
  /\ \A i \in Places : mqWorker[i] = "gone" => mqGone
  /\ DOMAIN mqFound \subseteq ToSet(mqReq.docs) /\ mqErrs \subseteq ToSet(mqReq.docs)
  /\ mqReq.kind = "multi" =>
       \A i \in Places : mqWorker[i] = "done" => mqReq.docs[i] \in DOMAIN mqFound \cup mqErrs

\* What was answered is made from what all workers have left.
OutcomeFits ==
  mqOut.status # "pending" =>
    /\ \A i \in Places : mqWorker[i] \in {"done", "gone"}
    /\ mqReq.kind = "multi" => (mqOut.status = "error" <=> DOMAIN mqFound = {} /\ mqErrs # {})
    /\ mqReq.kind = "store" => EvidenceFits(mqOut.flat, mqReq, mqFound)

MQInv == MQTypes /\ SlotsFit /\ StreamFits /\ AnsweredFits /\ OutcomeFits

-----------------------------------------------------------------------------
LEMMA NoneRuns == ASSUME NEW S, S = {} PROVE IsFiniteSet(S) /\ Cardinality(S) = 0
BY AtMostOne, NoMembers

LEMMA SeveralStart ==
  ASSUME MQInit \/ MQIdle
  PROVE  MQInv
<1>1. mqReq \in MQReq /\ (mqReq.kind # "none" => mqReq.docs # <<>>)
  <2>1. CASE MQInit
    BY <2>1, MQAssumption DEF MQInit, MQReq
  <2>2. CASE MQIdle
    BY <2>2 DEF MQIdle, MQReq
  <2> QED BY <2>1, <2>2
<1>2. MQBlank
  BY DEF MQInit, MQIdle
<1>3. /\ mqWorker = [i \in Places |-> "wait"]
      /\ mqEvents = [i \in Places |-> <<>>] /\ mqSeen = [i \in Places |-> <<>>]
      /\ mqFound = <<>> /\ mqErrs = {} /\ mqChan = <<>> /\ mqGone = FALSE
      /\ mqOut = [status |-> "pending", flat |-> <<>>]
  BY <1>2 DEF MQBlank, Places
<1>4. GivenFits(mqFound) /\ DOMAIN mqFound = {}
  BY <1>3 DEF GivenFits
<1>5. MQTypes
  <2>1. mqWorker \in [Places -> {"wait", "run", "send", "done", "gone"}]
    BY <1>3
  <2>2. mqEvents \in [Places -> Seq(EventType)] /\ mqSeen \in [Places -> Seq(EventType)]
    BY <1>3
  <2>3. mqChan \in Seq(MQEvent) /\ DOMAIN mqChan = {}
    BY <1>3
  <2>3a. mqGone \in BOOLEAN /\ \A i \in Places : mqWorker[i] # "send"
    BY <1>3
  <2>4. mqOut \in MQOutType
    BY <1>3 DEF MQOutType
  <2> QED BY <1>1, <1>4, <2>1, <2>2, <2>3, <2>3a, <2>4 DEF MQTypes
<1>6. SlotsFit
  <2>1. Running = {}
    BY <1>3 DEF Running
  <2> QED BY <2>1, NoneRuns, MQAssumption DEF SlotsFit
<1>7. StreamFits
  <2>1. ASSUME NEW i PROVE Carries(EventType, <<>>, i, <<>>)
    <3>1. CarriesAt(<<>>, i, <<>>, <<>>)
      BY DEF CarriesAt
    <3>2. <<>> \in Seq(EventType)
      OBVIOUS
    <3> QED BY <3>1, <3>2 DEF Carries
  <2>2. ASSUME NEW i \in Places PROVE PlaceFits(mqWorker[i], mqEvents[i], mqSeen[i], mqChan, i)
    BY <1>3, <2>1 DEF PlaceFits
  <2> QED BY <2>2 DEF StreamFits
<1>8. AnsweredFits
  BY <1>3, <1>4 DEF AnsweredFits
<1>9. OutcomeFits
  BY <1>3 DEF OutcomeFits
<1> QED BY <1>5, <1>6, <1>7, <1>8, <1>9 DEF MQInv


-----------------------------------------------------------------------------
(***************************************************************************)
(* The steps.                                                              *)
(***************************************************************************)
WorkerStep(i) ==
  TakeSlot(i) \/ SkipDocument(i) \/ queryOneDoc(i) \/ selectSections(i) \/ DocumentFails(i)
  \/ SelectStream(i) \/ SendEvent(i) \/ DropEvents(i)

\* Every step is one of these.
LEMMA SeveralSteps ==
  ASSUME [MQNext]_mqVars, MQTypes
  PROVE  \/ \E i \in Places : WorkerStep(i)
         \/ GatherDocuments \/ HandleQueryStreamMulti \/ MQClientGone \/ UNCHANGED mqVars
BY Zenon DEF MQNext, MQStep, WorkerStep, MQTypes, Places

\* What a document gives is added to what was given.
LEMMA GivesFits ==
  ASSUME GivenFits(mqFound), NEW d, NEW what \in Seq(Nat \ {0}), Gives(d, what)
  PROVE  GivenFits(mqFound') /\ DOMAIN mqFound' = DOMAIN mqFound \cup {d}
BY DEF GivenFits, Gives

\* What a worker does to the variables.
LEMMA WorkerMoves ==
  ASSUME NEW i \in Places, WorkerStep(i), MQTypes
  PROVE  /\ UNCHANGED <<mqReq, mqGone, mqOut, mqSeen>>
         /\ mqWorker[i] \in {"wait", "run", "send"}
         /\ \E w \in {"run", "send", "done", "gone"} : mqWorker' = [mqWorker EXCEPT ![i] = w]
         /\ mqWorker'[i] = "run" => mqWorker[i] = "wait" /\ Cardinality(Running) < MQParallel
         /\ mqWorker'[i] = "gone" => mqGone
         /\ mqWorker'[i] = "send" => mqWorker[i] \in {"run", "send"}
<1>0. mqWorker \in [Places -> {"wait", "run", "send", "done", "gone"}]
  BY DEF MQTypes
<1>1. CASE TakeSlot(i)
  BY <1>0, <1>1 DEF TakeSlot, Stays
<1>2. CASE SkipDocument(i)
  BY <1>0, <1>2 DEF SkipDocument, Stays
<1>3. CASE queryOneDoc(i)
  BY <1>0, <1>3 DEF queryOneDoc, Stays
<1>4. CASE selectSections(i)
  BY <1>0, <1>4 DEF selectSections, Stays
<1>5. CASE DocumentFails(i)
  BY <1>0, <1>5 DEF DocumentFails, Stays
<1>6. CASE SelectStream(i)
  BY <1>0, <1>6 DEF SelectStream, Stays
<1>7. CASE SendEvent(i)
  BY <1>0, <1>7 DEF SendEvent, Stays
<1>8. CASE DropEvents(i)
  BY <1>0, <1>8 DEF DropEvents, Stays
<1> QED BY <1>1, <1>2, <1>3, <1>4, <1>5, <1>6, <1>7, <1>8 DEF WorkerStep

\* What was given or failed changes only by a document that is being asked.
LEMMA WorkerGives ==
  ASSUME NEW i \in Places, WorkerStep(i), MQTypes
  PROVE  /\ GivenFits(mqFound')
         /\ DOMAIN mqFound' = DOMAIN mqFound \/ DOMAIN mqFound' = DOMAIN mqFound \cup {mqReq.docs[i]}
         /\ mqErrs' = mqErrs \/ mqErrs' = mqErrs \cup {mqReq.docs[i]}
         /\ mqReq.kind = "multi" /\ mqWorker'[i] = "done" => mqReq.docs[i] \in DOMAIN mqFound' \cup mqErrs'
<1>0. mqWorker \in [Places -> {"wait", "run", "send", "done", "gone"}] /\ GivenFits(mqFound)
  BY DEF MQTypes
<1>1. CASE TakeSlot(i)
  BY <1>0, <1>1 DEF TakeSlot
<1>2. CASE SkipDocument(i)
  BY <1>0, <1>2 DEF SkipDocument
<1>3. CASE queryOneDoc(i)
  <2>1. <<1>> \in Seq(Nat \ {0}) /\ Gives(mqReq.docs[i], <<1>>) /\ mqErrs' = mqErrs
    BY <1>3 DEF queryOneDoc
  <2> QED BY <1>0, <2>1, GivesFits
<1>4. CASE selectSections(i)
  <2>1. PICK picks \in MQPicks : Gives(mqReq.docs[i], picks) /\ mqErrs' = mqErrs
    BY <1>4 DEF selectSections
  <2>2. picks \in Seq(Nat \ {0})
    BY MQAssumption
  <2> QED BY <1>0, <2>1, <2>2, GivesFits
<1>5. CASE DocumentFails(i)
  BY <1>0, <1>5 DEF DocumentFails
<1>6. CASE SelectStream(i)
  BY <1>0, <1>6 DEF SelectStream
<1>7. CASE SendEvent(i)
  <2>1. mqFound' = mqFound /\ mqErrs' = mqErrs /\ mqWorker[i] = "send"
    BY <1>7 DEF SendEvent
  <2>2. mqReq.kind = "stream"
    BY <2>1 DEF MQTypes
  <2> QED BY <1>0, <2>1, <2>2
<1>8. CASE DropEvents(i)
  BY <1>0, <1>8 DEF DropEvents
<1> QED BY <1>1, <1>2, <1>3, <1>4, <1>5, <1>6, <1>7, <1>8 DEF WorkerStep


\* What is left of a list of two or more.
LEMMA TailLeaves ==
  ASSUME NEW E, NEW s \in Seq(E), s # <<>>
  PROVE  /\ Head(s) \in E /\ Tail(s) \in Seq(E) /\ Len(Tail(s)) = Len(s) - 1
         /\ (Len(s) # 1 => Tail(s) # <<>>) /\ (Len(s) = 1 => Tail(s) = <<>>)
<1> DEFINE t == Tail(s)
<1>1. Head(s) \in E /\ t \in Seq(E) /\ Len(t) = Len(s) - 1 /\ Len(s) \in Nat
  OBVIOUS
<1> HIDE DEF t
<1>2. Len(s) # 1 => Len(t) # 0
  BY <1>1
<1>3. Len(s) # 1 => t # <<>>
  BY <1>1, <1>2
<1>4. Len(s) = 1 => t = <<>>
  BY <1>1
<1> QED BY <1>1, <1>3, <1>4 DEF t

\* The events of a document.
LEMMA StreamsAreLists == ASSUME NEW ev \in Streams PROVE ev \in Seq(EventType) /\ ev # <<>>
<1>1. CASE ev = <<"started", "completed">>
  BY <1>1 DEF EventType
<1>2. CASE ev = <<"error">>
  BY <1>2 DEF EventType
<1> QED BY <1>1, <1>2 DEF Streams

\* The events a worker has to send, and the channel, keep their types.
LEMMA WorkerSends ==
  ASSUME NEW i \in Places, WorkerStep(i), MQTypes
  PROVE  /\ mqEvents' \in [Places -> Seq(EventType)]
         /\ mqChan' \in Seq(MQEvent) /\ \A p \in DOMAIN mqChan' : mqChan'[p].at \in Places
         /\ \A j \in Places : j # i => mqEvents'[j] = mqEvents[j]
         /\ mqWorker'[i] = "send" => mqReq.kind = "stream" /\ mqEvents'[i] # <<>>
<1>0. /\ mqEvents \in [Places -> Seq(EventType)] /\ mqChan \in Seq(MQEvent)
      /\ \A p \in DOMAIN mqChan : mqChan[p].at \in Places
      /\ mqWorker \in [Places -> {"wait", "run", "send", "done", "gone"}]
      /\ \A j \in Places : mqWorker[j] = "send" => mqReq.kind = "stream" /\ mqEvents[j] # <<>>
  BY DEF MQTypes
<1>1. CASE TakeSlot(i)
  BY <1>0, <1>1 DEF TakeSlot
<1>2. CASE SkipDocument(i)
  BY <1>0, <1>2 DEF SkipDocument
<1>3. CASE queryOneDoc(i)
  BY <1>0, <1>3 DEF queryOneDoc
<1>4. CASE selectSections(i)
  BY <1>0, <1>4 DEF selectSections
<1>5. CASE DocumentFails(i)
  BY <1>0, <1>5 DEF DocumentFails
<1>6. CASE SelectStream(i)
  <2>1. mqChan' = mqChan /\ mqReq.kind = "stream"
    BY <1>6 DEF SelectStream
  <2>2. PICK ev \in Streams : mqEvents' = [mqEvents EXCEPT ![i] = ev]
    BY <1>6 DEF SelectStream, Streams
  <2>3. ev \in Seq(EventType) /\ ev # <<>>
    BY StreamsAreLists
  <2>4. mqEvents' \in [Places -> Seq(EventType)]
    BY <1>0, <2>2, <2>3
  <2>5. \A j \in Places : j # i => mqEvents'[j] = mqEvents[j]
    BY <1>0, <2>2
  <2>6. mqEvents'[i] # <<>>
    BY <1>0, <2>2, <2>3
  <2> QED BY <1>0, <2>1, <2>4, <2>5, <2>6
<1>7. CASE SendEvent(i)
  <2> DEFINE e == [at |-> i, type |-> Head(mqEvents[i])]
  <2>1. mqWorker[i] = "send" /\ mqChan' = Append(mqChan, e) /\ mqEvents' = [mqEvents EXCEPT ![i] = Tail(@)]
    BY <1>7 DEF SendEvent
  <2>2. mqEvents[i] \in Seq(EventType) /\ mqEvents[i] # <<>> /\ mqReq.kind = "stream"
    BY <1>0, <2>1
  <2>3. /\ Head(mqEvents[i]) \in EventType /\ Tail(mqEvents[i]) \in Seq(EventType)
        /\ Len(mqEvents[i]) # 1 => Tail(mqEvents[i]) # <<>>
    BY <2>2, TailLeaves
  <2>4. i \in Nat
    <3>1. mqReq.docs \in Seq(Nat)
      BY DEF MQTypes, MQReq
    <3> QED BY <3>1 DEF Places
  <2>5. e \in MQEvent /\ e.at = i
    BY <2>3, <2>4 DEF MQEvent, Mail
  <2>6. mqEvents' \in [Places -> Seq(EventType)] /\ mqEvents'[i] = Tail(mqEvents[i])
    BY <1>0, <2>1, <2>3
  <2>7. \A j \in Places : j # i => mqEvents'[j] = mqEvents[j]
    BY <1>0, <2>1
  <2>8. mqWorker'[i] = "send" => mqEvents'[i] # <<>>
    <3>1. mqWorker' = [mqWorker EXCEPT ![i] = IF Len(mqEvents[i]) = 1 THEN "done" ELSE "send"]
      BY <1>7 DEF SendEvent
    <3> QED BY <1>0, <2>3, <2>6, <3>1
  <2> HIDE DEF e
  <2>9. mqChan' \in Seq(MQEvent)
    BY <1>0, <2>1, <2>5
  <2>10. ASSUME NEW p \in DOMAIN mqChan' PROVE mqChan'[p].at \in Places
    <3>1. (p \in DOMAIN mqChan /\ mqChan'[p] = mqChan[p]) \/ mqChan'[p] = e
      BY <1>0, <2>1, <2>5
    <3> QED BY <1>0, <2>5, <3>1
  <2> QED BY <2>2, <2>6, <2>7, <2>8, <2>9, <2>10
<1>8. CASE DropEvents(i)
  <2>1. mqChan' = mqChan /\ mqEvents' = [mqEvents EXCEPT ![i] = <<>>] /\ mqWorker'[i] = "gone"
    BY <1>0, <1>8 DEF DropEvents
  <2>2. <<>> \in Seq(EventType)
    OBVIOUS
  <2> QED BY <1>0, <2>1, <2>2
<1> QED BY <1>1, <1>2, <1>3, <1>4, <1>5, <1>6, <1>7, <1>8 DEF WorkerStep


LEMMA TypesStep ==
  ASSUME [MQNext]_mqVars, MQTypes
  PROVE  MQTypes'
<1>0. /\ mqReq \in MQReq /\ (mqReq.kind # "none" => mqReq.docs # <<>>)
      /\ mqWorker \in [Places -> {"wait", "run", "send", "done", "gone"}]
      /\ \A j \in Places : mqWorker[j] = "send" => mqReq.kind = "stream" /\ mqEvents[j] # <<>>
      /\ mqEvents \in [Places -> Seq(EventType)] /\ mqSeen \in [Places -> Seq(EventType)]
      /\ GivenFits(mqFound) /\ mqGone \in BOOLEAN /\ mqOut \in MQOutType
      /\ mqChan \in Seq(MQEvent) /\ \A p \in DOMAIN mqChan : mqChan[p].at \in Places
  BY DEF MQTypes
<1>1. CASE \E i \in Places : WorkerStep(i)
  <2>1. PICK i \in Places : WorkerStep(i)
    BY <1>1
  <2>2. UNCHANGED <<mqReq, mqGone, mqOut, mqSeen>> /\ Places' = Places
    BY <2>1, WorkerMoves DEF Places
  <2>3. PICK w \in {"run", "send", "done", "gone"} : mqWorker' = [mqWorker EXCEPT ![i] = w]
    BY <2>1, WorkerMoves
  <2>4. mqWorker' \in [Places -> {"wait", "run", "send", "done", "gone"}] /\ \A j \in Places : j # i => mqWorker'[j] = mqWorker[j]
    BY <1>0, <2>3
  <2>5. GivenFits(mqFound')
    BY <2>1, WorkerGives
  <2>6. /\ mqEvents' \in [Places -> Seq(EventType)]
        /\ mqChan' \in Seq(MQEvent) /\ \A p \in DOMAIN mqChan' : mqChan'[p].at \in Places
        /\ \A j \in Places : j # i => mqEvents'[j] = mqEvents[j]
        /\ mqWorker'[i] = "send" => mqReq.kind = "stream" /\ mqEvents'[i] # <<>>
    BY <2>1, WorkerSends
  <2>7. \A j \in Places : mqWorker'[j] = "send" => mqReq.kind = "stream" /\ mqEvents'[j] # <<>>
    BY <1>0, <2>4, <2>6
  <2> QED BY <1>0, <2>2, <2>4, <2>5, <2>6, <2>7 DEF MQTypes
<1>2. CASE GatherDocuments
  <2>1. UNCHANGED <<mqReq, mqWorker, mqEvents, mqFound, mqErrs, mqChan, mqSeen, mqGone>> /\ Places' = Places
    BY <1>2 DEF GatherDocuments, Places
  <2>2. selectRelevant(mqReq, mqFound) \in Seq(MQSection)
    BY <1>0, SelectedFits DEF EvidenceFits
  <2>3. \/ mqOut' = [mqOut EXCEPT !.status = "error"]
        \/ mqOut' = [status |-> "ok", flat |-> IF mqReq.kind = "store" THEN selectRelevant(mqReq, mqFound) ELSE <<>>]
    BY <1>2 DEF GatherDocuments
  <2>4. mqOut' \in MQOutType
    <3>1. CASE mqOut' = [mqOut EXCEPT !.status = "error"]
      BY <1>0, <3>1 DEF MQOutType
    <3>2. CASE mqOut' = [status |-> "ok", flat |-> IF mqReq.kind = "store" THEN selectRelevant(mqReq, mqFound) ELSE <<>>]
      BY <2>2, <3>2 DEF MQOutType
    <3> QED BY <2>3, <3>1, <3>2
  <2> QED BY <1>0, <2>1, <2>4 DEF MQTypes
<1>3. CASE HandleQueryStreamMulti
  <2>1. /\ UNCHANGED <<mqReq, mqGone, mqOut, mqWorker, mqEvents, mqFound, mqErrs>> /\ Places' = Places
        /\ mqChan # <<>> /\ mqChan' = Tail(mqChan)
        /\ mqSeen' = [mqSeen EXCEPT ![Head(mqChan).at] = Append(@, Head(mqChan).type)]
    BY <1>3 DEF HandleQueryStreamMulti, Places, Stays
  <2>2. /\ mqChan' \in Seq(MQEvent) /\ Head(mqChan) \in MQEvent /\ 1 \in DOMAIN mqChan /\ Head(mqChan) = mqChan[1]
        /\ \A p \in DOMAIN mqChan' : p + 1 \in DOMAIN mqChan /\ mqChan'[p] = mqChan[p + 1]
    BY <1>0, <2>1
  <2>3. Head(mqChan).at \in Places /\ Head(mqChan).type \in EventType
    BY <1>0, <2>2 DEF MQEvent, Mail
  <2>4. mqSeen' \in [Places -> Seq(EventType)]
    <3> DEFINE h == Head(mqChan).at
    <3>1. mqSeen[h] \in Seq(EventType)
      BY <1>0, <2>3
    <3>2. Append(mqSeen[h], Head(mqChan).type) \in Seq(EventType)
      BY <2>3, <3>1
    <3> QED BY <1>0, <2>1, <3>2
  <2>5. \A p \in DOMAIN mqChan' : mqChan'[p].at \in Places
    BY <1>0, <2>2
  <2> QED BY <1>0, <2>1, <2>2, <2>4, <2>5 DEF MQTypes
<1>4. CASE MQClientGone
  <2>1. UNCHANGED <<mqReq, mqWorker, mqEvents, mqFound, mqErrs, mqChan, mqSeen, mqOut>> /\ Places' = Places /\ mqGone' = TRUE
    BY <1>4 DEF MQClientGone, Places
  <2> QED BY <1>0, <2>1 DEF MQTypes
<1>5. CASE UNCHANGED mqVars
  BY <1>0, <1>5 DEF MQTypes, mqVars, Places
<1> QED BY <1>1, <1>2, <1>3, <1>4, <1>5, SeveralSteps

\* The semaphore: a place is taken only when there is room.
LEMMA SlotsStep ==
  ASSUME [MQNext]_mqVars, MQTypes, SlotsFit
  PROVE  SlotsFit'
<1>0. mqWorker \in [Places -> {"wait", "run", "send", "done", "gone"}]
  BY DEF MQTypes
<1>1. CASE \E i \in Places : WorkerStep(i)
  <2>1. PICK i \in Places : WorkerStep(i)
    BY <1>1
  <2>2. PICK w \in {"run", "send", "done", "gone"} : mqWorker' = [mqWorker EXCEPT ![i] = w]
    BY <2>1, WorkerMoves
  <2>3. /\ mqWorker'[i] = "run" => mqWorker[i] = "wait" /\ Cardinality(Running) < MQParallel
        /\ mqWorker'[i] = "send" => mqWorker[i] \in {"run", "send"}
    BY <2>1, WorkerMoves
  <2>4. Running' = {j \in Places : mqWorker'[j] \in {"run", "send"}} /\ Running = {j \in Places : mqWorker[j] \in {"run", "send"}}
    BY <1>0, <2>2 DEF Running
  <2>5. CASE w = "run"
    <3>1. Running' = Running \cup {i} /\ i \notin Running /\ Cardinality(Running) < MQParallel
      BY <1>0, <2>2, <2>3, <2>4, <2>5
    <3>2. IsFiniteSet(Running')
      BY <3>1, OneMore DEF SlotsFit
    <3>3. Cardinality(Running' \ {i}) = Cardinality(Running') - 1 /\ Running' \ {i} = Running
      BY <3>1, <3>2, OneLess
    <3>4. Cardinality(Running') \in Nat /\ Cardinality(Running) \in Nat
      BY <3>1, <3>2, PartsAreFinite
    <3>5. Cardinality(Running) = Cardinality(Running') - 1
      BY <3>3
    <3>6. Cardinality(Running') <= MQParallel
      BY <3>1, <3>4, <3>5, MQAssumption
    <3> QED BY <3>2, <3>6 DEF SlotsFit
  <2>6. CASE w # "run"
    <3>1. Running' \in SUBSET Running
      BY <1>0, <2>2, <2>3, <2>4, <2>6
    <3>2. IsFiniteSet(Running') /\ Cardinality(Running') <= Cardinality(Running) /\ Cardinality(Running') \in Nat /\ Cardinality(Running) \in Nat
      BY <3>1, PartsAreFinite, FewerParts DEF SlotsFit
    <3> QED BY <3>2, MQAssumption DEF SlotsFit
  <2> QED BY <2>5, <2>6
<1>2. CASE mqWorker' = mqWorker
  BY <1>2 DEF SlotsFit, Running
<1>3. GatherDocuments \/ HandleQueryStreamMulti \/ MQClientGone \/ UNCHANGED mqVars => mqWorker' = mqWorker
  BY DEF GatherDocuments, HandleQueryStreamMulti, MQClientGone, mqVars
<1> QED BY <1>1, <1>2, <1>3, SeveralSteps

\* Documents that are over have given or failed.
LEMMA AnsweredStep ==
  ASSUME [MQNext]_mqVars, MQTypes, AnsweredFits
  PROVE  AnsweredFits'
<1>0. mqWorker \in [Places -> {"wait", "run", "send", "done", "gone"}] /\ mqGone \in BOOLEAN
  BY DEF MQTypes
<1>1. CASE \E i \in Places : WorkerStep(i)
  <2>1. PICK i \in Places : WorkerStep(i)
    BY <1>1
  <2>2. UNCHANGED <<mqReq, mqGone>> /\ Places' = Places /\ (mqWorker'[i] = "gone" => mqGone)
    BY <2>1, WorkerMoves DEF Places
  <2>3. PICK w \in {"run", "send", "done", "gone"} : mqWorker' = [mqWorker EXCEPT ![i] = w]
    BY <2>1, WorkerMoves
  <2>4. /\ DOMAIN mqFound' = DOMAIN mqFound \/ DOMAIN mqFound' = DOMAIN mqFound \cup {mqReq.docs[i]}
        /\ mqErrs' = mqErrs \/ mqErrs' = mqErrs \cup {mqReq.docs[i]}
        /\ mqReq.kind = "multi" /\ mqWorker'[i] = "done" => mqReq.docs[i] \in DOMAIN mqFound' \cup mqErrs'
    BY <2>1, WorkerGives
  <2>5. mqReq.docs[i] \in ToSet(mqReq.docs)
    BY DEF ToSet, Places
  <2>6. \A j \in Places : j # i => mqWorker'[j] = mqWorker[j]
    BY <1>0, <2>3
  <2>7. \A j \in Places : mqWorker'[j] = "gone" => mqGone'
    BY <2>2, <2>6 DEF AnsweredFits
  <2>8. DOMAIN mqFound' \subseteq ToSet(mqReq.docs) /\ mqErrs' \subseteq ToSet(mqReq.docs)
    BY <2>4, <2>5 DEF AnsweredFits
  <2>9. ASSUME mqReq.kind = "multi", NEW j \in Places, mqWorker'[j] = "done"
        PROVE  mqReq.docs[j] \in DOMAIN mqFound' \cup mqErrs'
    <3>1. CASE j = i
      BY <2>4, <2>9, <3>1
    <3>2. CASE j # i
      BY <2>4, <2>6, <2>9, <3>2 DEF AnsweredFits
    <3> QED BY <3>1, <3>2
  <2> QED BY <2>2, <2>7, <2>8, <2>9 DEF AnsweredFits
<1>2. CASE UNCHANGED <<mqReq, mqWorker, mqFound, mqErrs>> /\ (mqGone => mqGone')
  BY <1>2 DEF AnsweredFits, Places
<1>3. GatherDocuments \/ HandleQueryStreamMulti \/ MQClientGone \/ UNCHANGED mqVars =>
        UNCHANGED <<mqReq, mqWorker, mqFound, mqErrs>> /\ (mqGone => mqGone')
  BY DEF GatherDocuments, HandleQueryStreamMulti, MQClientGone, mqVars, Stays
<1> QED BY <1>1, <1>2, <1>3, SeveralSteps

\* The outcome is made when all workers have left, and stands.
LEMMA OutcomeStep ==
  ASSUME [MQNext]_mqVars, MQTypes, OutcomeFits
  PROVE  OutcomeFits'
<1>0. /\ mqWorker \in [Places -> {"wait", "run", "send", "done", "gone"}] /\ mqReq \in MQReq /\ GivenFits(mqFound)
      /\ mqOut \in MQOutType
  BY DEF MQTypes
<1>1. CASE \E i \in Places : WorkerStep(i)
  <2>1. PICK i \in Places : WorkerStep(i)
    BY <1>1
  <2>2. mqWorker[i] \in {"wait", "run", "send"} /\ mqOut' = mqOut
    BY <2>1, WorkerMoves
  <2>3. mqOut.status = "pending"
    BY <2>2 DEF OutcomeFits
  <2> QED BY <2>2, <2>3 DEF OutcomeFits
<1>2. CASE GatherDocuments
  <2>1. UNCHANGED <<mqReq, mqWorker, mqEvents, mqFound, mqErrs, mqChan, mqSeen, mqGone>> /\ Places' = Places
    BY <1>2 DEF GatherDocuments, Places
  <2>2. \A i \in Places : mqWorker[i] \in {"done", "gone"}
    BY <1>0, <1>2 DEF GatherDocuments
  <2>3. EvidenceFits(selectRelevant(mqReq, mqFound), mqReq, mqFound)
    BY <1>0, SelectedFits
  <2>4. CASE mqReq.kind = "multi" /\ DOMAIN mqFound = {} /\ mqErrs # {}
    <3>1. mqOut' = [mqOut EXCEPT !.status = "error"]
      BY <1>2, <2>4 DEF GatherDocuments
    <3>2. mqOut'.status = "error"
      BY <1>0, <3>1 DEF MQOutType
    <3> QED BY <2>1, <2>2, <2>4, <3>2 DEF OutcomeFits
  <2>5. CASE ~(mqReq.kind = "multi" /\ DOMAIN mqFound = {} /\ mqErrs # {})
    <3>1. mqOut' = [status |-> "ok", flat |-> IF mqReq.kind = "store" THEN selectRelevant(mqReq, mqFound) ELSE <<>>]
      BY <1>2, <2>5 DEF GatherDocuments
    <3>2. mqOut'.status = "ok" /\ (mqReq.kind = "store" => mqOut'.flat = selectRelevant(mqReq, mqFound))
      BY <3>1
    <3> QED BY <2>1, <2>2, <2>3, <2>5, <3>2 DEF OutcomeFits
  <2> QED BY <2>4, <2>5
<1>3. CASE UNCHANGED <<mqReq, mqWorker, mqFound, mqErrs, mqOut>>
  BY <1>3 DEF OutcomeFits, Places
<1>4. HandleQueryStreamMulti \/ MQClientGone \/ UNCHANGED mqVars => UNCHANGED <<mqReq, mqWorker, mqFound, mqErrs, mqOut>>
  BY DEF HandleQueryStreamMulti, MQClientGone, mqVars, Stays
<1> QED BY <1>1, <1>2, <1>3, <1>4, SeveralSteps


\* The stream: an event is sent, or written, and no other way it moves.
LEMMA StreamStep ==
  ASSUME [MQNext]_mqVars, MQTypes, AnsweredFits, StreamFits
  PROVE  StreamFits'
<1>0. /\ mqWorker \in [Places -> {"wait", "run", "send", "done", "gone"}]
      /\ \A j \in Places : mqWorker[j] = "send" => mqReq.kind = "stream" /\ mqEvents[j] # <<>>
      /\ mqEvents \in [Places -> Seq(EventType)] /\ mqSeen \in [Places -> Seq(EventType)]
      /\ mqChan \in Seq(MQEvent) /\ mqReq.docs \in Seq(Nat) /\ mqGone \in BOOLEAN
  BY DEF MQTypes, MQReq
<1>1. SUFFICES ASSUME mqReq'.kind = "stream", ~mqGone', NEW j \in Places'
               PROVE  PlaceFits(mqWorker'[j], mqEvents'[j], mqSeen'[j], mqChan', j)
  BY DEF StreamFits
<1>2. mqReq' = mqReq /\ Places' = Places /\ ~mqGone
  <2>1. CASE \E i \in Places : WorkerStep(i)
    BY <1>1, <2>1, WorkerMoves DEF Places
  <2>2. CASE GatherDocuments
    BY <1>1, <2>2 DEF GatherDocuments, Places
  <2>3. CASE HandleQueryStreamMulti
    BY <1>1, <2>3 DEF HandleQueryStreamMulti, Places, Stays
  <2>4. CASE MQClientGone
    BY <1>1, <2>4 DEF MQClientGone
  <2>5. CASE UNCHANGED mqVars
    BY <1>1, <2>5 DEF mqVars, Places
  <2> QED BY <2>1, <2>2, <2>3, <2>4, <2>5, SeveralSteps
<1>3. j \in Places /\ mqReq.kind = "stream" /\ PlaceFits(mqWorker[j], mqEvents[j], mqSeen[j], mqChan, j)
  BY <1>1, <1>2 DEF StreamFits
<1>3a. mqEvents[j] \in Seq(EventType) /\ mqSeen[j] \in Seq(EventType) /\ j \in Nat
  BY <1>0, <1>3 DEF Places
<1>4. CASE \E i \in Places : WorkerStep(i)
  <2>1. PICK i \in Places : WorkerStep(i)
    BY <1>4
  <2>2. mqSeen' = mqSeen
    BY <2>1, WorkerMoves
  <2>3. CASE TakeSlot(i)
    BY <1>0, <1>3, <2>3 DEF TakeSlot, PlaceFits
  <2>4. CASE SkipDocument(i) \/ DropEvents(i)
    BY <1>2, <2>4 DEF SkipDocument, DropEvents
  <2>5. CASE queryOneDoc(i) \/ selectSections(i) \/ DocumentFails(i)
    BY <1>3, <2>5 DEF queryOneDoc, selectSections, DocumentFails
  <2>6. CASE SelectStream(i)
    <3>1. mqWorker[i] = "run" /\ mqWorker' = [mqWorker EXCEPT ![i] = "send"] /\ mqChan' = mqChan
      BY <2>6 DEF SelectStream
    <3>2. PICK ev \in Streams : mqEvents' = [mqEvents EXCEPT ![i] = ev]
      BY <2>6 DEF SelectStream, Streams
    <3>3. CASE j # i
      BY <1>0, <1>3, <2>2, <3>1, <3>2, <3>3
    <3>4. CASE j = i
      <4>1. mqSeen[j] = <<>> /\ Carries(EventType, mqChan, j, <<>>)
        BY <1>3, <3>1, <3>4 DEF PlaceFits
      <4>2. mqWorker'[j] = "send" /\ mqEvents'[j] = ev
        BY <1>0, <3>1, <3>2, <3>4
      <4>3. Whole(<<>>, <<>>, ev) = ev
        <5>1. ev \in Seq(EventType)
          BY StreamsAreLists
        <5> QED BY <5>1 DEF Whole
      <4>4. Carries(EventType, mqChan', j, <<>>) /\ Whole(mqSeen'[j], <<>>, mqEvents'[j]) \in Streams
        BY <2>2, <3>1, <4>1, <4>2, <4>3
      <4> QED BY <4>2, <4>4 DEF PlaceFits
    <3> QED BY <3>3, <3>4
  <2>7. CASE SendEvent(i)
    <3> DEFINE e == [at |-> i, type |-> Head(mqEvents[i])]
    <3>1. /\ mqWorker[i] = "send" /\ mqChan' = Append(mqChan, e) /\ mqEvents' = [mqEvents EXCEPT ![i] = Tail(@)]
          /\ mqWorker' = [mqWorker EXCEPT ![i] = IF Len(mqEvents[i]) = 1 THEN "done" ELSE "send"]
      BY <2>7 DEF SendEvent
    <3>2. mqEvents[i] \in Seq(EventType) /\ mqEvents[i] # <<>> /\ i \in Nat
      BY <1>0, <3>1 DEF Places
    <3>3. e \in MQEvent /\ e.at = i /\ e.type = Head(mqEvents[i])
      BY <3>2, TailLeaves DEF MQEvent, Mail
    <3> HIDE DEF e
    <3>4. CASE j # i
      <4>1. mqWorker'[j] = mqWorker[j] /\ mqEvents'[j] = mqEvents[j] /\ mqSeen'[j] = mqSeen[j]
        BY <1>0, <1>3, <2>2, <3>1, <3>4
      <4>2. ASSUME NEW ahead, Carries(EventType, mqChan, j, ahead) PROVE Carries(EventType, mqChan', j, ahead)
        BY <1>0, <3>1, <3>3, <3>4, <4>2, OthersSent DEF MQEvent
      <4> QED BY <1>3, <4>1, <4>2 DEF PlaceFits
    <3>5. CASE j = i
      <4>1. PICK ahead : Carries(EventType, mqChan, j, ahead) /\ Whole(mqSeen[j], ahead, mqEvents[j]) \in Streams
        BY <1>3, <3>1, <3>5 DEF PlaceFits
      <4>2. ahead \in Seq(EventType)
        BY <4>1 DEF Carries
      <4>3. Carries(EventType, mqChan', j, Append(ahead, Head(mqEvents[j])))
        BY <1>0, <3>1, <3>3, <3>5, <4>1, OwnSent DEF MQEvent
      <4>4. mqEvents'[j] = Tail(mqEvents[j]) /\ mqSeen'[j] = mqSeen[j] /\ mqWorker'[j] = IF Len(mqEvents[j]) = 1 THEN "done" ELSE "send"
        BY <1>0, <1>3, <2>2, <3>1, <3>5
      <4>5. Whole(mqSeen'[j], Append(ahead, Head(mqEvents[j])), mqEvents'[j]) \in Streams
        <5>1. Whole(mqSeen[j], Append(ahead, Head(mqEvents[j])), Tail(mqEvents[j])) = Whole(mqSeen[j], ahead, mqEvents[j])
          <6>1. mqEvents[j] # <<>>
            BY <3>2, <3>5
          <6> QED BY <1>3a, <4>2, <6>1, SendMoves
        <5> QED BY <4>1, <4>4, <5>1
      <4>6. mqWorker'[j] = "done" => mqEvents'[j] = <<>>
        BY <3>2, <3>5, <4>4, TailLeaves
      <4>7. mqWorker'[j] \notin {"wait", "run"}
        BY <4>4
      <4> QED BY <4>3, <4>5, <4>6, <4>7 DEF PlaceFits
    <3> QED BY <3>4, <3>5
  <2> QED BY <2>1, <2>3, <2>4, <2>5, <2>6, <2>7 DEF WorkerStep
<1>5. CASE GatherDocuments \/ MQClientGone \/ UNCHANGED mqVars
  <2>1. UNCHANGED <<mqWorker, mqEvents, mqSeen, mqChan>>
    BY <1>5 DEF GatherDocuments, MQClientGone, mqVars
  <2> QED BY <1>3, <2>1
<1>6. CASE HandleQueryStreamMulti
  <2>1. /\ mqChan # <<>> /\ mqChan' = Tail(mqChan) /\ mqWorker' = mqWorker /\ mqEvents' = mqEvents
        /\ mqSeen' = [mqSeen EXCEPT ![Head(mqChan).at] = Append(@, Head(mqChan).type)]
    BY <1>6 DEF HandleQueryStreamMulti
  <2>2. CASE Head(mqChan).at # j
    <3>1. mqSeen'[j] = mqSeen[j]
      BY <1>0, <1>3, <2>1, <2>2
    <3>2. ASSUME NEW ahead, Carries(EventType, mqChan, j, ahead) PROVE Carries(EventType, mqChan', j, ahead)
      BY <1>0, <2>1, <2>2, <3>2, OthersWritten DEF MQEvent
    <3> QED BY <1>3, <2>1, <3>1, <3>2 DEF PlaceFits
  <2>3. CASE Head(mqChan).at = j
    <3>1. ~Carries(EventType, mqChan, j, <<>>)
      BY <1>0, <2>1, <2>3, OwnWritten DEF MQEvent
    <3>2. mqWorker[j] \notin {"wait", "run"}
      BY <1>3, <3>1 DEF PlaceFits
    <3>3. mqSeen'[j] = Append(mqSeen[j], Head(mqChan).type)
      BY <1>0, <1>3, <2>1, <2>3
    <3>4. CASE mqWorker[j] \in {"send", "done"}
      <4>1. PICK ahead : Carries(EventType, mqChan, j, ahead) /\ Whole(mqSeen[j], ahead, mqEvents[j]) \in Streams
        BY <1>3, <3>4 DEF PlaceFits
      <4>2. ahead \in Seq(EventType)
        BY <4>1 DEF Carries
      <4>3. ahead # <<>> /\ Head(mqChan).type = Head(ahead) /\ Carries(EventType, mqChan', j, Tail(ahead))
        BY <1>0, <2>1, <2>3, <4>1, OwnWritten DEF MQEvent
      <4>4. Whole(Append(mqSeen[j], Head(ahead)), Tail(ahead), mqEvents[j]) = Whole(mqSeen[j], ahead, mqEvents[j])
        BY <1>3a, <4>2, <4>3, WriteMoves
      <4>5. Whole(mqSeen'[j], Tail(ahead), mqEvents'[j]) \in Streams
        BY <2>1, <3>3, <4>1, <4>3, <4>4
      <4> QED BY <1>3, <2>1, <3>2, <4>3, <4>5 DEF PlaceFits
    <3>5. CASE mqWorker[j] = "gone"
      BY <2>1, <3>5 DEF PlaceFits
    <3> QED BY <1>0, <1>3, <3>2, <3>4, <3>5
  <2> QED BY <2>2, <2>3
<1> QED BY <1>4, <1>5, <1>6, SeveralSteps

LEMMA SeveralStep ==
  ASSUME [MQNext]_mqVars, MQInv
  PROVE  MQInv'
BY TypesStep, SlotsStep, StreamStep, AnsweredStep, OutcomeStep, Zenon DEF MQInv

\* The end: with an empty channel nothing is ahead.
LEMMA SeveralSound ==
  ASSUME MQInv
  PROVE  StoreAnswersSound
<1>0. /\ mqWorker \in [Places -> {"wait", "run", "send", "done", "gone"}]
      /\ mqEvents \in [Places -> Seq(EventType)] /\ mqSeen \in [Places -> Seq(EventType)]
      /\ mqReq \in MQReq /\ (mqReq.kind # "none" => mqReq.docs # <<>>)
  BY DEF MQInv, MQTypes
<1>1. MQEnded /\ ~mqGone => \A i \in Places : mqWorker[i] = "done"
  <2>1. SUFFICES ASSUME MQEnded, ~mqGone, NEW i \in Places PROVE mqWorker[i] = "done"
    OBVIOUS
  <2>2. mqWorker[i] \in {"done", "gone"}
    BY <2>1 DEF MQInv, OutcomeFits, MQEnded
  <2>3. mqWorker[i] # "gone"
    BY <2>1 DEF MQInv, AnsweredFits
  <2> QED BY <2>2, <2>3
<1>2. ASSUME MQEnded, ~mqGone, mqReq.kind = "multi"
      PROVE  ToSet(mqReq.docs) = DOMAIN mqFound \cup mqErrs /\ (mqOut.status = "error" <=> DOMAIN mqFound = {})
  <2>1. \A i \in Places : mqReq.docs[i] \in DOMAIN mqFound \cup mqErrs
    BY <1>1, <1>2 DEF MQInv, AnsweredFits
  <2>2. DOMAIN mqFound \subseteq ToSet(mqReq.docs) /\ mqErrs \subseteq ToSet(mqReq.docs)
    BY DEF MQInv, AnsweredFits
  <2>3. ToSet(mqReq.docs) = DOMAIN mqFound \cup mqErrs
    BY <2>1, <2>2 DEF ToSet, Places
  <2>4. mqOut.status = "error" <=> DOMAIN mqFound = {} /\ mqErrs # {}
    BY <1>2 DEF MQInv, OutcomeFits, MQEnded
  <2>5. 1 \in Places
    <3>1. mqReq.docs \in Seq(Nat) /\ mqReq.docs # <<>>
      BY <1>0, <1>2 DEF MQReq
    <3> QED BY <3>1 DEF Places
  <2>6. mqReq.docs[1] \in DOMAIN mqFound \cup mqErrs
    BY <2>1, <2>5
  <2> QED BY <2>3, <2>4, <2>6
<1>3. ASSUME MQEnded, ~mqGone, mqReq.kind = "stream", NEW i \in DOMAIN mqSeen
      PROVE  mqSeen[i] \in {<<"started", "completed">>, <<"error">>}
  <2>1. i \in Places /\ mqWorker[i] = "done"
    BY <1>0, <1>1, <1>3
  <2>2. PlaceFits(mqWorker[i], mqEvents[i], mqSeen[i], mqChan, i)
    BY <1>3, <2>1 DEF MQInv, StreamFits
  <2>3. PICK ahead : Carries(EventType, mqChan, i, ahead) /\ Whole(mqSeen[i], ahead, mqEvents[i]) \in Streams
    BY <2>1, <2>2 DEF PlaceFits
  <2>4. mqEvents[i] = <<>>
    BY <2>1, <2>2 DEF PlaceFits
  <2>5. ahead = <<>>
    <3>1. PICK pos : CarriesAt(mqChan, i, ahead, pos) /\ ahead \in Seq(EventType)
      BY <2>3 DEF Carries
    <3>2. DOMAIN mqChan = {}
      BY <1>3 DEF MQEnded
    <3>3. pos \in [1..Len(ahead) -> {}]
      BY <3>1, <3>2 DEF CarriesAt
    <3>4. ~(1 \in 1..Len(ahead))
      BY <3>3
    <3> QED BY <3>1, <3>4
  <2>6. Whole(mqSeen[i], <<>>, <<>>) = mqSeen[i]
    <3>1. mqSeen[i] \in Seq(EventType)
      BY <1>0, <2>1
    <3> QED BY <3>1 DEF Whole
  <2> QED BY <2>3, <2>4, <2>5, <2>6 DEF Streams
<1>4. Cardinality(Running) <= MQParallel
  BY DEF MQInv, SlotsFit
<1>5. DocumentsAnsweredFor
  BY <1>2, <1>3, <1>4 DEF DocumentsAnsweredFor
<1>6. StoreEvidenceFits
  <2>1. SUFFICES ASSUME MQEnded, mqReq.kind = "store" PROVE StoreEvidenceFits
    BY DEF StoreEvidenceFits
  <2>2. EvidenceFits(mqOut.flat, mqReq, mqFound)
    BY <2>1 DEF MQInv, OutcomeFits, MQEnded
  <2> QED BY <2>2, Zenon DEF EvidenceFits, StoreEvidenceFits
<1> QED BY <1>5, <1>6 DEF StoreAnswersSound

\* A question to several documents is answered for each of them, the workers
\* within their slots; a store answer is made from evidence that fits.
THEOREM ServedDocuments == ServingSpec => []StoreAnswersSound
<1>1. ServingInit => MQInv
  BY PartsStart, SeveralStart
<1>2. MQInv /\ [ServingNext]_servingVars => MQInv'
  BY PartsStep, SeveralStep
<1>3. MQInv => StoreAnswersSound
  BY SeveralSound
<1> QED BY <1>1, <1>2, <1>3, PTL DEF ServingSpec
=============================================================================
