-------------------------------- MODULE Gates -------------------------------
(***************************************************************************)
(* What a request passes before its handler: authentication, the bucket of *)
(* the server and the bucket of its principal.  Buckets hold whole tokens  *)
(* and are refilled when they are asked; a reaper drops the buckets of     *)
(* principals that have been away.  A request fetches its principal's      *)
(* bucket and asks it in two steps.                                        *)
(***************************************************************************)
EXTENDS Integers, FiniteSets, Sequences

CONSTANTS
  GtRequests,     \* requests in flight
  GtConfigs,      \* configurations: [auth, global, rpm], auth.mode and the two
                  \* limits in requests per minute, 0 when off
  GtMinute,       \* clock ticks in a minute
  GtReap,         \* the reaper's interval, in ticks
  GtMaxTime,      \* the clock stops here (bounds the run)
  GtMaxBuckets    \* buckets made (bounds the run)

ASSUME GatesAssumption ==
  /\ \A c \in GtConfigs : c.auth \in {"none", "api_key"} /\ {c.global, c.rpm} \subseteq Nat
  /\ GtMaxTime \in Nat /\ GtMinute \in Nat \ {0} /\ GtMaxBuckets \in Nat \ {0}
  /\ GtReap \in Nat /\ GtReap >= GtMinute
  /\ IsFiniteSet(GtRequests)

VARIABLES
  gtConf,      \* the configuration
  gtNow,       \* the clock
  gtGlobal,    \* the server's bucket
  gtBuckets,   \* every bucket made: [tokens, last]
  gtStore,     \* bucketStore: principal -> its bucket, 0 when it has none
  gtReq,       \* per request: [at, who, bucket]
  gtPassed,    \* requests let through, per principal and by the server
  gtStrays,    \* per principal: requests holding a bucket when it was reaped
  gtRefused    \* per principal: [first, last] of the refusals since it last passed

gtVars == <<gtConf, gtNow, gtGlobal, gtBuckets, gtStore, gtReq, gtPassed, gtStrays, gtRefused>>

Principals == {"anonymous", "api_key"}
Outside == [at |-> "outside", who |-> "anonymous", bucket |-> 0]
Bucket(rpm) == [tokens |-> rpm, last |-> gtNow]
Never == [first |-> -1, last |-> -1]

GtBlank ==
  /\ gtNow = 0 /\ gtGlobal = [tokens |-> gtConf.global, last |-> 0]
  /\ gtBuckets = <<>> /\ gtStore = [p \in Principals |-> 0]
  /\ gtReq = [r \in GtRequests |-> Outside]
  /\ gtPassed = [p \in Principals \cup {"server"} |-> 0]
  /\ gtStrays = [p \in Principals |-> 0]
  /\ gtRefused = [p \in Principals |-> Never]
GtInit == gtConf \in GtConfigs /\ GtBlank
GtIdle == gtConf = [auth |-> "none", global |-> 0, rpm |-> 0] /\ GtBlank

-----------------------------------------------------------------------------
\* tokenBucket.allow: whole tokens for the time since it was last asked,
\* and the clock of the bucket moves whether it earned any or not.
Refilled(b, rpm) ==
  LET earned == ((gtNow - b.last) * rpm) \div GtMinute
      tokens == IF b.tokens + earned > rpm THEN rpm ELSE b.tokens + earned
  IN  [tokens |-> tokens, last |-> gtNow]
Allowed(b, rpm) == Refilled(b, rpm).tokens > 0
TakeToken(b, rpm) == IF Allowed(b, rpm) THEN [Refilled(b, rpm) EXCEPT !.tokens = @ - 1] ELSE Refilled(b, rpm)

\* Health, version, metrics and the queue's webhooks are open to anyone;
\* the rest need the key when there is one.
Auth(r, open, keyed) ==
  /\ gtReq[r].at = "outside"
  /\ open \/ keyed \/ gtConf.auth = "none"
  /\ gtReq' = [gtReq EXCEPT ![r] = [at |-> "server", bucket |-> 0,
       who |-> IF open \/ gtConf.auth = "none" THEN "anonymous" ELSE "api_key"]]
  /\ UNCHANGED <<gtConf, gtNow, gtGlobal, gtBuckets, gtStore, gtPassed, gtStrays, gtRefused>>

Count(who) == gtPassed' = [gtPassed EXCEPT ![who] = @ + 1]
Leave(r) == gtReq' = [gtReq EXCEPT ![r] = Outside]

RateLimit(r) ==
  /\ gtReq[r].at = "server"
  /\ IF gtConf.global = 0
     THEN gtReq' = [gtReq EXCEPT ![r].at = "principal"] /\ UNCHANGED <<gtGlobal, gtPassed>>
     ELSE /\ gtGlobal' = TakeToken(gtGlobal, gtConf.global)
          /\ IF Allowed(gtGlobal, gtConf.global)
             THEN gtReq' = [gtReq EXCEPT ![r].at = "principal"] /\ Count("server")
             ELSE Leave(r) /\ UNCHANGED gtPassed
  /\ UNCHANGED <<gtConf, gtNow, gtBuckets, gtStore, gtStrays, gtRefused>>

\* bucketStore.get: the principal's bucket, made full when there is none.
GetBucket(r) ==
  /\ gtReq[r].at = "principal" /\ gtConf.rpm > 0
  /\ LET who == gtReq[r].who
     IN  IF gtStore[who] > 0
         THEN /\ gtReq' = [gtReq EXCEPT ![r].at = "ask", ![r].bucket = gtStore[who]]
              /\ UNCHANGED <<gtBuckets, gtStore>>
         ELSE /\ Len(gtBuckets) < GtMaxBuckets
              /\ gtBuckets' = Append(gtBuckets, Bucket(gtConf.rpm))
              /\ gtStore' = [gtStore EXCEPT ![who] = Len(gtBuckets')]
              /\ gtReq' = [gtReq EXCEPT ![r].at = "ask", ![r].bucket = Len(gtBuckets')]
  /\ UNCHANGED <<gtConf, gtNow, gtGlobal, gtPassed, gtStrays, gtRefused>>

NoPrincipalLimit(r) ==
  /\ gtReq[r].at = "principal" /\ gtConf.rpm = 0 /\ Leave(r)
  /\ UNCHANGED <<gtConf, gtNow, gtGlobal, gtBuckets, gtStore, gtPassed, gtStrays, gtRefused>>

PrincipalRateLimit(r) ==
  /\ gtReq[r].at = "ask"
  /\ LET who == gtReq[r].who
         b == gtBuckets[gtReq[r].bucket]
     IN  /\ gtBuckets' = [gtBuckets EXCEPT ![gtReq[r].bucket] = TakeToken(b, gtConf.rpm)]
         /\ IF Allowed(b, gtConf.rpm)
            THEN Count(who) /\ gtRefused' = [gtRefused EXCEPT ![who] = Never]
            ELSE /\ UNCHANGED gtPassed
                 /\ gtRefused' = [gtRefused EXCEPT ![who] =
                      [first |-> IF @ = Never THEN gtNow ELSE @.first, last |-> gtNow]]
  /\ Leave(r)
  /\ UNCHANGED <<gtConf, gtNow, gtGlobal, gtStore, gtStrays>>

\* Mutant: every bucket is dropped.
EverStale(p) == gtStore[p] > 0

\* reapLoop: buckets not asked for longer than the interval are forgotten.
Stale(p) == gtStore[p] > 0 /\ gtBuckets[gtStore[p]].last < gtNow - GtReap
Holding(p) == {r \in GtRequests : gtReq[r].at = "ask" /\ gtReq[r].bucket = gtStore[p]}
Reap ==
  /\ \E p \in Principals : Stale(p)
  /\ gtStore' = [p \in Principals |-> IF Stale(p) THEN 0 ELSE gtStore[p]]
  /\ gtStrays' = [p \in Principals |-> gtStrays[p] + IF Stale(p) THEN Cardinality(Holding(p)) ELSE 0]
  /\ UNCHANGED <<gtConf, gtNow, gtGlobal, gtBuckets, gtReq, gtPassed, gtRefused>>

Tick ==
  /\ gtNow < GtMaxTime /\ gtNow' = gtNow + 1
  /\ UNCHANGED <<gtConf, gtGlobal, gtBuckets, gtStore, gtReq, gtPassed, gtStrays, gtRefused>>

GtNext ==
  \/ Tick \/ Reap
  \/ \E r \in GtRequests :
       \/ \E open, keyed \in BOOLEAN : Auth(r, open, keyed)
       \/ RateLimit(r) \/ GetBucket(r) \/ NoPrincipalLimit(r) \/ PrincipalRateLimit(r)

GtSpec == GtInit /\ [][GtNext]_gtVars

\* The clock has stopped.
GtEnded == gtNow = GtMaxTime

-----------------------------------------------------------------------------
\* A principal passes no more often than a full bucket and the tokens its
\* time has earned allow, though the reaper hands it a full one after every
\* absence, except for requests that held a bucket while it was reaped; and
\* the server as a whole passes no more than its own bucket allows.
RateHonoured ==
  LET earned(rpm) == rpm + (gtNow * rpm) \div GtMinute
  IN  /\ gtConf.rpm > 0 => \A p \in Principals : gtPassed[p] <= earned(gtConf.rpm) + gtStrays[p]
      /\ gtConf.global > 0 => gtPassed["server"] <= earned(gtConf.global)

\* "Refill tokens based on elapsed time." (ratelimit.go:59): a principal that
\* has been refused since a token's worth of time ago, coming back after the
\* Retry-After it was given, is not refused again.
RetryIsServed ==
  \A p \in Principals : (gtRefused[p].last - gtRefused[p].first) * gtConf.rpm < GtMinute
=============================================================================
