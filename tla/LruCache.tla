------------------------------ MODULE LruCache ------------------------------
(***************************************************************************)
(* cache.LRU: at most max entries, most recently used first.  An entry     *)
(* past its time to live is still held, and dropped when it is asked for.  *)
(* A cache is a sequence of [key, value, live].                            *)
(***************************************************************************)
EXTENDS Ordering, SequencesExt

\* The place of a key in the list, which LRU.items knows; it has one at most.
LruPlaces(c, k) == {i \in DOMAIN c : c[i].key = k}
LruPlace(c, k) == CHOOSE i \in LruPlaces(c, k) : TRUE

LruHolds(c, k) == \E i \in LruPlaces(c, k) : c[i].live
LruValue(c, k) == c[LruPlace(c, k)].value

\* What a Get leaves: a hit moves to the front, an expired entry goes.
LruGet(c, k) ==
  IF LruPlaces(c, k) = {} THEN c
  ELSE (IF LruHolds(c, k) THEN <<c[LruPlace(c, k)]>> ELSE <<>>) \o RemoveAt(c, LruPlace(c, k))

\* A new key evicts the least recently used ones to make room.
LruSet(c, k, v, max) ==
  <<[key |-> k, value |-> v, live |-> TRUE]>>
  \o IF LruPlaces(c, k) # {} THEN RemoveAt(c, LruPlace(c, k)) ELSE FirstN(c, max - 1)

LruExpire(c, i) == [c EXCEPT ![i].live = FALSE]
=============================================================================
