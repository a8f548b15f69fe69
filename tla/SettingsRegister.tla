-------------------------- MODULE SettingsRegister --------------------------
(***************************************************************************)
(* What the model registry promises: the settings of the instance are a    *)
(* register whose versions every replica observes in order.  A replica may *)
(* lag, and falls back on its environment while it cannot read the stored  *)
(* version, but it never returns to a version older than one it has used.  *)
(***************************************************************************)
EXTENDS Naturals, Sequences

CONSTANTS
  Observers,      \* the replicas
  Contents,       \* what may be stored
  Effective(_),   \* the settings a replica runs with, from stored ones
  Fallback        \* the settings it runs with on its own

VARIABLES
  versions,   \* every content ever committed, oldest first
  observed,   \* per replica: the newest version it has used
  inUse       \* per replica: the settings it runs with

registerVars == <<versions, observed, inUse>>

RegisterInit ==
  /\ versions = <<>>
  /\ observed = [r \in Observers |-> 0]
  /\ inUse = [r \in Observers |-> Fallback]

Commit ==
  /\ Len(versions') = Len(versions) + 1
  /\ SubSeq(versions', 1, Len(versions)) = versions
  /\ versions'[Len(versions')] \in Contents
  /\ UNCHANGED <<observed, inUse>>

Observe(r) == \E v \in observed[r] .. Len(versions) :
  /\ observed' = [observed EXCEPT ![r] = v]
  /\ inUse' = [inUse EXCEPT ![r] = IF v = 0 THEN Fallback ELSE Effective(versions[v])]
  /\ UNCHANGED versions

LoseSight(r) ==
  /\ inUse' = [inUse EXCEPT ![r] = Fallback]
  /\ UNCHANGED <<versions, observed>>

RegisterNext == Commit \/ \E r \in Observers : Observe(r) \/ LoseSight(r)

Register == RegisterInit /\ [][RegisterNext]_registerVars
=============================================================================
