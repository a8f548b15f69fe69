--------------------------- MODULE ModelRegistry ---------------------------
(***************************************************************************)
(* The model providers an administrator configures while the engine runs:  *)
(* one sealed settings row in the database, and in every replica a         *)
(* Registry with a snapshot of it.  Save is a read, a write and a reload   *)
(* under the replica's mutex; Watch polls the row's time and reloads under *)
(* the same mutex.  Nothing locks the row itself.                          *)
(*                                                                         *)
(* A key is the provider it was issued for.  A row is the position of its  *)
(* write in the log of writes, which stands for the database clock.        *)
(***************************************************************************)
EXTENDS Integers, FiniteSets, Sequences

CONSTANTS
  Replicas,     \* engine processes
  SaveCalls,    \* PUT requests of administrators
  Target,       \* the replica each request reaches
  Asks,         \* the updates each request may ask for
  EnvSettings,  \* settings given by the environment
  CanOpen,      \* what replicas may be given: replica -> "yes", "corrupt" (another key), "nokey"
  RegFaults,    \* database calls that may fail
  Nothing       \* a group that is not configured

Updates == UNION {Asks[c] : c \in SaveCalls}
KeyedProviders == {"anthropic", "openai", "gemini"}
NoKey == "none"

GenerativeType == [provider : STRING, key : STRING, url : STRING, model : STRING, thinking : STRING]
JudgeType == [key : STRING, url : STRING]
SettingsType == [gen : GenerativeType \cup {Nothing}, judge : JudgeType \cup {Nothing}]
UpdateType == [gen : GenerativeType \cup {Nothing}, judge : JudgeType \cup {Nothing},
               clearGen : BOOLEAN, clearJudge : BOOLEAN]

\* A key, whoever enters it, is entered for a provider, or there is none.
KeyFits(set) == set.gen # Nothing => set.gen.key \in {NoKey, set.gen.provider}

ASSUME RegistryAssumption ==
  /\ Target \in [SaveCalls -> Replicas] /\ Replicas \cap SaveCalls = {}
  /\ Nothing \notin GenerativeType \cup JudgeType
  /\ \A c \in SaveCalls : Asks[c] \subseteq {u \in UpdateType : KeyFits(u)}
  /\ EnvSettings \in SettingsType /\ KeyFits(EnvSettings)
  /\ CanOpen \subseteq [Replicas -> {"yes", "corrupt", "nokey"}]
  /\ RegFaults \in Nat

VARIABLES
  log,        \* every row written, a deleted one as empty settings
  snap,       \* per replica: the current snapshot (Registry.cur)
  client,     \* per replica: the snapshot has a generative client
  call,       \* per request: [step, update, base, next]
  watcher,    \* per replica: where Watch is: idle, stale, read
  loaded,     \* per watcher and save: the snapshot being built under the mutex
  opens,      \* per replica: can it open the row
  clobbered,  \* <<writer, victim>>: a write over a row its Save had not read
  regFaults

regVars == <<log, snap, client, call, watcher, loaded, clobbered, opens, regFaults>>

Empty == [gen |-> Nothing, judge |-> Nothing]
Row == IF log = <<>> \/ log[Len(log)].set = Empty THEN [set |-> Empty, by |-> Nothing, at |-> 0]
       ELSE log[Len(log)]

-----------------------------------------------------------------------------
(***************************************************************************)
(* Settings: [provider, key, url, model, thinking] and [key, url].         *)
(***************************************************************************)
validateURL(u) == u \in {"", "http"}

ResolvedIngestModel(g) == IF g.model # "" THEN g.model ELSE IF g.provider = "compatible" THEN "" ELSE "default"

ValidGenerative(g) ==
  \/ /\ g.provider \in KeyedProviders /\ g.key # NoKey /\ validateURL(g.url)
     /\ g.provider = "gemini" => g.url = ""
  \/ g.provider = "vertex" /\ g.url = "" /\ g.thinking \in {"", "level", "budget"}
  \/ g.provider = "compatible" /\ g.url # "" /\ ResolvedIngestModel(g) # "" /\ validateURL(g.url)

ValidJudge(j) == j.key # NoKey /\ validateURL(j.url)

\* An update without a key keeps the key stored for the same provider.
KeepKey(g, stored) ==
  IF g.key = NoKey /\ stored # Nothing /\ stored.provider = g.provider
  THEN [g EXCEPT !.key = stored.key] ELSE g

apply(u, stored) ==
  LET gen == IF u.clearGen THEN Nothing ELSE stored.gen
      judge == IF u.clearJudge THEN Nothing ELSE stored.judge
  IN  [gen |-> IF u.gen = Nothing THEN gen ELSE KeepKey(u.gen, gen),
       judge |-> IF u.judge = Nothing THEN judge
                 ELSE IF u.judge.key = NoKey /\ judge # Nothing THEN [u.judge EXCEPT !.key = judge.key]
                 ELSE u.judge]

Accepts(u, stored) ==
  /\ u.gen # Nothing => ValidGenerative(apply(u, stored).gen)
  /\ u.judge # Nothing => ValidJudge(apply(u, stored).judge)

Storable ==
  LET gens == {u.gen : u \in Updates} \ {Nothing}
      judges == {u.judge : u \in Updates} \ {Nothing}
  IN  [gen : {Nothing} \cup {[g EXCEPT !.key = h.key] : g, h \in gens},
       judge : {Nothing} \cup {[j EXCEPT !.key = h.key] : j, h \in judges}]

\* Stored settings come before the environment's, group by group.
Over(set) ==
  [gen |-> IF set.gen # Nothing THEN set.gen ELSE EnvSettings.gen,
   judge |-> IF set.judge # Nothing THEN set.judge ELSE EnvSettings.judge]

\* build: the settings a snapshot runs with, the time of its row and the
\* newest version it stands for.
build(set, at, ver) == [set |-> Over(set), at |-> at, ver |-> ver]

\* Providers whose client asks the host, or the network, for credentials when
\* it is built: valid settings may still give no client.
HostProviders == {"gemini", "vertex"}
BuildClient(g, able) == g # Nothing /\ ValidGenerative(g) /\ (g.provider \in HostProviders => able)

GenerativeConfigured(r) == client[r]
JudgeConfigured(r) == snap[r].set.judge # Nothing /\ ValidJudge(snap[r].set.judge)

\* Test: the settings a connection test of an update tries; it stores nothing.
TestTarget(r, u) ==
  LET next == apply(u, snap[r].set)
  IN  [gen |-> IF u.clearGen /\ u.gen = Nothing THEN EnvSettings.gen ELSE next.gen,
       judge |-> IF u.clearJudge /\ u.judge = Nothing THEN EnvSettings.judge ELSE next.judge]

-----------------------------------------------------------------------------
NoCall == [step |-> "new", update |-> Nothing, base |-> 0, next |-> Empty]

RegBlank ==
  /\ log = <<>> /\ watcher = [r \in Replicas |-> "idle"]
  /\ snap = [r \in Replicas |-> build(Empty, 0, 0)]
  /\ \E able \in [Replicas -> BOOLEAN] : client = [r \in Replicas |-> BuildClient(Over(Empty).gen, able[r])]
  /\ loaded = [x \in Replicas \cup SaveCalls |-> Nothing]
  /\ call = [c \in SaveCalls |-> NoCall]
  /\ clobbered = {} /\ regFaults = 0
RegInit == RegBlank /\ opens \in CanOpen
RegIdle == RegBlank /\ opens = [r \in Replicas |-> "yes"]

InSave(c) == call[c].step \in {"read", "write", "reload", "store"}

\* Mutant: saves do not take the mutex.
WatchLocked(r) == watcher[r] = "read"

\* Registry.mu: one Save or one reload of Watch at a time.
Locked(r) == watcher[r] = "read" \/ \E c \in SaveCalls : Target[c] = r /\ InSave(c)

Step(c, s) == call' = [call EXCEPT ![c].step = s]
End(c, s) == call' = [call EXCEPT ![c] = [NoCall EXCEPT !.step = s]]
Fault == regFaults < RegFaults /\ regFaults' = regFaults + 1

\* readStored as Save uses it: a row another key sealed counts as empty.
BeginSave(c) == \E u \in Asks[c] :
  /\ call[c].step = "new" /\ ~Locked(Target[c])
  /\ call' = [call EXCEPT ![c].step = "read", ![c].update = u]
  /\ UNCHANGED <<log, snap, client, watcher, loaded, clobbered, opens, regFaults>>

ReadForSave(c) ==
  /\ call[c].step = "read"
  /\ LET readable == Row.at = 0 \/ opens[Target[c]] = "yes"
         stored == IF readable THEN Row.set ELSE Empty
         u == call[c].update
     IN  IF ~readable /\ opens[Target[c]] = "nokey" THEN End(c, "failed")
         ELSE IF ~Accepts(u, stored) THEN End(c, "invalid")
         ELSE IF apply(u, stored) # Empty /\ opens[Target[c]] = "nokey" THEN End(c, "failed")
         ELSE call' = [call EXCEPT ![c].step = "write", ![c].next = apply(u, stored), ![c].base = Len(log)]
  /\ UNCHANGED <<log, snap, client, watcher, loaded, clobbered, opens, regFaults>>

\* Put or Delete of the row, whose answer may be lost: the save then fails and
\* does not reload.
WriteRow(c) ==
  /\ call[c].step = "write"
  /\ log' = Append(log, [set |-> call[c].next, by |-> Target[c], at |-> Len(log) + 1])
  /\ clobbered' = IF call[c].base = Len(log) THEN clobbered
                  ELSE clobbered \cup {<<Target[c], log[Len(log)].by>>}
  /\ \/ Step(c, "reload") /\ UNCHANGED regFaults
     \/ Fault /\ End(c, "failed")
  /\ UNCHANGED <<snap, client, watcher, loaded, opens>>

RegCallFails(c) ==
  /\ call[c].step \in {"read", "write"} /\ Fault
  /\ End(c, "failed")
  /\ UNCHANGED <<log, snap, client, watcher, loaded, clobbered, opens>>

\* readStored as a reload uses it: what the replica cannot open leaves it on
\* its environment, with the row's time so that it is not read again.
Loaded(r) ==
  IF Row.at = 0 THEN build(Empty, 0, Len(log))
  ELSE IF opens[r] = "yes" THEN build(Row.set, Row.at, Len(log))
  ELSE build(Empty, Row.at, snap[r].ver)

\* The row could not be read at all.
Unread(r) == build(Empty, 0, snap[r].ver)

ReadForReload(x, r, failed) ==
  /\ loaded' = [loaded EXCEPT ![x] = IF failed THEN Unread(r) ELSE Loaded(r)]
  /\ IF failed THEN Fault ELSE UNCHANGED regFaults

SaveReloads(c) == \E failed \in BOOLEAN :
  /\ call[c].step = "reload"
  /\ ReadForReload(c, Target[c], failed)
  /\ Step(c, "store")
  /\ UNCHANGED <<log, snap, client, watcher, clobbered, opens>>

\* Registry.build and the store of its snapshot; whether there is a client
\* shows with the snapshot.
Publish(x, r) == \E able \in BOOLEAN :
  /\ snap' = [snap EXCEPT ![r] = loaded[x]] /\ loaded' = [loaded EXCEPT ![x] = Nothing]
  /\ client' = [client EXCEPT ![r] = BuildClient(loaded[x].set.gen, able)]

SaveStores(c) ==
  /\ call[c].step = "store"
  /\ Publish(c, Target[c])
  /\ End(c, "done")
  /\ UNCHANGED <<log, watcher, clobbered, opens, regFaults>>

\* Mutant: a row that was deleted is not newer.
PollNewer(r) ==
  /\ watcher[r] = "idle" /\ Row.at > snap[r].at
  /\ watcher' = [watcher EXCEPT ![r] = "stale"]
  /\ UNCHANGED <<log, snap, client, call, loaded, clobbered, opens, regFaults>>

\* Watch: the time is read without the mutex and compared with the snapshot's.
Poll(r) ==
  /\ watcher[r] = "idle" /\ Row.at # snap[r].at
  /\ watcher' = [watcher EXCEPT ![r] = "stale"]
  /\ UNCHANGED <<log, snap, client, call, loaded, clobbered, opens, regFaults>>

\* Mutant: the watcher reloads without the mutex.
ReloadUnlocked(r) == \E failed \in BOOLEAN :
  /\ watcher[r] = "stale"
  /\ ReadForReload(r, r, failed)
  /\ watcher' = [watcher EXCEPT ![r] = "read"]
  /\ UNCHANGED <<log, snap, client, call, clobbered, opens>>

WatchReloads(r) == \E failed \in BOOLEAN :
  /\ watcher[r] = "stale" /\ ~Locked(r)
  /\ ReadForReload(r, r, failed)
  /\ watcher' = [watcher EXCEPT ![r] = "read"]
  /\ UNCHANGED <<log, snap, client, call, clobbered, opens>>

WatchStores(r) ==
  /\ watcher[r] = "read"
  /\ Publish(r, r)
  /\ watcher' = [watcher EXCEPT ![r] = "idle"]
  /\ UNCHANGED <<log, call, clobbered, opens, regFaults>>

RegStep ==
  \/ \E c \in SaveCalls : ReadForSave(c) \/ WriteRow(c) \/ SaveReloads(c) \/ SaveStores(c)
  \/ \E r \in Replicas : Poll(r) \/ WatchReloads(r) \/ WatchStores(r)
RegNext ==
  \/ RegStep
  \/ \E c \in SaveCalls : BeginSave(c) \/ RegCallFails(c)

RegSpec == RegInit /\ [][RegNext]_regVars

RegEnded ==
  /\ \A c \in SaveCalls : call[c].step \in {"done", "failed", "invalid"}
  /\ \A r \in Replicas : watcher[r] = "idle"

-----------------------------------------------------------------------------
\* The registry implements a register: rows are versions, and no replica goes
\* back to an older one, whatever reload was overtaken by a save.
Shared == INSTANCE SettingsRegister WITH
  Observers <- Replicas,
  Contents <- Storable,
  Effective <- Over,
  Fallback <- Over(Empty),
  versions <- [k \in DOMAIN log |-> log[k].set],
  observed <- [r \in Replicas |-> snap[r].ver],
  inUse <- [r \in Replicas |-> snap[r].set]
SharedRegister == Shared!Register

\* A key is only ever sent to the provider it was entered for, in the row, in
\* every snapshot and in connection tests (Update.apply).
KeysMatchProvider ==
  /\ \A k \in DOMAIN log : KeyFits(log[k].set)
  /\ \A r \in Replicas : KeyFits(snap[r].set)
  /\ \A r \in Replicas, u \in Updates : Accepts(u, snap[r].set) => KeyFits(TestTarget(r, u))

\* What an accepted save leaves in use passed validation, and a replica calls
\* it unless its provider looks for credentials of the host and found none when
\* the snapshot was built; no replica has a client of settings that are gone or
\* not valid (Update.apply, Registry.build, NotConfiguredError).  The
\* environment's own settings are not validated when the engine starts.
SavedIsUsable == \A r \in Replicas :
  /\ snap[r].set.gen \notin {Nothing, EnvSettings.gen} =>
       ValidGenerative(snap[r].set.gen) /\ (GenerativeConfigured(r) \/ snap[r].set.gen.provider \in HostProviders)
  /\ GenerativeConfigured(r) => snap[r].set.gen # Nothing /\ ValidGenerative(snap[r].set.gen)
  /\ snap[r].set.judge \notin {Nothing, EnvSettings.judge} => JudgeConfigured(r)

\* Only saves through different replicas can overwrite each other's change:
\* two saves of one replica are serialised (Registry.Save).
SavesOfOneReplicaMerge == \A pair \in clobbered : pair[1] # pair[2]

\* Settings are safe to act on: keys go to their provider only, what was saved
\* is valid and can be called but for the host's credentials, and saves of one
\* replica do not overwrite each other.
RegistrySound == KeysMatchProvider /\ SavedIsUsable /\ SavesOfOneReplicaMerge

\* When administrators have stopped, every replica ends up with the row, or
\* with its environment when it cannot open it (Registry.Watch).
ReplicasConverge ==
  <>[]((\A c \in SaveCalls : ~InSave(c)) =>
         \A r \in Replicas : snap[r].set = Loaded(r).set /\ snap[r].at = Row.at)
=============================================================================
