---------------------------- MODULE PolicyCache ----------------------------
(***************************************************************************)
(* The policy cache of one replica, for one tenant: the promise it has in  *)
(* the cache, older loads that are still in flight, the last good policy.  *)
(* Activations are numbered; policy 0 is the boot fallback.  Time is the   *)
(* age of a load, in ticks up to TTL.  The tenants are fewer than          *)
(* maxEntries: neither map evicts.                                         *)
(***************************************************************************)
EXTENDS Integers

CONSTANTS
    Loads,          \* load() calls; one may be used again once nobody waits for it
    NoLoad,
    TTL,            \* POLICY_CACHE_TTL_MS, in ticks
    MaxEpoch,       \* bound: activations
    MaxFailures     \* bound: reads of the store that fail

ASSUME CacheShape ==
    /\ NoLoad \notin Loads
    /\ TTL \in Nat \ {0} /\ MaxEpoch \in Nat /\ MaxFailures \in Nat

VARIABLES
    epoch,      \* the activations committed so far; the last is active
    foreign,    \* those this replica's build cannot parse
    stage,      \* stage[l]: idle, sent (the store has not answered), read, settled
    saw,        \* saw[l]: the active version load l has read; -1 if it has not
    entry,      \* the load whose promise is in the cache
    gives,      \* the policy the entry has resolved to
    age,        \* ticks since the entry's load was sent
    stale,      \* history: ticks since the version it has read was replaced
    known,      \* history: the last good policy when it was sent
    lastGood,   \* the policy in lastGood, 0 if none
    failures,   \* reads that failed
    told        \* history: the last activation the replica was told of

store == <<epoch, foreign>>
held  == <<entry, gives, age, stale, known>>
cache == <<store, stage, saw, held, lastGood, failures, told>>

Epochs == 1 .. MaxEpoch

Settled  == entry # NoLoad /\ stage[entry] = "settled"
Later(n) == IF n < TTL THEN n + 1 ELSE TTL

CacheInit ==
    /\ epoch = 0 /\ foreign = {}
    /\ stage = [l \in Loads |-> "idle"] /\ saw = [l \in Loads |-> -1]
    /\ entry = NoLoad /\ gives = 0 /\ age = 0 /\ stale = 0 /\ known = 0
    /\ lastGood = 0 /\ failures = 0 /\ told = 0

(* Mutant: an entry is served until somebody drops it.                     *)
HeldForever == TRUE
(* cached.expiresAt > now().                                               *)
Fresh == age < TTL

(* The cache holds a load that is sent now, or nothing.                    *)
Hold(l) ==
    /\ entry' = l
    /\ gives' = 0 /\ age' = 0 /\ stale' = 0
    /\ known' = IF l = NoLoad THEN 0 ELSE lastGood

(* f when the cache lets go of its entry: nobody awaits a settled one, and *)
(* of one in flight only lastGood will hear.                               *)
LetGo(f, v) == IF Settled THEN [f EXCEPT ![entry] = v] ELSE f

(* resolve() on a miss: a load is started and cached before it is read.    *)
StartLoad(l) ==
    /\ stage[l] = "idle"
    /\ entry # NoLoad => ~Fresh
    /\ Hold(l)
    /\ stage' = [LetGo(stage, "idle") EXCEPT ![l] = "sent"]
    /\ saw'   = LetGo(saw, -1)
    /\ UNCHANGED <<store, lastGood, failures, told>>

(* getActiveConfigVersion's SELECT runs in the store.                      *)
StoreReads(l) ==
    /\ stage[l] = "sent"
    /\ stage' = [stage EXCEPT ![l] = "read"]
    /\ saw'   = [saw EXCEPT ![l] = epoch]
    /\ UNCHANGED <<store, held, lastGood, failures, told>>

Done(l) == stage' = [stage EXCEPT ![l] = "idle"] /\ saw' = [saw EXCEPT ![l] = -1]

(* The load resolves to p; a load no longer cached is done with.           *)
Resolves(l, p) ==
    /\ IF l = entry
       THEN stage' = [stage EXCEPT ![l] = "settled"] /\ gives' = p /\ UNCHANGED saw
       ELSE Done(l) /\ UNCHANGED gives
    /\ UNCHANGED <<entry, stale, known>>

(* Mutant: the time to live counts from the answer.                        *)
LoadedRenewed(l) ==
    /\ stage[l] = "read"
    /\ saw[l] \notin foreign
    /\ lastGood' = IF saw[l] = 0 THEN lastGood ELSE saw[l]
    /\ Resolves(l, saw[l])
    /\ age' = IF l = entry THEN 0 ELSE age
    /\ UNCHANGED <<store, failures, told>>
(* The answer is parsed and remembered; no active version is the fallback, *)
(* which is not remembered.                                                *)
Loaded(l) ==
    /\ stage[l] = "read"
    /\ saw[l] \notin foreign
    /\ lastGood' = IF saw[l] = 0 THEN lastGood ELSE saw[l]
    /\ Resolves(l, saw[l])
    /\ UNCHANGED <<store, age, failures, told>>

(* Mutant: a version that does not parse is answered with the fallback.    *)
UnparseableToBoot(l) ==
    /\ stage[l] = "read"
    /\ saw[l] \in foreign
    /\ Resolves(l, 0)
    /\ UNCHANGED <<store, age, lastGood, failures, told>>
(* PolicyConfigError: the last good policy, or else the fallback.          *)
Unparseable(l) ==
    /\ stage[l] = "read"
    /\ saw[l] \in foreign
    /\ Resolves(l, lastGood)
    /\ UNCHANGED <<store, age, lastGood, failures, told>>

(* The read fails: the last good policy, or the load is rejected, failing  *)
(* closed, and evicted if it is cached still.                              *)
ReadFails(l) ==
    /\ stage[l] = "sent"
    /\ failures < MaxFailures
    /\ failures' = failures + 1
    /\ IF lastGood # 0 THEN Resolves(l, lastGood) /\ UNCHANGED age
       ELSE Done(l) /\ IF entry = l THEN Hold(NoLoad) ELSE UNCHANGED held
    /\ UNCHANGED <<store, lastGood, told>>

(* invalidate(): the cache lets go of its entry; e is what it is told of.  *)
Invalidate(e) ==
    /\ Hold(NoLoad)
    /\ stage' = LetGo(stage, "idle")
    /\ saw'   = LetGo(saw, -1)
    /\ told'  = IF e > told THEN e ELSE told
    /\ UNCHANGED <<store, lastGood, failures>>

(* A version is activated, by any replica; this one may be too old a build *)
(* to parse it.                                                            *)
Commit(parses) ==
    /\ epoch < MaxEpoch
    /\ epoch'   = epoch + 1
    /\ foreign' = IF parses THEN foreign ELSE foreign \cup {epoch + 1}
    /\ UNCHANGED <<stage, saw, held, lastGood, failures, told>>

Tick ==
    /\ entry # NoLoad
    /\ age'   = Later(age)
    /\ stale' = IF saw[entry] \in 0 .. epoch - 1 THEN Later(stale) ELSE stale
    /\ UNCHANGED <<store, stage, saw, entry, gives, known, lastGood, failures, told>>

LoadStep(l) == StoreReads(l) \/ Loaded(l) \/ Unparseable(l) \/ ReadFails(l)

-----------------------------------------------------------------------------
CacheTypes ==
    /\ epoch \in 0 .. MaxEpoch /\ foreign \subseteq 1 .. epoch
    /\ stage \in [Loads -> {"idle", "sent", "read", "settled"}]
    /\ saw \in [Loads -> -1 .. epoch]
    /\ \A l \in Loads : /\ stage[l] = "settled" => l = entry
                        /\ stage[l] = "idle" => saw[l] = -1
                        /\ stage[l] = "read" => saw[l] # -1
    /\ entry \in Loads \cup {NoLoad}
    /\ entry # NoLoad => stage[entry] # "idle"
    /\ gives \in 0 .. epoch /\ age \in 0 .. TTL /\ stale \in 0 .. TTL /\ known \in 0 .. epoch
    /\ lastGood \in 0 .. epoch \ foreign
    /\ failures \in 0 .. MaxFailures
    /\ told \in 0 .. epoch

(* What a request that comes now is given, if its load reads the store.    *)
Serves    == entry # NoLoad /\ Fresh
FromStore == saw[entry] \in 0 .. epoch \ foreign

(* Once a replica was told of an activation, by its own call or by NOTIFY, *)
(* no request that comes later is given an older version that a load had   *)
(* read before (policy/routes.ts:259-262)...                               *)
ToldIsServed == Serves /\ FromStore => saw[entry] >= told

(* ... and without being told, no request is given a version that has been *)
(* replaced for POLICY_CACHE_TTL_MS, however long its load took            *)
(* (tenantResolver.ts:27-29).                                              *)
WithinTTL == Serves /\ FromStore => stale < TTL

(* The cache is never older than promised.                                 *)
CacheIsCurrent == ToldIsServed /\ WithinTTL

(* The boot fallback, which may allow more than the tenant's policy, is    *)
(* given only for want of an active version, or if the only one seen so    *)
(* far does not parse; never for a read that failed and never after the    *)
(* tenant had a good policy (tenantResolver.ts:110-123).                   *)
FallbackIsBoot ==
    Settled /\ gives = 0 => saw[entry] \in {0} \cup foreign /\ known = 0
=============================================================================
