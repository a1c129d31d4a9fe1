------------------------------- MODULE ApiKeys -------------------------------
(***************************************************************************)
(* The key store and the resolver each replica keeps in front of it.  A    *)
(* row of api_keys holds the hash of one secret at a time; a secret is     *)
(* drawn at random and so never drawn twice.  Resolving a secret asks the  *)
(* store only when the replica's cache has no fresh answer, and what the   *)
(* store said is cached when the answer arrives, which may be after the    *)
(* row changed and the cache was cleared.                                  *)
(*                                                                         *)
(* Time is counted in ticks: a lookup is answered within Latency of the    *)
(* store's reading, a positive answer is fresh for TTL, a negative one for *)
(* NegativeTTL.                                                            *)
(***************************************************************************)
EXTENDS Integers, FiniteSets

CONSTANTS Keys, MaxSecrets, Replicas, TTL, NegativeTTL, Latency, MaxEntries, None

ASSUME TimeAssumption == {TTL, NegativeTTL, Latency} \subseteq Nat
ASSUME BoundAssumption == {MaxSecrets, MaxEntries} \subseteq Nat \ {0}

VARIABLES
  keys,   \* the rows of api_keys; None where there is none
  minted, \* how many secrets were drawn
  cache,  \* cache[r]: the answers replica r remembers, by secret
  gone    \* gone[s]: for how long s has not been a key's secret (to Latency + TTL)

keyVars == <<keys, minted, cache, gone>>

Secrets == 1..MaxSecrets
Horizon == Latency + TTL

KeysInit(rows) ==
  /\ keys = rows
  /\ minted = Cardinality({k \in Keys : rows[k] # None})
  /\ cache = [r \in Replicas |-> [s \in {} |-> None]]
  /\ gone = [s \in Secrets |-> 0]

ActiveWith(k, s) ==
  keys[k] # None /\ keys[k].secret = s /\ ~keys[k].revoked /\ ~keys[k].expired

(* findActiveApiKeyByToken: the key whose secret s is, or None.            *)
FindActiveApiKeyByToken(s) ==
  IF \E k \in Keys : ActiveWith(k, s) THEN CHOOSE k \in Keys : ActiveWith(k, s) ELSE None

(* A cached answer that is still fresh.                                    *)
Fresh(r, s) == s \in DOMAIN cache[r] /\ cache[r][s].left > 0

(* set: a full cache is emptied first; what is stale still takes room.     *)
Remember(r, s, k) ==
  LET kept == IF Cardinality(DOMAIN cache[r]) >= MaxEntries THEN {} ELSE DOMAIN cache[r]
      answer == [key |-> k, left |-> IF k # None THEN TTL ELSE NegativeTTL]
  IN cache' = [cache EXCEPT ![r] =
                 [t \in kept \cup {s} |-> IF t = s THEN answer ELSE cache[r][t]]]

Clear(r) == cache' = [cache EXCEPT ![r] = [s \in {} |-> None]]

-----------------------------------------------------------------------------
(* The statements on api_keys.  A scope is the set of tenant columns they  *)
(* may meet; the row is found, or the caller answers 404.                  *)
NewKey(secret, permissions, tenant, expires, limits) ==
  [secret |-> secret, permissions |-> permissions, tenant |-> tenant, limits |-> limits,
   expires |-> expires, expired |-> FALSE, revoked |-> FALSE]

CreateApiKey(k, permissions, tenant, expires, limits) ==
  /\ keys[k] = None
  /\ minted' = minted + 1
  /\ keys' = [keys EXCEPT ![k] = NewKey(minted + 1, permissions, tenant, expires, limits)]
  /\ UNCHANGED <<cache, gone>>

InScope(k, scope) == keys[k] # None /\ keys[k].tenant \in scope
Rotatable(k, scope) == InScope(k, scope) /\ ~keys[k].revoked

RotateApiKey(k, scope) ==
  /\ Rotatable(k, scope)
  /\ minted' = minted + 1
  /\ keys' = [keys EXCEPT ![k].secret = minted + 1]
  /\ UNCHANGED <<cache, gone>>

(* Revoking what is revoked is a success that changes nothing.             *)
RevokeApiKey(k, scope) ==
  /\ InScope(k, scope)
  /\ keys' = [keys EXCEPT ![k].revoked = TRUE]
  /\ UNCHANGED <<minted, cache, gone>>

Expire(k) ==
  /\ keys[k] # None
  /\ keys[k].expires
  /\ ~keys[k].expired
  /\ keys' = [keys EXCEPT ![k].expired = TRUE]
  /\ UNCHANGED <<minted, cache, gone>>

Dead(s) == s <= minted /\ FindActiveApiKeyByToken(s) = None

(* What a tick does to the caches, and to how long ago a secret died.      *)
AgeKeys ==
  /\ cache' = [r \in Replicas |-> [s \in DOMAIN cache[r] |->
                 [cache[r][s] EXCEPT !.left = IF @ > 0 THEN @ - 1 ELSE 0]]]
  /\ gone' = [s \in Secrets |-> IF Dead(s) /\ gone[s] < Horizon THEN gone[s] + 1 ELSE gone[s]]
  /\ UNCHANGED <<keys, minted>>
==============================================================================
