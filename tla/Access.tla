------------------------------- MODULE Access --------------------------------
(***************************************************************************)
(* Who may do what: requests are authenticated, as an operator the         *)
(* identity provider or the environment names or by the secret of a key,   *)
(* scoped to a tenant, and then manage keys, pause calls or erase a user's *)
(* records.  Module DataPlane has the calls themselves and the reads.      *)
(*                                                                         *)
(* A tenant column is a tenant, Own (the default partition, '') or None    *)
(* (NULL: a platform key).  A request's tenant is a tenant or None; the    *)
(* control plane then works in that tenant's partition, in Own, or, for a  *)
(* platform operator, everywhere.                                          *)
(***************************************************************************)
EXTENDS ApiKeys

CONSTANTS
  Tenants, Own,
  Parties,    \* who sends requests, each with what it knows
  Roles,      \* Roles[p]: the roles the identity provider gives p; None if it has no login
  Bound,      \* Bound[p]: the tenant p's login or key is bound to, or None
  Users,
  Slots,   \* requests in progress at a time
  Workloads   \* who is there, what they hold, what they do, whether time passes

Partitions == Tenants \cup {Own}
Everyone == "everyone" \* the platform-wide switch of system_flags

VARIABLES
  workload,
  request, \* where each request is, and what it carries
  knows,   \* knows[p]: the secrets p was shown
  paused,  \* the switches of system_flags that are on
  records, \* request_logs: user, tenant column, project and budget node of each row
  trail    \* admin_audit_log: the tenant columns among its rows

gatewayVars == <<keyVars, workload, request, knows, paused, records, trail>>

Idle == [at |-> "idle"]

GatewayInit ==
  /\ workload \in Workloads
  /\ KeysInit(workload.rows)
  /\ request = [q \in Slots |-> Idle]
  /\ knows = [p \in Parties |-> workload.knows[p]]
  /\ paused = {}
  /\ records = workload.records
  /\ trail = {}

(***************************************************************************)
(* Authentication (plugins/auth.ts).                                       *)
(***************************************************************************)
RolePermissions == [
  viewer      |-> {"usage:read", "requests:read"},
  finops      |-> {"usage:read", "usage:write", "requests:read", "audit:read"},
  keyAdmin    |-> {"keys:admin", "usage:read", "requests:read", "audit:read"},
  policyAdmin |-> {"policy:write", "usage:read", "requests:read", "audit:read"},
  owner       |-> {"chat:create", "usage:read", "usage:write", "requests:read", "keys:admin",
                   "policy:write", "audit:read", "data:erase", "tenant:switch"}]

PermissionsForRoles(roles) == UNION {RolePermissions[role] : role \in roles}

IsBoundTenant(t) == t \in Tenants

(* The context of a request: what its principal may do, for which tenant.  *)
(* An unbound principal needs tenant:switch to name a tenant in the header. *)
MayScope(permissions, tenant, header) ==
  IsBoundTenant(tenant) \/ header = None \/ "tenant:switch" \in permissions

ResolveEffectiveTenant(tenant, header) == IF IsBoundTenant(tenant) THEN tenant ELSE header

(* What a key may be confined to besides; a login is not.  The environment *)
(* is treated like the project and the user type like the user.            *)
Unlimited == [project |-> None, users |-> {}, node |-> None]

Admitted(p, r, permissions, tenant, header, limits) ==
  IF MayScope(permissions, tenant, header)
    THEN [at |-> "admitted", by |-> p, on |-> r, permissions |-> permissions,
          tenant |-> ResolveEffectiveTenant(tenant, header), limits |-> limits]
    ELSE Idle

AdmittedKey(p, r, k, header) ==
  IF k = None THEN Idle
  ELSE Admitted(p, r, keys[k].permissions, keys[k].tenant, header, keys[k].limits)

(* A request of p reaches replica r.                                       *)
Arrives(q, p, r) ==
  /\ q \in workload.requests
  /\ p \in workload.parties
  /\ r \in workload.replicas
  /\ request[q] = Idle

Headers == workload.headers \cup {None}

(* A login, or a key of the environment: no store is asked.                *)
VerifyJwt(q, p, r) ==
  /\ Arrives(q, p, r)
  /\ Roles[p] # None
  /\ \E header \in Headers : request' = [request EXCEPT ![q] =
       Admitted(p, r, PermissionsForRoles(Roles[p]), Bound[p], header, Unlimited)]
  /\ UNCHANGED <<keyVars, workload, knows, paused, records, trail>>

(* Mutant: a hit makes the answer fresh again.                             *)
ResolveSliding(q, p, r) ==
  /\ Arrives(q, p, r)
  /\ \E header \in Headers, s \in knows[p] :
       /\ Fresh(r, s)
       /\ request' = [request EXCEPT ![q] = AdmittedKey(p, r, cache[r][s].key, header)]
       /\ Remember(r, s, cache[r][s].key)
  /\ UNCHANGED <<keys, minted, gone, workload, knows, paused, records, trail>>

ResolveCached(q, p, r) ==
  /\ Arrives(q, p, r)
  /\ \E header \in Headers, s \in knows[p] :
       /\ Fresh(r, s)
       /\ request' = [request EXCEPT ![q] = AdmittedKey(p, r, cache[r][s].key, header)]
  /\ UNCHANGED <<keyVars, workload, knows, paused, records, trail>>

ResolveMiss(q, p, r) ==
  /\ Arrives(q, p, r)
  /\ \E header \in Headers, s \in knows[p] :
       /\ ~Fresh(r, s)
       /\ request' = [request EXCEPT ![q] =
            [at |-> "asking", by |-> p, on |-> r, secret |-> s, header |-> header,
             answer |-> None, age |-> 0]]
  /\ UNCHANGED <<keyVars, workload, knows, paused, records, trail>>

ReadStore(q) ==
  /\ request[q].at = "asking"
  /\ request' = [request EXCEPT ![q].at = "looked up",
                   ![q].answer = FindActiveApiKeyByToken(request[q].secret)]
  /\ UNCHANGED <<keyVars, workload, knows, paused, records, trail>>

StoreAnswer(q) ==
  LET req == request[q]
  IN /\ req.at = "looked up"
     /\ Remember(req.on, req.secret, req.answer)
     /\ request' = [request EXCEPT ![q] = AdmittedKey(req.by, req.on, req.answer, req.header)]
     /\ UNCHANGED <<keys, minted, gone, workload, knows, paused, records, trail>>

(***************************************************************************)
(* The control plane's tenant (authz/scope.ts).                            *)
(***************************************************************************)
Switches(q) == "tenant:switch" \in request[q].permissions

(* resolveControlPlaneTenant: None is every tenant.                        *)
ResolveControlPlaneTenant(q) ==
  IF request[q].tenant # None THEN request[q].tenant
  ELSE IF Switches(q) THEN None ELSE Own

(* Mutant: the default partition is matched as IS NULL.                    *)
KeyTenantScopeNull(t) ==
  IF t = None THEN Partitions \cup {None} ELSE IF t = Own THEN {None} ELSE {t}

KeyTenantScope(t) == IF t = None THEN Partitions \cup {None} ELSE {t}

ResolveTenantScope(q) == IF request[q].tenant = None THEN Own ELSE request[q].tenant

\* What a workload leaves out its requests do not try.
Permitted(q, permission) ==
  /\ permission \in workload.tries
  /\ request[q].at = "admitted"
  /\ permission \in request[q].permissions

Scope(q) == KeyTenantScope(ResolveControlPlaneTenant(q))
Ends(q) == request' = [request EXCEPT ![q] = Idle]
Commits(q, s) ==
  request' = [request EXCEPT ![q] =
    [at |-> "committed", by |-> request[q].by, on |-> request[q].on, shows |-> s]]

(***************************************************************************)
(* Keys (keys/routes.ts).  The statement and its audit row are one         *)
(* transaction; the cache is cleared, and the secret sent, after it.       *)
(***************************************************************************)
(* authorizeKeyCreation: the tenant the body may name, the permissions it  *)
(* may grant, and the tenant of the new row.                               *)
AuthorizeKeyCreation(q, permissions, tenant) ==
  LET t == ResolveControlPlaneTenant(q)
  IN /\ t # None /\ tenant # None => tenant = t
     /\ permissions \subseteq request[q].permissions \cup {"chat:create"}

\* Each of these changes writes an audit row under the request's tenant.
Audited(q) == trail' = trail \cup {ResolveTenantScope(q)}

KeyTenant(q, tenant) ==
  LET t == ResolveControlPlaneTenant(q) IN IF t # None THEN t ELSE tenant

CreateKey(q) ==
  /\ Permitted(q, "keys:admin")
  /\ minted < workload.secrets
  /\ \E k \in Keys, permissions \in workload.grants,
        tenant \in Tenants \cup {None}, expires \in workload.expiries :
       /\ AuthorizeKeyCreation(q, permissions, tenant)
       /\ CreateApiKey(k, permissions, KeyTenant(q, tenant), expires, Unlimited)
  /\ Commits(q, minted + 1)
  /\ Audited(q)
  /\ UNCHANGED <<workload, knows, paused, records>>

RotateKey(q) ==
  /\ Permitted(q, "keys:admin")
  /\ minted < workload.secrets
  /\ \E k \in Keys : RotateApiKey(k, Scope(q))
  /\ Commits(q, minted + 1)
  /\ Audited(q)
  /\ UNCHANGED <<workload, knows, paused, records>>

RevokeKey(q) ==
  /\ Permitted(q, "keys:admin")
  /\ \E k \in Keys : RevokeApiKey(k, Scope(q))
  /\ Commits(q, None)
  /\ Audited(q)
  /\ UNCHANGED <<workload, knows, paused, records>>

(* onKeysChanged, then the answer: the only time a secret is shown.        *)
Respond(q) ==
  /\ request[q].at = "committed"
  /\ Clear(request[q].on)
  /\ knows' = IF request[q].shows = None THEN knows
              ELSE [knows EXCEPT ![request[q].by] = @ \cup {request[q].shows}]
  /\ Ends(q)
  /\ UNCHANGED <<keys, minted, gone, workload, paused, records, trail>>

(***************************************************************************)
(* Emergency stop, which leaves no audit row, and erasure.                 *)
(***************************************************************************)
PauseKey(t) == IF t = None THEN Everyone ELSE t

Pause(q) ==
  /\ Permitted(q, "policy:write")
  /\ paused' = paused \cup {PauseKey(ResolveControlPlaneTenant(q))}
  /\ Ends(q)
  /\ UNCHANGED <<keyVars, workload, knows, records, trail>>

Resume(q) ==
  /\ Permitted(q, "policy:write")
  /\ paused' = paused \ {PauseKey(ResolveControlPlaneTenant(q))}
  /\ Ends(q)
  /\ UNCHANGED <<keyVars, workload, knows, records, trail>>

(* eraseUserData: a request with a tenant erases that tenant's rows only.  *)
Erase(q) ==
  /\ Permitted(q, "data:erase")
  /\ \E u \in Users :
       records' = {row \in records : row.user = u => request[q].tenant \notin {None, row.tenant}}
  /\ Audited(q)
  /\ Ends(q)
  /\ UNCHANGED <<keyVars, workload, knows, paused>>

(***************************************************************************)
(* Any request may end with an error instead: forbidden, not found, the    *)
(* transaction rolled back, the answer lost.                               *)
(***************************************************************************)
Fail(q) ==
  /\ request[q] # Idle
  /\ Ends(q)
  /\ UNCHANGED <<keyVars, workload, knows, paused, records, trail>>

Restart(r) ==
  /\ workload.ticks
  /\ Clear(r)
  /\ request' = [q \in Slots |->
                   IF request[q] # Idle /\ request[q].on = r THEN Idle ELSE request[q]]
  /\ UNCHANGED <<keys, minted, gone, workload, knows, paused, records, trail>>

(* A lookup is answered, or times out, within Latency.                     *)
Tick ==
  /\ workload.ticks
  /\ \A q \in Slots : request[q].at = "looked up" => request[q].age < Latency
  /\ AgeKeys
  /\ request' = [q \in Slots |->
                   IF request[q].at = "looked up" THEN [request[q] EXCEPT !.age = @ + 1]
                                                  ELSE request[q]]
  /\ UNCHANGED <<workload, knows, paused, records, trail>>

AccessNext ==
  \/ \E q \in Slots :
       \/ \E p \in Parties, r \in Replicas :
            VerifyJwt(q, p, r) \/ ResolveCached(q, p, r) \/ ResolveMiss(q, p, r)
       \/ ReadStore(q) \/ StoreAnswer(q)
       \/ CreateKey(q) \/ RotateKey(q) \/ RevokeKey(q) \/ Respond(q)
       \/ Pause(q) \/ Resume(q) \/ Erase(q) \/ Fail(q)
  \/ \E k \in Keys : Expire(k) /\ UNCHANGED <<workload, request, knows, paused, records, trail>>
  \/ \E r \in Replicas : Restart(r)
  \/ Tick
==============================================================================
