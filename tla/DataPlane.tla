------------------------------ MODULE DataPlane -------------------------------
(***************************************************************************)
(* What an admitted request may bill and read.  A key is confined to a     *)
(* tenant and besides, if its row says so, to a project, to some users and *)
(* to a node of the budget tree; every route narrows its body or query to  *)
(* the key before the row of request_logs is written or the rows are read. *)
(*                                                                         *)
(* A call is one step here: module GovernedCalls has what happens between  *)
(* its admission and its row.  What a read showed is kept as the set of    *)
(* rows it touched, until the answer is sent.                              *)
(***************************************************************************)
EXTENDS Access

CONSTANTS
  Projects, DefaultProject,
  Nodes, NodeTenant, \* the budget nodes, each with its tenant column
  MaxRecords         \* rows of request_logs

(***************************************************************************)
(* Scopes (authz/scope.ts).                                                *)
(***************************************************************************)
CheckProjectScope(q, asked) ==
  request[q].limits.project = None \/ asked \in {None, request[q].limits.project}

CheckUserIdAllowed(q, user) ==
  request[q].limits.users = {} \/ user \in request[q].limits.users

CheckUserIdAllowedIfPresent(q, user) == user = None \/ CheckUserIdAllowed(q, user)

Else(value, default) == IF value # None THEN value ELSE default

ResolveProjectScope(q, asked, default) == Else(Else(request[q].limits.project, asked), default)

(* The rows a read may touch: the default partition is NULL in             *)
(* request_logs, and a project is matched when there is one to match.      *)
AppendRequestLogTenantScope(t) ==
  {row \in records : row.tenant = IF t = Own THEN None ELSE t}

ScopedRows(q, project) ==
  {row \in AppendRequestLogTenantScope(ResolveTenantScope(q)) : project \in {None, row.project}}

Seen(tenant, project) == [tenant |-> tenant, project |-> project]
SeenRows(rows) == {Seen(Else(row.tenant, Own), row.project) : row \in rows}

\* A workload may leave the reads out.
Shows(q, seen) ==
  /\ workload.reads
  /\ request' = [request EXCEPT ![q] =
       [at |-> "shown", by |-> request[q].by, on |-> request[q].on,
        limits |-> request[q].limits, seen |-> seen]]
  /\ UNCHANGED <<keyVars, workload, knows, paused, records, trail>>

(***************************************************************************)
(* Calls.                                                                  *)
(***************************************************************************)
(* authorizeChatInput, and its like for the other surfaces.                *)
AuthorizeInput(q, user, asked) ==
  /\ Permitted(q, "chat:create")
  /\ CheckProjectScope(q, asked)
  /\ CheckUserIdAllowed(q, user)

(* Mutant: the body's node comes first.                                    *)
ResolveAskedNodeId(q, asked) == Else(asked, request[q].limits.node)

ResolveBudgetNodeId(q, asked) == Else(request[q].limits.node, asked)

UseHierarchicalBudgets(node) == workload.hierarchical /\ node # None

(* loadHierarchicalPath: the leaf is a node of the caller's tenant, and a  *)
(* caller without one has no node.                                         *)
LeafIsKnown(q, node) == NodeTenant[node] = request[q].tenant

IsPaused(t) == Everyone \in paused \/ t \in paused

Logs(q, user, asked, node) ==
  /\ Cardinality(records) < MaxRecords
  /\ records' = records \cup
       {[user |-> user, tenant |-> request[q].tenant,
         project |-> ResolveProjectScope(q, asked, DefaultProject), node |-> node]}
  /\ Ends(q)
  /\ UNCHANGED <<keyVars, workload, knows, paused, trail>>

Chat(q) ==
  \E user \in Users, project \in Projects \cup {None}, asked \in Nodes \cup {None} :
    LET node == ResolveBudgetNodeId(q, asked)
    IN /\ AuthorizeInput(q, user, project)
       /\ ~IsPaused(request[q].tenant)
       /\ IF UseHierarchicalBudgets(node)
            THEN LeafIsKnown(q, node) /\ Logs(q, user, project, node)
            ELSE Logs(q, user, project, None)

(* Embeddings and documents know flat budgets only; a key with a node is   *)
(* answered 501 where there are trees.                                     *)
Embed(q) ==
  \E user \in Users, project \in Projects \cup {None} :
    /\ AuthorizeInput(q, user, project)
    /\ ~UseHierarchicalBudgets(request[q].limits.node)
    /\ ~IsPaused(request[q].tenant)
    /\ Logs(q, user, project, None)

ExtractDocument(q) ==
  \E user \in Users, project \in Projects \cup {None} :
    /\ AuthorizeInput(q, user, project)
    /\ ~UseHierarchicalBudgets(request[q].limits.node)
    /\ ~IsPaused(request[q].tenant)
    /\ Logs(q, user, project, None)

(* authorizeUsageSummary: for reports, and for costs that are reported.    *)
AuthorizeUsageSummary(q, project) == CheckProjectScope(q, project)

(* A cost the caller reports: a row without a user, in the key's scope.    *)
ReportExternalCost(q) ==
  /\ Permitted(q, "usage:write")
  /\ \E project \in Projects \cup {None} :
       /\ AuthorizeUsageSummary(q, project)
       /\ Logs(q, None, project, None)

(***************************************************************************)
(* Reads of what was billed.                                               *)
(***************************************************************************)
LlmRows(rows) == {row \in rows : row.user # None} \* decision <> 'external'

AuthorizeRequestList(q, user, project) ==
  /\ Permitted(q, "requests:read")
  /\ CheckUserIdAllowedIfPresent(q, user)
  /\ CheckProjectScope(q, project)

ListRequests(q) ==
  \E user \in Users \cup {None}, project \in Projects \cup {None} :
    LET rows == ScopedRows(q, ResolveProjectScope(q, project, DefaultProject))
    IN /\ AuthorizeRequestList(q, user, project)
       /\ Shows(q, SeenRows({row \in LlmRows(rows) : user \in {None, row.user}}))

(* One row by its id, of any project for a key without one.  Its user is   *)
(* compared with the key's after the read.                                 *)
AuthorizeRequestShow(q) == Permitted(q, "requests:read")

ShowRequest(q) ==
  /\ AuthorizeRequestShow(q)
  /\ \E row \in ScopedRows(q, ResolveProjectScope(q, None, None)) :
       /\ CheckUserIdAllowedIfPresent(q, row.user)
       /\ Shows(q, SeenRows({row}))

(* The counters of a user, a feature and, for a key that is not confined   *)
(* to a project, of the whole tenant; and the count of recent rows.  A key *)
(* with a project has to say of whom or of what.                           *)
AuthorizeUsageQuery(q, user, project, byFeature) ==
  /\ Permitted(q, "usage:read")
  /\ CheckUserIdAllowedIfPresent(q, user)
  /\ CheckProjectScope(q, project)
  /\ request[q].limits.project = None \/ user # None \/ byFeature

LoadUsageSnapshot(q, project) ==
  Seen(ResolveTenantScope(q), ResolveProjectScope(q, project, DefaultProject))

GetRecentRequestStats(q, project) == LlmRows(ScopedRows(q, ResolveProjectScope(q, project, None)))

ReadUsage(q) ==
  \E user \in Users \cup {None}, project \in Projects \cup {None}, byFeature \in BOOLEAN :
    /\ AuthorizeUsageQuery(q, user, project, byFeature)
    /\ Shows(q, {LoadUsageSnapshot(q, project)} \cup SeenRows(GetRecentRequestStats(q, project)))

(* The summary is of calls; the transactions count reported costs too.     *)
ReadSummary(q) ==
  \E project \in Projects \cup {None} :
    /\ Permitted(q, "usage:read")
    /\ AuthorizeUsageSummary(q, project)
    /\ Shows(q, SeenRows(LlmRows(ScopedRows(q, ResolveProjectScope(q, project, DefaultProject)))))

ReadTransactions(q) ==
  \E project \in Projects \cup {None} :
    /\ Permitted(q, "usage:read")
    /\ AuthorizeUsageSummary(q, project)
    /\ Shows(q, SeenRows(ScopedRows(q, ResolveProjectScope(q, project, DefaultProject))))

(* The dry run, for who may call, shows the counters the call would meet.  *)
AuthorizeExplainInput(q, user, project) ==
  /\ \E permission \in {"chat:create", "policy:explain"} : Permitted(q, permission)
  /\ CheckProjectScope(q, project)
  /\ CheckUserIdAllowed(q, user)

Explain(q) ==
  \E user \in Users, project \in Projects \cup {None} :
    /\ AuthorizeExplainInput(q, user, project)
    /\ Shows(q, {LoadUsageSnapshot(q, project)})

(***************************************************************************)
(* Reads of the control plane: they show tenants, not projects.            *)
(***************************************************************************)
SeenIn(tenants) == {Seen(t, None) : t \in tenants}

ListKeys(q) ==
  /\ Permitted(q, "keys:admin")
  /\ \E project \in Projects \cup {None}, includeRevoked \in BOOLEAN :
       Shows(q, SeenIn({keys[k].tenant : k \in {k \in Keys :
         /\ InScope(k, Scope(q))
         /\ project \in {None, keys[k].limits.project}
         /\ includeRevoked \/ ~keys[k].revoked}}))

ShowKey(q) ==
  /\ Permitted(q, "keys:admin")
  /\ \E k \in Keys : InScope(k, Scope(q)) /\ Shows(q, SeenIn({keys[k].tenant}))

(* The audit log has a tenant in every row, so its default partition is a  *)
(* value like another.                                                     *)
ListAudit(q) ==
  /\ Permitted(q, "audit:read")
  /\ Shows(q, SeenIn({t \in trail : ResolveControlPlaneTenant(q) \in {None, t}}))

(* The chain is one for all tenants: only a platform operator walks it.    *)
VerifyAuditChain(q) ==
  /\ Permitted(q, "audit:read")
  /\ ResolveControlPlaneTenant(q) = None
  /\ Shows(q, SeenIn(trail))

ListTenants(q) ==
  LET t     == ResolveControlPlaneTenant(q)
      known == {keys[k].tenant : k \in {k \in Keys : keys[k] # None}} \cup {row.tenant : row \in records}
  IN /\ \E permission \in {"usage:read", "requests:read", "audit:read"} : Permitted(q, permission)
     /\ Shows(q, SeenIn(Tenants \cap IF t # None THEN {t} ELSE known))

Sends(q) ==
  /\ request[q].at = "shown"
  /\ Ends(q)
  /\ UNCHANGED <<keyVars, workload, knows, paused, records, trail>>

DataPlaneNext ==
  \E q \in Slots :
    \/ Chat(q) \/ Embed(q) \/ ExtractDocument(q) \/ ReportExternalCost(q)
    \/ ListRequests(q) \/ ShowRequest(q) \/ Explain(q)
    \/ ReadUsage(q) \/ ReadSummary(q) \/ ReadTransactions(q)
    \/ ListKeys(q) \/ ShowKey(q) \/ ListAudit(q) \/ VerifyAuditChain(q) \/ ListTenants(q)
    \/ Sends(q)

-----------------------------------------------------------------------------
(* The gateway as its operators and keys meet it: authentication and the   *)
(* control plane (Access, ApiKeys) with the calls and the reads.           *)
GatewayNext == AccessNext \/ DataPlaneNext

GatewaySpec == GatewayInit /\ [][GatewayNext]_gatewayVars

-----------------------------------------------------------------------------
(* The partition of a party that is not a platform operator.               *)
Platform(p) == Roles[p] # None /\ Bound[p] = None /\ "tenant:switch" \in PermissionsForRoles(Roles[p])
Home(p) == IF Bound[p] # None THEN Bound[p] ELSE Own

Confined == {p \in Parties : ~Platform(p)}

(* What is there when a behaviour begins.  Tenants, the default partition, *)
(* the keys and None differ, and there are finitely many keys; a row of    *)
(* api_keys in the default partition cannot switch tenants, as no route    *)
(* creates one that can; who is confined to a partition holds the secrets  *)
(* of its keys only; and no key that is bound to no tenant may erase       *)
(* without tenant:switch, since an erasure without a tenant erases in all  *)
(* of them (governance/repo.ts:71-79).                                     *)
Stamps  == Tenants \cup {None}
Columns == Stamps \cup {Own}

Limits == [project : Projects \cup {None}, users : SUBSET Users, node : Nodes \cup {None}]

Permission ==
    {"policy:explain"} \cup UNION {RolePermissions[role] : role \in DOMAIN RolePermissions}

KeyRow == [secret : Nat, permissions : SUBSET Permission, tenant : Columns, limits : Limits,
           expires : BOOLEAN, expired : BOOLEAN, revoked : BOOLEAN]

LogRow == [user : Users \cup {None}, tenant : Stamps, project : Projects \cup {None},
           node : Nodes \cup {None}]

\* What a key of the default partition or of none may be granted.
Eraser(permissions) == "data:erase" \in permissions => "tenant:switch" \in permissions

ASSUME NamesAssumption ==
    /\ None \notin Tenants \cup {Own} \cup Keys \cup KeyRow /\ Own \notin Tenants
    /\ \A p \in Parties : Bound[p] \in Stamps
    /\ \A p \in Parties : Roles[p] # None => Roles[p] \subseteq DOMAIN RolePermissions
    /\ DefaultProject \in Projects
    /\ IsFiniteSet(Keys)

ASSUME WorkloadsAssumption ==
    \A w \in Workloads :
        /\ w.headers \subseteq Tenants
        /\ \A permissions \in w.grants : permissions \subseteq Permission /\ Eraser(permissions)
        /\ DOMAIN w.rows = Keys
        /\ \A k \in Keys : w.rows[k] # None =>
             /\ w.rows[k] \in KeyRow
             /\ w.rows[k].secret \in 1 .. Cardinality({l \in Keys : w.rows[l] # None})
             /\ w.rows[k].tenant = Own => "tenant:switch" \notin w.rows[k].permissions
             /\ w.rows[k].tenant \notin Tenants => Eraser(w.rows[k].permissions)
        /\ \A p \in Parties :
             w.knows[p] \subseteq 1 .. Cardinality({l \in Keys : w.rows[l] # None})
        /\ \A p \in Confined, k \in Keys :
             w.rows[k] # None /\ w.rows[k].secret \in w.knows[p] => w.rows[k].tenant = Home(p)
        /\ w.records \subseteq LogRow
        /\ w.expiries \subseteq BOOLEAN

-----------------------------------------------------------------------------
(* A party acts when one of its admitted requests commits or ends.         *)
Acts(q) == request[q].at = "admitted" /\ request'[q] # request[q]

Changed(f, g) == {k \in DOMAIN f : f[k] # g[k]}
Partition(row) == Else(row.tenant, Own)

OnlyOwnSecrets ==
  \A p \in Confined : \A s \in knows[p] : \A k \in Keys :
    (keys[k] # None /\ keys[k].secret = s) => keys[k].tenant = Home(p)

OnlyOwnReads ==
  \A q \in Slots : request[q].at = "shown" => \A seen \in request[q].seen :
    /\ request[q].by \in Confined => seen.tenant = Home(request[q].by)
    /\ request[q].limits.project # None => seen.project \in {request[q].limits.project, None}

OnlyOwnEffects ==
  \A q \in Slots :
    Acts(q) /\ request[q].by \in Confined =>
      LET home == Home(request[q].by)
      IN /\ \A k \in Changed(keys, keys') : keys'[k].tenant = home
         /\ (paused \ paused') \cup (paused' \ paused) \cup (trail' \ trail) \subseteq {home}
         /\ \A row \in (records \ records') \cup (records' \ records) : Partition(row) = home

(* A call's row is in the project, of a user and at the node its key says. *)
KeysStayInScope ==
  \A q \in Slots : Acts(q) => \A row \in records' \ records :
    LET limits == request[q].limits
    IN /\ limits.project \in {None, row.project}
       /\ row.user # None /\ limits.users # {} => row.user \in limits.users
       /\ workload.hierarchical /\ row.user # None /\ limits.node # None => row.node = limits.node
       /\ row.node # None => NodeTenant[row.node] = row.tenant

(* Whatever keys it creates or rotates and whichever of them it uses to    *)
(* ask for more, an operator without tenant:switch stays in one partition: *)
(* every secret it is shown is that of a key of its partition, every row   *)
(* it reads is of its partition, and so is every key, pause switch, call,  *)
(* record and audit row that its requests change.  A key with a project,   *)
(* users or a budget node bills and reads nothing else, on any surface     *)
(* (authz/scope.ts:118-137, keys/repo.ts:150-162, db/requestLogScope.ts,   *)
(* chat/routing.ts:4-10).                                                  *)
OperatorsStayHome ==
  []OnlyOwnSecrets /\ []OnlyOwnReads /\ [][OnlyOwnEffects /\ KeysStayInScope]_gatewayVars

(* A secret that was rotated away, revoked or has expired is accepted by   *)
(* no replica longer than the cache's TTL after the lookup that accepted   *)
(* it, whatever is in flight; and once a replica neither accepts it nor    *)
(* has such a lookup in flight it never accepts it again                   *)
(* (keys/resolver.ts:5-9, docs/operations.md:183).                         *)
Accepts(r, s) == Fresh(r, s) /\ cache[r][s].key # None
Accepting(r, s) ==
  {q \in Slots : /\ request[q].at = "looked up"
                 /\ request[q].on = r /\ request[q].secret = s /\ request[q].answer # None}

LivesOn ==
  \A r \in Replicas, s \in Secrets : Dead(s) =>
    /\ Accepts(r, s) => gone[s] + cache[r][s].left <= Horizon
    /\ \A q \in Accepting(r, s) : gone[s] <= request[q].age

Buried(r, s) == Dead(s) /\ ~Accepts(r, s) /\ Accepting(r, s) = {}

DeadSecretsFade ==
  [][LivesOn' /\ \A r \in Replicas, s \in Secrets : Buried(r, s) => Buried(r, s)']_gatewayVars
==============================================================================
