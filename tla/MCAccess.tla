------------------------------ MODULE MCAccess -------------------------------
(***************************************************************************)
(* Three operators: root, an owner; admin, who holds a key of the tenant   *)
(* acme; clerk, whose login is bound to no tenant and may manage keys and  *)
(* pause calls.  A behaviour meets one of six workloads: sequences of key  *)
(* management; pauses, calls and erasures, with and without budget trees;  *)
(* reads; and, while time passes on two replicas, a key that is used,      *)
(* rotated and revoked, or that expires.                                   *)
(***************************************************************************)
EXTENDS DataPlane, TLC

CONSTANTS k1, k2, k3, a, b, q1, q2, root, admin, clerk, acme, own, user, guest,
          web, app, team, lab, hub

MCRoles == root :> {"owner"} @@ admin :> None @@ clerk :> {"keyAdmin", "policyAdmin"}
MCBound == root :> None @@ admin :> acme @@ clerk :> None
MCNodeTenant == team :> acme @@ lab :> acme @@ hub :> own

PlatformKey == NewKey(1, {"keys:admin", "tenant:switch"}, None, FALSE, Unlimited)

Row(u, tenant, project, node) == [user |-> u, tenant |-> tenant, project |-> project, node |-> node]

Logged == {Row(user, acme, web, team), Row(guest, acme, app, None), Row(user, None, web, None),
           Row(None, acme, web, None)}

\* Work on one replica, one request at a time, with admin's key as given.
Worked(tries, grants, permissions, limits, rows, hierarchical, reads) ==
  [parties |-> {root, admin, clerk}, requests |-> {q1}, replicas |-> {a}, headers |-> {acme},
   rows |-> k1 :> PlatformKey @@ k2 :> NewKey(2, permissions, acme, FALSE, limits) @@ k3 :> None,
   knows |-> root :> {} @@ admin :> {2} @@ clerk :> {}, records |-> rows,
   tries |-> tries, grants |-> grants, expiries |-> {FALSE}, secrets |-> MaxSecrets,
   hierarchical |-> hierarchical, reads |-> reads, ticks |-> FALSE]

Managed ==
  Worked({"keys:admin"}, {{"chat:create"}, {"keys:admin"}, {"keys:admin", "tenant:switch"}},
         {"chat:create", "keys:admin"}, Unlimited, {}, FALSE, FALSE)

Billed(tries, limits, hierarchical) == Worked(tries, {}, tries, limits, {}, hierarchical, TRUE)

Read ==
  [Worked({"requests:read", "usage:read", "audit:read", "data:erase", "keys:admin"}, {},
          {"requests:read", "usage:read", "audit:read", "data:erase", "keys:admin"},
          [project |-> web, users |-> {user}, node |-> None], Logged, FALSE, TRUE)
   EXCEPT !.secrets = 2]

Timed(tries, expires) ==
  [parties |-> {root}, requests |-> {q1, q2}, replicas |-> {a, b}, headers |-> {},
   rows |-> k1 :> NewKey(1, {"chat:create"}, acme, expires, Unlimited) @@ k2 :> None @@ k3 :> None,
   knows |-> root :> {1} @@ admin :> {} @@ clerk :> {}, records |-> {},
   tries |-> tries, grants |-> {}, expiries |-> {}, secrets |-> 2,
   hierarchical |-> FALSE, reads |-> FALSE, ticks |-> TRUE]

MCWorkloads ==
  {Managed,
   Billed({"chat:create", "usage:write", "data:erase"},
          [project |-> web, users |-> {user}, node |-> team], TRUE),
   Billed({"chat:create", "policy:write"}, [project |-> None, users |-> {user}, node |-> team], FALSE),
   Read,
   Timed({"keys:admin"}, FALSE),
   Timed({}, TRUE)}
==============================================================================
