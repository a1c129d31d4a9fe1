---------------------------- MODULE PolicyStore ----------------------------
(***************************************************************************)
(* The policy store of one tenant: the rows of config_versions, the        *)
(* operators who save and review versions, and the calls that activate     *)
(* one.  An activation is a transaction of several statements under READ   *)
(* COMMITTED, modelled statement by statement: two of them interleave, and *)
(* only the row locks, the per-tenant unique index on the active row and   *)
(* the advisory lock of the audit log keep them apart.  Saves and reviews  *)
(* hold one row and then the audit lock, so each is one action.            *)
(***************************************************************************)
EXTENDS Integers, Sequences, FiniteSets

CONSTANTS
    Versions,
    Operators,
    Identity,   \* Identity[o]: the stable identity of o
    Names,      \* Names[o]: that and the display name
    Author,     \* Author[v]: who saves version v
    Calls,      \* calls of activateConfigVersion
    Target,     \* Target[c]: the version call c activates
    Nobody,
    BootFields, \* BootFields[v]: what v says of the fields that only a boot applies
    Priced,     \* the versions that price all their models
    Replicas    \* what the replicas were started with

ASSUME StoreShape ==
    /\ IsFiniteSet(Versions)
    /\ Author \in [Versions -> Operators]
    /\ Target \in [Calls -> Versions]
    /\ \A o \in Operators : Identity[o] \in Names[o]
    /\ \A r \in Replicas : {r.approvalRequired, r.hotReload, r.strictPricing} \subseteq BOOLEAN
ASSUME NobodyAssumption == Nobody \notin Calls \cup UNION {Names[o] : o \in Operators}

VARIABLES
    status,     \* status[v], "absent" before it is saved
    proposer,   \* proposer[v]: proposed_by, an identity
    reviewer,   \* reviewer[v]: reviewed_by, an identity
    active,     \* the committed rows with active = true
    chain,      \* admin_audit_log: what was done, and the row it was hashed over
    owner,      \* owner[v]: the call that has the row locked
    auditor,    \* the call that holds the audit log's advisory lock
    pc,         \* where each call is
    strict,     \* strict[c]: requireReviewed of call c
    seen,       \* seen[c]: the active rows in the snapshot of its first UPDATE
    off,        \* off[c]: the rows it deactivated
    prev        \* prev[c]: the last audit row it read

rows  == <<status, proposer, reviewer, active>>
locks == <<owner, auditor>>
calls == <<pc, strict, seen, off, prev>>
storeVars  == <<rows, chain, locks, calls>>

Status  == {"absent", "proposed", "approved", "rejected"}
Writing == {"set", "audited"}
Open    == {"locked", "clearing", "cleared"} \cup Writing
Answered   == {"refused", "conflict", "failed", "done", "unsure"}
Actions == {"save", "approve", "reject", "activate"}

Goto(c, s) == pc' = [pc EXCEPT ![c] = s]
Unlock(c) ==
    /\ owner' = [v \in Versions |-> IF owner[v] = c THEN Nobody ELSE owner[v]]
    /\ auditor' = IF auditor = c THEN Nobody ELSE auditor
(* appendAuditInTransaction of a transaction that commits at once.         *)
Audited(act, v) ==
    /\ auditor = Nobody
    /\ chain' = Append(chain, [act |-> act, of |-> v, prev |-> Len(chain)])

-----------------------------------------------------------------------------
StoreInit ==
    /\ status   = [v \in Versions |-> "absent"]
    /\ proposer = [v \in Versions |-> Nobody]
    /\ reviewer = [v \in Versions |-> Nobody]
    /\ active   = {}
    /\ chain    = <<>>
    /\ owner    = [v \in Versions |-> Nobody]
    /\ auditor  = Nobody
    /\ pc       = [c \in Calls |-> "new"]
    /\ strict   = [c \in Calls |-> FALSE]
    /\ seen     = [c \in Calls |-> {}]
    /\ off      = [c \in Calls |-> {}]
    /\ prev     = [c \in Calls |-> 0]

(* parseConfig with the replica's STRICT_PRICING.                          *)
Parses(v, r) == r.strictPricing => v \in Priced

(* saveConfigVersion: proposed by its author under the two-person rule,    *)
(* born approved without it.                                               *)
SaveConfigVersion(v, r, author) ==
    /\ status[v] = "absent"
    /\ Parses(v, r)
    /\ Audited("save", v)
    /\ status'   = [status EXCEPT ![v] = IF r.approvalRequired THEN "proposed" ELSE "approved"]
    /\ proposer' = [proposer EXCEPT ![v] = IF r.approvalRequired THEN author ELSE Nobody]
    /\ UNCHANGED <<reviewer, active, locks, calls>>

(* The route stores the author's stable identity; proposals of the time    *)
(* before that have the display name.                                      *)
Save(v, r) == \E author \in Names[Author[v]] : SaveConfigVersion(v, r, author)

(* Mutant: the stable identity is compared, and not the name.              *)
MayApproveRenamed(v, o) == proposer[v] # Identity[o]

(* The self-approval check, by every identity the reviewer has.            *)
MayApprove(v, o) == proposer[v] \notin Names[o]

(* reviewConfigVersion: a proposal is decided once; an author may withdraw *)
(* it and not approve it.                                                  *)
Review(v, o, decision) ==
    /\ status[v] = "proposed"
    /\ owner[v] = Nobody
    /\ decision = "approved" => MayApprove(v, o)
    /\ Audited(IF decision = "approved" THEN "approve" ELSE "reject", v)
    /\ status'   = [status EXCEPT ![v] = decision]
    /\ reviewer' = [reviewer EXCEPT ![v] = Identity[o]]
    /\ UNCHANGED <<proposer, active, locks, calls>>

-----------------------------------------------------------------------------
(* Mutant: approved is enough, reviewed or not.                            *)
MayActivateUnreviewed(v, r) == status[v] = "approved"

(* Where policies are reloaded without a restart, a version that changes   *)
(* what only a boot applies would be applied by half.                      *)
FrozenGuard(v, r) == r.hotReload => BootFields[v] = r.bootFields

(* Only an approved version may go live, under the rule only one that a    *)
(* review approved.                                                        *)
MayActivate(v, r) ==
    /\ status[v] = "approved"
    /\ r.approvalRequired => reviewer[v] # Nobody
    /\ Parses(v, r)
    /\ FrozenGuard(v, r)

(* activateConfigVersion, SELECT ... FOR UPDATE and the checks after it.   *)
Lock(c, r) ==
    /\ pc[c] = "new"
    /\ owner[Target[c]] = Nobody
    /\ MayActivate(Target[c], r)
    /\ owner'  = [owner EXCEPT ![Target[c]] = c]
    /\ strict' = [strict EXCEPT ![c] = r.approvalRequired]
    /\ Goto(c, "locked")
    /\ UNCHANGED <<rows, chain, auditor, seen, off, prev>>

(* ... which refuse it: 404, 409 or 400.                                   *)
RefuseActivation(c, r) ==
    /\ pc[c] = "new"
    /\ owner[Target[c]] = Nobody
    /\ ~MayActivate(Target[c], r)
    /\ Goto(c, "refused")
    /\ UNCHANGED <<rows, chain, locks, strict, seen, off, prev>>

(* UPDATE ... SET active = false WHERE active: the statement's snapshot... *)
Snapshot(c) ==
    /\ pc[c] = "locked"
    /\ seen' = [seen EXCEPT ![c] = active]
    /\ Goto(c, "clearing")
    /\ UNCHANGED <<rows, chain, locks, strict, off, prev>>

(* ... and, when it has the row locks, the rows that are active still.     *)
Deactivate(c) ==
    /\ pc[c] = "clearing"
    /\ \A v \in seen[c] : owner[v] \in {Nobody, c}
    /\ off'   = [off EXCEPT ![c] = seen[c] \cap active]
    /\ owner' = [v \in Versions |-> IF v \in off'[c] THEN c ELSE owner[v]]
    /\ Goto(c, "cleared")
    /\ UNCHANGED <<rows, chain, auditor, strict, seen, prev>>

(* The unique index: an entry that is committed and not being removed      *)
(* collides; one that another transaction is writing or removing is waited *)
(* for.                                                                    *)
Entries(c)  == active \ (off[c] \cup {Target[c]})
Removing(v) == \E d \in Calls : pc[d] \in Open /\ v \in off[d]
InDoubt(c)  ==
    \/ \E d \in Calls \ {c} : pc[d] \in Writing
    \/ \E v \in Entries(c) : Removing(v)

(* UPDATE ... SET active = true on the target.                             *)
Set(c) ==
    /\ pc[c] = "cleared"
    /\ ~InDoubt(c)
    /\ Entries(c) = {}
    /\ Goto(c, "set")
    /\ UNCHANGED <<rows, chain, locks, strict, seen, off, prev>>

(* Mutant: 23505 is waited out instead of being reported.                  *)
ConflictIgnored(c) == FALSE /\ UNCHANGED storeVars
(* 23505 from the index: rolled back and answered with 409.                *)
Conflict(c) ==
    /\ pc[c] = "cleared"
    /\ ~InDoubt(c)
    /\ Entries(c) # {}
    /\ Unlock(c)
    /\ Goto(c, "conflict")
    /\ UNCHANGED <<rows, chain, strict, seen, off, prev>>

(* Mutant: the last row is read without the advisory lock.                 *)
AuditUnlocked(c) ==
    /\ pc[c] = "set"
    /\ prev' = [prev EXCEPT ![c] = Len(chain)]
    /\ Goto(c, "audited")
    /\ UNCHANGED <<rows, chain, locks, strict, seen, off>>
(* appendAuditInTransaction: the advisory lock, then the last row's hash.  *)
Audit(c) ==
    /\ pc[c] = "set"
    /\ auditor = Nobody
    /\ auditor' = c
    /\ prev' = [prev EXCEPT ![c] = Len(chain)]
    /\ Goto(c, "audited")
    /\ UNCHANGED <<rows, chain, owner, strict, seen, off>>

(* COMMIT; its answer may be lost.                                         *)
CommitActivation(c, answered) ==
    /\ pc[c] = "audited"
    /\ active' = (active \ off[c]) \cup {Target[c]}
    /\ chain'  = Append(chain, [act |-> "activate", of |-> Target[c], prev |-> prev[c]])
    /\ Unlock(c)
    /\ Goto(c, IF answered THEN "done" ELSE "unsure")
    /\ UNCHANGED <<status, proposer, reviewer, strict, seen, off, prev>>

(* A statement fails or the session dies: everything is rolled back.       *)
Abort(c) ==
    /\ pc[c] \in Open
    /\ Unlock(c)
    /\ Goto(c, "failed")
    /\ UNCHANGED <<rows, chain, strict, seen, off, prev>>

Step(c) ==
    \/ \E r \in Replicas : Lock(c, r) \/ RefuseActivation(c, r)
    \/ Snapshot(c) \/ Deactivate(c) \/ Set(c) \/ Conflict(c) \/ Audit(c)
    \/ \E answered \in BOOLEAN : CommitActivation(c, answered)

StoreNext ==
    \/ \E v \in Versions :
        \/ \E r \in Replicas : Save(v, r)
        \/ \E o \in Operators, d \in {"approved", "rejected"} : Review(v, o, d)
    \/ \E c \in Calls : Step(c) \/ Abort(c)

StoreSpec == StoreInit /\ [][StoreNext]_storeVars

(* A statement that is not waiting for a lock ends.                        *)
StoreFairness == \A c \in Calls : WF_storeVars(Step(c) /\ pc[c] # "new")

FairStoreSpec == StoreSpec /\ StoreFairness

-----------------------------------------------------------------------------
(* Each variable holds a value of its kind, and a lock is held by a        *)
(* transaction that is open.                                               *)
StoreTypeOK ==
    /\ status \in [Versions -> Status]
    /\ \A v \in Versions :
        {proposer[v], reviewer[v]} \subseteq {Nobody} \cup UNION {Names[o] : o \in Operators}
    /\ active \subseteq Versions
    /\ \A i \in 1 .. Len(chain) :
        chain[i] \in [act : Actions, of : Versions, prev : Nat]
    /\ owner \in [Versions -> Calls \cup {Nobody}]
    /\ auditor \in Calls \cup {Nobody}
    /\ \A c \in Calls :
        (auditor = c \/ \E v \in Versions : owner[v] = c) => pc[c] \in Open
    /\ pc \in [Calls -> {"new"} \cup Open \cup Answered]
    /\ strict \in [Calls -> BOOLEAN]
    /\ seen \in [Calls -> SUBSET Versions] /\ off \in [Calls -> SUBSET Versions]
    /\ prev \in [Calls -> Nat]

(* However activations interleave, abort or lose their answer, one version *)
(* at most is active (activateConfigVersion, policy/repo.ts:219-221), and  *)
(* with the first activation there always is one.                          *)
Activations  == {i \in 1 .. Len(chain) : chain[i].act = "activate"}
SingleActive ==
    /\ \A v, w \in active : v = w
    /\ Activations # {} => active # {}

(* The last activation in the audit log is the version that is active: the *)
(* log is written in the order in which activations take effect.           *)
AuditTellsActive ==
    \A i \in Activations :
        (\A j \in Activations : j <= i) => active = {chain[i].of}

(* Each audit row is hashed over the one before it, whatever commits in    *)
(* between: the chain has no fork and no gap (audit/repo.ts:105-107).      *)
ChainIsLinear == \A i \in 1 .. Len(chain) : chain[i].prev = i - 1

(* One version is active, the one a log without forks names last.          *)
ActiveIsAudited == StoreTypeOK /\ SingleActive /\ AuditTellsActive /\ ChainIsLinear

(* Under the two-person rule a version that is being activated was         *)
(* approved by somebody who is not its author, even if it was saved or     *)
(* reviewed by a replica that runs without the rule, or was proposed under *)
(* another of the author's names (policy/repo.ts:343-350).                 *)
TwoPersons ==
    \A c \in Calls :
        strict[c] /\ pc[c] \in Open \cup {"done", "unsure"} =>
            reviewer[Target[c]] \notin {Nobody} \cup Names[Author[Target[c]]]

(* What is active was approved and stays so: no review reaches it later.   *)
ActiveIsApproved == \A v \in active : status[v] = "approved"

(* What is active, or is about to be, passed the approvals it needed.      *)
Approved == TwoPersons /\ ActiveIsApproved

(* Activations never wait for each other in a circle: one that has begun   *)
(* ends, if only with a conflict.                                          *)
CallsEnd == \A c \in Calls : pc[c] \in Open ~> pc[c] \in Answered
=============================================================================
