---------------------------- MODULE PolicyProofs ----------------------------
(***************************************************************************)
(* Proofs about policies, for any versions, operators and replicas: one    *)
(* replica's cache and its listener, whatever the clients, the loads, the  *)
(* time to live and the activations; and the store the policies come from. *)
(* Each is a specification of its own, and the two are never composed: to  *)
(* a cache the store is the number of its last activation.                 *)
(***************************************************************************)
EXTENDS PolicyReplica, PolicyStore, TLAPS

-----------------------------------------------------------------------------
(* The listener.  Nothing of the cache enters into it.                     *)
ListenerInv == ListenerTypes /\ InOnePlace /\ StopIsFinal

LEMMA InitListener == ListenerInit => ListenerInv
  BY ListenerShape
  DEF ListenerInit, ListenerInv, ListenerTypes, InOnePlace, StopIsFinal

(* No callback, dropped connection or stop() breaks it.                    *)
LEMMA ListenerCallback ==
    ASSUME ListenerInv, NEW c \in Clients, Callback(c) \/ Drop(c) \/ Stop
    PROVE  ListenerInv'
<1> USE ListenerShape
    DEF ListenerInv, ListenerTypes, InOnePlace, StopIsFinal, Teardown
<1>1. CASE Reconnect(c)
  BY <1>1 DEF Reconnect, Unused
<1>2. CASE Connected(c)
  BY <1>2 DEF Connected
<1>3. CASE ConnectRejects(c)
  <2>1. CASE stopped
    BY <1>3, <2>1 DEF ConnectRejects
  <2>2. CASE ~stopped /\ client = c
    BY <1>3, <2>2 DEF ConnectRejects
  <2>3. CASE ~stopped /\ client # c
    BY <1>3, <2>3 DEF ConnectRejects
  <2> QED  BY <2>1, <2>2, <2>3
<1>4. CASE DropEvent(c)
  BY <1>4 DEF DropEvent
<1>5. CASE Closed(c)
  BY <1>5 DEF Closed
<1>6. CASE Drop(c)
  BY <1>6 DEF Drop
<1>7. CASE Stop
  BY <1>7 DEF Stop
<1> QED  BY <1>1, <1>2, <1>3, <1>4, <1>5, <1>6, <1>7 DEF Callback

-----------------------------------------------------------------------------
(* The cache.  What its entry has read is no older than what the replica   *)
(* was told of, and was replaced no longer ago than the entry was sent; a  *)
(* load that was sent when there was a good policy reads a real version.   *)
EntryInv ==
    entry # NoLoad =>
        /\ stage[entry] = "sent" => saw[entry] = -1 /\ stale = 0
        /\ saw[entry] >= 0 => saw[entry] >= told
        /\ stale <= age
        /\ known # 0 => lastGood # 0 /\ saw[entry] # 0
CacheInv == CacheTypes /\ EntryInv /\ FallbackIsBoot

LEMMA InitCache == CacheInit => CacheInv
<1> SUFFICES ASSUME CacheInit PROVE CacheInv
  OBVIOUS
<1> USE CacheShape DEF CacheInit
<1>1. stage \in [Loads -> {"idle", "sent", "read", "settled"}]
  OBVIOUS
<1>2. saw \in [Loads -> -1 .. epoch]
  OBVIOUS
<1>3. CacheTypes
  BY <1>1, <1>2 DEF CacheTypes
<1>4. EntryInv /\ FallbackIsBoot
  BY DEF EntryInv, FallbackIsBoot, Settled
<1> QED  BY <1>3, <1>4 DEF CacheInv

(* What is left of the loads when the cache lets go of its entry.          *)
LEMMA LetGoLoads ==
    ASSUME CacheTypes
    PROVE  /\ LetGo(stage, "idle") \in [Loads -> {"idle", "sent", "read"}]
           /\ LetGo(saw, -1) \in [Loads -> -1 .. epoch]
           /\ \A l \in Loads :
                 /\ stage[l] = "idle" => LetGo(stage, "idle")[l] = "idle"
                 /\ LetGo(stage, "idle")[l] = "idle" => LetGo(saw, -1)[l] = -1
                 /\ LetGo(stage, "idle")[l] = "read" => LetGo(saw, -1)[l] # -1
<1>1. /\ stage \in [Loads -> {"idle", "sent", "read", "settled"}]
      /\ \A l \in Loads : stage[l] = "settled" => l = entry /\ entry # NoLoad
  BY CacheShape DEF CacheTypes
<1>2. /\ epoch \in Nat /\ saw \in [Loads -> -1 .. epoch]
      /\ \A l \in Loads : /\ stage[l] = "idle" => saw[l] = -1
                          /\ stage[l] = "read" => saw[l] # -1
  BY CacheShape DEF CacheTypes
<1>3. CASE Settled
  <2>1. entry \in Loads
    BY <1>3 DEF Settled, CacheTypes
  <2>2. \A l \in Loads : LetGo(stage, "idle")[l] = IF l = entry THEN "idle" ELSE stage[l]
    BY <1>1, <1>3 DEF LetGo
  <2>3. \A l \in Loads : LetGo(saw, -1)[l] = IF l = entry THEN -1 ELSE saw[l]
    BY <1>2, <1>3 DEF LetGo
  <2>4. LetGo(stage, "idle") \in [Loads -> {"idle", "sent", "read"}]
    <3>1. \A l \in Loads : LetGo(stage, "idle")[l] \in {"idle", "sent", "read"}
      <4>1. TAKE l \in Loads
      <4>2. CASE l = entry
        BY <2>2, <4>2
      <4>3. CASE l # entry
        <5>1. stage[l] # "settled"
          BY <1>1, <4>3
        <5>2. stage[l] \in {"idle", "sent", "read", "settled"}
          BY <1>1
        <5> QED  BY <2>2, <4>3, <5>1, <5>2
      <4> QED  BY <4>2, <4>3
    <3>2. LetGo(stage, "idle") = [l \in Loads |-> LetGo(stage, "idle")[l]]
      BY <1>1, <1>3 DEF LetGo
    <3> QED  BY <3>1, <3>2
  <2>5. LetGo(saw, -1) \in [Loads -> -1 .. epoch]
    <3>1. \A l \in Loads : LetGo(saw, -1)[l] \in -1 .. epoch
      BY <1>2, <2>3
    <3>2. LetGo(saw, -1) = [l \in Loads |-> LetGo(saw, -1)[l]]
      BY <1>2, <1>3 DEF LetGo
    <3> QED  BY <3>1, <3>2
  <2> QED  BY <1>2, <2>2, <2>3, <2>4, <2>5
<1>4. CASE ~Settled
  <2>1. LetGo(stage, "idle") = stage /\ LetGo(saw, -1) = saw
    BY <1>4 DEF LetGo
  <2>2. \A l \in Loads : stage[l] # "settled"
    BY <1>1, <1>4 DEF Settled
  <2>3. stage \in [Loads -> {"idle", "sent", "read"}]
    <3>1. \A l \in Loads : stage[l] \in {"idle", "sent", "read"}
      BY <1>1, <2>2
    <3> QED  BY <1>1, <3>1
  <2> QED  BY <1>2, <2>1, <2>3
<1> QED  BY <1>3, <1>4

(* A miss starts a load that is cached before it has read anything.        *)
LEMMA StartKept ==
    ASSUME CacheInv, NEW l \in Loads, StartLoad(l)
    PROVE  CacheInv'
<1> USE CacheShape DEF CacheInv, StartLoad, Hold
<1>1. /\ stage' \in [Loads -> {"idle", "sent", "read", "settled"}]
      /\ stage'[l] = "sent"
      /\ \A m \in Loads : stage'[m] # "settled"
  BY LetGoLoads
<1>2. saw' \in [Loads -> -1 .. epoch] /\ saw'[l] = -1
  BY LetGoLoads
<1>3. \A m \in Loads : /\ stage'[m] = "idle" => saw'[m] = -1
                       /\ stage'[m] = "read" => saw'[m] # -1
  BY LetGoLoads
<1>4. CacheTypes'
  BY <1>1, <1>2, <1>3 DEF CacheTypes, store
<1>5. EntryInv' /\ FallbackIsBoot'
  BY <1>1, <1>2 DEF EntryInv, FallbackIsBoot, Settled, CacheTypes
<1> QED  BY <1>4, <1>5

LEMMA InvalidateKept ==
    ASSUME CacheInv, NEW e \in 0 .. epoch, Invalidate(e)
    PROVE  CacheInv'
<1> USE CacheShape DEF CacheInv, Invalidate, Hold
<1>1. CacheTypes'
  <2>1. stage' \in [Loads -> {"idle", "sent", "read", "settled"}]
    BY LetGoLoads
  <2>2. saw' \in [Loads -> -1 .. epoch] /\ \A l \in Loads : stage'[l] # "settled"
    BY LetGoLoads
  <2>3. \A l \in Loads : /\ stage'[l] = "idle" => saw'[l] = -1
                         /\ stage'[l] = "read" => saw'[l] # -1
    BY LetGoLoads
  <2> QED  BY <2>1, <2>2, <2>3 DEF CacheTypes, store
<1>2. EntryInv' /\ FallbackIsBoot'
  BY DEF EntryInv, FallbackIsBoot, Settled
<1> QED  BY <1>1, <1>2

LEMMA StoreReadsKept ==
    ASSUME CacheInv, NEW l \in Loads, StoreReads(l)
    PROVE  CacheInv'
<1> USE CacheShape DEF CacheInv, StoreReads, held, store
<1>1. CacheTypes'
  BY DEF CacheTypes
<1>2. EntryInv'
  BY DEF EntryInv, CacheTypes
<1>3. FallbackIsBoot'
  BY DEF FallbackIsBoot, Settled, CacheTypes
<1> QED  BY <1>1, <1>2, <1>3

(* Three ways for a load to end.                                           *)
LEMMA LoadedKept ==
    ASSUME CacheInv, NEW l \in Loads, Loaded(l)
    PROVE  CacheInv'
<1> USE CacheShape DEF CacheInv, Loaded, Resolves, Done, store
<1>1. CASE l = entry
  <2>1. CacheTypes'
    <3>1. stage' \in [Loads -> {"idle", "sent", "read", "settled"}]
      BY <1>1 DEF CacheTypes
    <3>2. gives' \in 0 .. epoch
      BY <1>1 DEF CacheTypes
    <3> QED  BY <1>1, <3>1, <3>2 DEF CacheTypes
  <2>2. EntryInv' /\ FallbackIsBoot'
    BY <1>1 DEF EntryInv, FallbackIsBoot, Settled, CacheTypes
  <2> QED  BY <2>1, <2>2
<1>2. CASE l # entry
  <2>1. CacheTypes'
    <3>1. stage' \in [Loads -> {"idle", "sent", "read", "settled"}]
      BY <1>2 DEF CacheTypes
    <3>2. saw' \in [Loads -> -1 .. epoch]
      BY <1>2 DEF CacheTypes
    <3> QED  BY <1>2, <3>1, <3>2 DEF CacheTypes
  <2>2. EntryInv' /\ FallbackIsBoot'
    BY <1>2 DEF EntryInv, FallbackIsBoot, Settled, CacheTypes
  <2> QED  BY <2>1, <2>2
<1> QED  BY <1>1, <1>2

LEMMA UnparseableKept ==
    ASSUME CacheInv, NEW l \in Loads, Unparseable(l)
    PROVE  CacheInv'
<1> USE CacheShape DEF CacheInv, Unparseable, Resolves, Done, store
<1>1. CASE l = entry
  <2>1. CacheTypes'
    <3>1. stage' \in [Loads -> {"idle", "sent", "read", "settled"}]
      BY <1>1 DEF CacheTypes
    <3>2. gives' \in 0 .. epoch
      BY <1>1 DEF CacheTypes
    <3> QED  BY <1>1, <3>1, <3>2 DEF CacheTypes
  <2>2. EntryInv' /\ FallbackIsBoot'
    BY <1>1 DEF EntryInv, FallbackIsBoot, Settled, CacheTypes
  <2> QED  BY <2>1, <2>2
<1>2. CASE l # entry
  <2>1. CacheTypes'
    <3>1. stage' \in [Loads -> {"idle", "sent", "read", "settled"}]
      BY <1>2 DEF CacheTypes
    <3>2. saw' \in [Loads -> -1 .. epoch]
      BY <1>2 DEF CacheTypes
    <3> QED  BY <1>2, <3>1, <3>2 DEF CacheTypes
  <2>2. EntryInv' /\ FallbackIsBoot'
    BY <1>2 DEF EntryInv, FallbackIsBoot, Settled, CacheTypes
  <2> QED  BY <2>1, <2>2
<1> QED  BY <1>1, <1>2

LEMMA ReadFailsKept ==
    ASSUME CacheInv, NEW l \in Loads, ReadFails(l)
    PROVE  CacheInv'
<1> USE CacheShape DEF CacheInv, ReadFails, Resolves, Done, Hold, held, store
<1>1. CASE l = entry
  <2>1. CacheTypes'
    <3>1. stage' \in [Loads -> {"idle", "sent", "read", "settled"}]
      BY <1>1 DEF CacheTypes
    <3>2. gives' \in 0 .. epoch
      BY <1>1 DEF CacheTypes
    <3> QED  BY <1>1, <3>1, <3>2 DEF CacheTypes
  <2>2. EntryInv' /\ FallbackIsBoot'
    BY <1>1 DEF EntryInv, FallbackIsBoot, Settled, CacheTypes
  <2> QED  BY <2>1, <2>2
<1>2. CASE l # entry
  <2>1. CacheTypes'
    <3>1. stage' \in [Loads -> {"idle", "sent", "read", "settled"}]
      BY <1>2 DEF CacheTypes
    <3>2. saw' \in [Loads -> -1 .. epoch]
      BY <1>2 DEF CacheTypes
    <3> QED  BY <1>2, <3>1, <3>2 DEF CacheTypes
  <2>2. EntryInv' /\ FallbackIsBoot'
    BY <1>2 DEF EntryInv, FallbackIsBoot, Settled, CacheTypes
  <2> QED  BY <2>1, <2>2
<1> QED  BY <1>1, <1>2

LEMMA CommitKept ==
    ASSUME CacheInv, NEW parses \in BOOLEAN, Commit(parses)
    PROVE  CacheInv'
<1> USE CacheShape DEF CacheInv, Commit, held
<1>1. CacheTypes'
  BY DEF CacheTypes
<1>2. EntryInv' /\ FallbackIsBoot'
  BY DEF EntryInv, FallbackIsBoot, Settled, CacheTypes
<1> QED  BY <1>1, <1>2

LEMMA TickKept ==
    ASSUME CacheInv, Tick
    PROVE  CacheInv'
<1> USE CacheShape DEF CacheInv, Tick, Later, store
<1>1. CacheTypes'
  BY DEF CacheTypes
<1>2. EntryInv' /\ FallbackIsBoot'
  BY DEF EntryInv, FallbackIsBoot, Settled, CacheTypes
<1> QED  BY <1>1, <1>2

-----------------------------------------------------------------------------
(* The replica.  A client without a connection has nothing on its way to   *)
(* it, and what is on its way was committed.                               *)
InboxInv ==
    /\ inbox \in [Clients -> Seq(Nat)]
    /\ \A c \in Clients : ~Up(c) => inbox[c] = <<>>
    /\ \A c \in Clients : \A i \in 1 .. Len(inbox[c]) : inbox[c][i] <= epoch
IInv == ListenerInv /\ CacheInv /\ InboxInv

LEMMA ReplicaInit == Init => IInv
<1> SUFFICES ASSUME Init PROVE InboxInv
  BY InitListener, InitCache DEF Init, IInv
<1> QED  BY DEF Init, InboxInv

LEMMA ReplicaStep == IInv /\ [Next]_vars => IInv'
<1> SUFFICES ASSUME IInv, [Next]_vars PROVE IInv'
  OBVIOUS
<1>1. ASSUME ListenerStep PROVE IInv'
  <2>1. ListenerInv'
    BY <1>1, ListenerCallback, ListenerShape DEF ListenerStep, IInv
  <2>2. CacheInv'
    BY <1>1 DEF ListenerStep, IInv, cache, store, held, CacheInv, CacheTypes, EntryInv,
                FallbackIsBoot, Settled
  <2>3. InboxInv'
    BY <1>1 DEF ListenerStep, Delivered, IInv, InboxInv, Up, cache, store
  <2> QED  BY <2>1, <2>2, <2>3 DEF IInv
<1>2. ASSUME Serving, Tick \/ \E l \in Loads : StartLoad(l) \/ LoadStep(l)
      PROVE  IInv'
  <2>1. CacheInv'
    BY <1>2, TickKept, StartKept, StoreReadsKept, LoadedKept, UnparseableKept, ReadFailsKept
    DEF IInv, LoadStep
  <2>2. UNCHANGED epoch
    BY <1>2 DEF Tick, StartLoad, LoadStep, StoreReads, Loaded, Unparseable, ReadFails, store
  <2>3. ListenerInv'
    BY <1>2 DEF Serving, IInv, listener, ListenerInv, ListenerTypes, InOnePlace, StopIsFinal
  <2>4. InboxInv'
    BY <1>2, <2>2 DEF Serving, IInv, listener, InboxInv, Up
  <2> QED  BY <2>1, <2>3, <2>4 DEF IInv
<1>3. ASSUME NEW parses \in BOOLEAN, Activate(parses) PROVE IInv'
  <2>1. CacheInv'
    BY <1>3, CommitKept DEF IInv, Activate
  <2>2. ListenerInv'
    BY <1>3 DEF Activate, IInv, listener, ListenerInv, ListenerTypes, InOnePlace, StopIsFinal
  <2>3. epoch \in Nat /\ epoch' = epoch + 1
    BY <1>3, CacheShape DEF Activate, Commit, IInv, CacheInv, CacheTypes
  <2>4. InboxInv'
    BY <1>3, <2>3 DEF Activate, IInv, listener, InboxInv, Up
  <2> QED  BY <2>1, <2>2, <2>4 DEF IInv
<1>4. ASSUME NEW e \in Epochs, Returns(e) PROVE IInv'
  <2>1. CacheInv'
    BY <1>4, InvalidateKept, CacheShape DEF IInv, Returns, Epochs, CacheInv, CacheTypes
  <2>2. ListenerInv'
    BY <1>4 DEF Returns, IInv, listener, ListenerInv, ListenerTypes, InOnePlace, StopIsFinal
  <2>3. InboxInv'
    BY <1>4 DEF Returns, Invalidate, store, IInv, listener, InboxInv, Up
  <2> QED  BY <2>1, <2>2, <2>3 DEF IInv
<1>5. ASSUME NEW c \in Clients, Notified(c) PROVE IInv'
  <2>1. inbox[c] \in Seq(Nat) /\ inbox[c] # <<>>
    BY <1>5 DEF Notified, IInv, InboxInv
  <2>2. Head(inbox[c]) \in 0 .. epoch
    BY <2>1, CacheShape DEF IInv, InboxInv, CacheInv, CacheTypes
  <2>3. CacheInv'
    BY <1>5, <2>2, InvalidateKept DEF IInv, Notified
  <2>4. ListenerInv'
    BY <1>5 DEF Notified, IInv, listener, ListenerInv, ListenerTypes, InOnePlace, StopIsFinal
  <2>5. InboxInv'
    BY <1>5, <2>1 DEF Notified, Invalidate, store, IInv, listener, InboxInv, Up
  <2> QED  BY <2>3, <2>4, <2>5 DEF IInv
<1>6. CASE UNCHANGED vars
  BY <1>6
  DEF vars, listener, cache, store, held, IInv, ListenerInv, ListenerTypes, InOnePlace,
      StopIsFinal, CacheInv, CacheTypes, EntryInv, FallbackIsBoot, Settled, InboxInv, Up
<1> QED  BY <1>1, <1>2, <1>3, <1>4, <1>5, <1>6 DEF Next, Elapse, Miss, Goes

LEMMA ReplicaInv == Spec => []IInv
  BY ReplicaInit, ReplicaStep, PTL DEF Spec

-----------------------------------------------------------------------------
(* Each variable of the replica always holds a value of its kind.          *)
THEOREM TypeCorrect == Spec => []TypeOK
<1>1. IInv => TypeOK
  BY DEF IInv, ListenerInv, CacheInv, InboxInv, TypeOK
<1> QED  BY <1>1, ReplicaInv, PTL

(* Callbacks of old and new clients, in any order, leave the listener with *)
(* one connection or one reconnect, and with neither after stop().         *)
THEOREM ListenerIsOne == Spec => []OneListener
<1>1. IInv => OneListener
  BY DEF IInv, ListenerInv, OneListener
<1> QED  BY <1>1, ReplicaInv, PTL

(* No request is given a version older than what its replica was told of,  *)
(* or replaced for the time to live, whatever becomes of the loads and the *)
(* listener.                                                               *)
THEOREM CacheStaysCurrent == Spec => []CacheIsCurrent
<1>1. IInv => CacheIsCurrent
  BY CacheShape
  DEF IInv, CacheInv, CacheTypes, EntryInv, CacheIsCurrent, ToldIsServed, WithinTTL,
      Serves, Fresh, FromStore
<1> QED  BY <1>1, ReplicaInv, PTL

(* Failing reads and unreadable versions never put the boot fallback in    *)
(* place of a policy the tenant had.                                       *)
THEOREM FallbackOnlyAtBoot == Spec => []FallbackIsBoot
<1>1. IInv => FallbackIsBoot
  BY DEF IInv, CacheInv
<1> QED  BY <1>1, ReplicaInv, PTL

-----------------------------------------------------------------------------
(* The store.  One operator's stable identity is no other operator's name. *)
DistinctIdentities ==
    \A o, p \in Operators : o # p => Identity[o] \notin Names[p]

AuditRow == [act : Actions, of : Versions, prev : Nat]

(* A call that has written may rely on what it read: no other is writing,  *)
(* and none appends to the log once it has read the last row.              *)
ActiveInv ==
    /\ StoreTypeOK /\ chain \in Seq(AuditRow)
    /\ SingleActive /\ AuditTellsActive /\ ChainIsLinear
    /\ \A c, d \in Calls : {pc[c], pc[d]} \subseteq Writing => c = d
    /\ \A c \in Calls : pc[c] \in Writing => Entries(c) = {}
    /\ \A c \in Calls : pc[c] = "audited" => auditor = c /\ prev[c] = Len(chain)

(* A version that is approved was approved by somebody else than its       *)
(* author, or by nobody; and what a call checked of its target stays so.   *)
ReviewInv ==
    /\ DOMAIN proposer = Versions /\ DOMAIN reviewer = Versions
    /\ \A v \in Versions :
        /\ status[v] = "absent" => reviewer[v] = Nobody
        /\ status[v] = "proposed" => reviewer[v] = Nobody /\ proposer[v] \in Names[Author[v]]
        /\ status[v] = "approved" =>
            reviewer[v] = Nobody \/ reviewer[v] \notin Names[Author[v]]
    /\ \A c \in Calls : pc[c] \in Open \cup {"done", "unsure"} =>
        /\ status[Target[c]] = "approved"
        /\ strict[c] => reviewer[Target[c]] # Nobody
    /\ ActiveIsApproved

(* What a call does to itself alone: none writes that did not, and the     *)
(* active rows and the log stay.                                           *)
LEMMA CallGoesOn ==
    ASSUME ActiveInv, NEW c \in Calls,
           UNCHANGED <<active, chain>>,
           \A d \in Calls \ {c} : pc'[d] = pc[d] /\ off'[d] = off[d] /\ prev'[d] = prev[d],
           pc'[c] \in Writing =>
                /\ \A d \in Calls \ {c} : pc[d] \notin Writing
                /\ Entries(c)' = {},
           pc'[c] = "audited" => auditor' = c /\ prev'[c] = Len(chain),
           \A d \in Calls \ {c} : auditor = d => auditor' = d,
           StoreTypeOK'
    PROVE  ActiveInv'
<1>1. /\ chain' \in Seq(AuditRow)
      /\ SingleActive' /\ AuditTellsActive' /\ ChainIsLinear'
  BY DEF ActiveInv, SingleActive, AuditTellsActive, ChainIsLinear,
         Activations
<1>2. \A d, e \in Calls : {pc'[d], pc'[e]} \subseteq Writing => d = e
  BY DEF ActiveInv
<1>3. \A d \in Calls : pc'[d] \in Writing => Entries(d)' = {}
  BY DEF ActiveInv, Entries
<1>4. \A d \in Calls : pc'[d] = "audited" => auditor' = d /\ prev'[d] = Len(chain')
  BY DEF ActiveInv
<1> QED  BY <1>1, <1>2, <1>3, <1>4 DEF ActiveInv

(* A row is appended that is no activation, and nobody holds the log.      *)
LEMMA LogGrows ==
    ASSUME ActiveInv, NEW act \in {"save", "approve", "reject"},
           NEW v \in Versions, Audited(act, v),
           UNCHANGED <<active, auditor, pc, off, prev>>, StoreTypeOK'
    PROVE  ActiveInv'
<1> DEFINE row == [act |-> act, of |-> v, prev |-> Len(chain)]
<1>1. /\ chain \in Seq(AuditRow) /\ auditor = Nobody
      /\ chain' = Append(chain, row) /\ Len(chain) \in Nat
  BY DEF ActiveInv, Audited
<1>2. row \in AuditRow
  BY <1>1 DEF AuditRow, Actions
<1>3. /\ chain' \in Seq(AuditRow) /\ Len(chain') = Len(chain) + 1
      /\ \A i \in 1 .. Len(chain) : chain'[i] = chain[i]
      /\ chain'[Len(chain) + 1] = row
  BY <1>1, <1>2
<1>4. Activations' = Activations
  BY <1>1, <1>3 DEF Activations
<1>5. \A i \in Activations : chain'[i] = chain[i]
  BY <1>3 DEF Activations
<1>6. SingleActive' /\ AuditTellsActive'
  BY <1>4, <1>5 DEF ActiveInv, SingleActive, AuditTellsActive
<1>7. ChainIsLinear'
  BY <1>1, <1>3 DEF ActiveInv, ChainIsLinear
<1>8. \A d \in Calls : pc[d] # "audited"
  BY <1>1, NobodyAssumption DEF ActiveInv
<1>9. \A d \in Calls : Entries(d)' = Entries(d)
  BY DEF Entries
<1> QED  BY <1>3, <1>6, <1>7, <1>8, <1>9 DEF ActiveInv

(* The three statements an audit row is written by leave the log a log.    *)
LEMMA StoreTypes ==
    ASSUME StoreTypeOK, chain \in Seq(AuditRow), [StoreNext]_storeVars
    PROVE  StoreTypeOK'
<1> USE StoreShape
<1>0. chain' \in Seq(AuditRow) => \A i \in 1 .. Len(chain') : chain'[i] \in AuditRow
  OBVIOUS
<1> DEFINE Users == {Nobody} \cup UNION {Names[o] : o \in Operators}
<1>1. ASSUME NEW v \in Versions, NEW r \in Replicas, NEW author \in Names[Author[v]],
             SaveConfigVersion(v, r, author)
      PROVE  StoreTypeOK'
  <2>1. author \in Users /\ Nobody \in Users
    OBVIOUS
  <2>2. /\ status' \in [Versions -> Status]
        /\ \A w \in Versions : {proposer'[w], reviewer'[w]} \subseteq Users
    <3> HIDE DEF Users
    <3> QED  BY <1>1, <2>1 DEF SaveConfigVersion, Status, StoreTypeOK, Users
  <2>3. chain' \in Seq(AuditRow)
    BY <1>1 DEF SaveConfigVersion, Audited, AuditRow, Actions
  <2>4. UNCHANGED <<active, locks, calls>>
    BY <1>1 DEF SaveConfigVersion
  <2> QED
    BY <1>0, <2>2, <2>3, <2>4
    DEF StoreTypeOK, AuditRow, locks, calls
<1>2. ASSUME NEW v \in Versions, NEW o \in Operators, NEW d \in {"approved", "rejected"},
             Review(v, o, d)
      PROVE  StoreTypeOK'
  <2>1. Identity[o] \in Users
    OBVIOUS
  <2>2. /\ status' \in [Versions -> Status]
        /\ \A w \in Versions : {proposer'[w], reviewer'[w]} \subseteq Users
    <3> HIDE DEF Users
    <3> QED  BY <1>2, <2>1 DEF Review, Status, StoreTypeOK, Users
  <2>3. chain' \in Seq(AuditRow)
    BY <1>2 DEF Review, Audited, AuditRow, Actions
  <2>4. UNCHANGED <<active, locks, calls>>
    BY <1>2 DEF Review
  <2> QED
    BY <1>0, <2>2, <2>3, <2>4
    DEF StoreTypeOK, AuditRow, locks, calls
<1>3. ASSUME NEW c \in Calls, Step(c) \/ Abort(c) PROVE StoreTypeOK'
  <2>1. ASSUME NEW r \in Replicas, Lock(c, r) \/ RefuseActivation(c, r) PROVE StoreTypeOK'
    <3>1. r.approvalRequired \in BOOLEAN /\ Target[c] \in Versions
      OBVIOUS
    <3>2. CASE Lock(c, r)
      <4> DEFINE rule == r.approvalRequired
      <4>1. strict' = [strict EXCEPT ![c] = rule]
        BY <3>2 DEF Lock
      <4>2. rule \in BOOLEAN  BY <3>1
      <4> HIDE DEF rule
      <4>3. strict' \in [Calls -> BOOLEAN]
        BY <4>1, <4>2 DEF StoreTypeOK
      <4>4. /\ owner' = [owner EXCEPT ![Target[c]] = c] /\ pc' = [pc EXCEPT ![c] = "locked"]
            /\ UNCHANGED <<status, proposer, reviewer, active, chain, auditor, seen, off, prev>>
        BY <3>2 DEF Lock, Goto, rows
      <4>5. /\ owner' \in [Versions -> Calls \cup {Nobody}]
            /\ pc' \in [Calls -> {"new"} \cup Open \cup Answered]
        BY <3>1, <4>4 DEF StoreTypeOK, Open
      <4>6. \A d \in Calls :
              (auditor' = d \/ \E v \in Versions : owner'[v] = d) => pc'[d] \in Open
        BY <3>1, <4>4 DEF StoreTypeOK, Open
      <4> QED  BY <4>3, <4>4, <4>5, <4>6 DEF StoreTypeOK
    <3>3. CASE RefuseActivation(c, r)
      <4>1. /\ pc[c] = "new" /\ pc' = [pc EXCEPT ![c] = "refused"]
            /\ UNCHANGED <<status, proposer, reviewer, active, chain, owner, auditor, strict,
                           seen, off, prev>>
        BY <3>3 DEF RefuseActivation, Goto, rows, locks
      <4>2. "new" \notin Open /\ "refused" \in Answered
        BY DEF Open, Answered, Writing
      <4>3. \A d \in Calls :
              (auditor' = d \/ \E v \in Versions : owner'[v] = d) => pc'[d] \in Open
        BY <4>1, <4>2 DEF StoreTypeOK
      <4> QED  BY <4>1, <4>2, <4>3 DEF StoreTypeOK
    <3> QED  BY <2>1, <3>2, <3>3
  <2>2. CASE Snapshot(c)
    BY <1>3, <2>2
    DEF Snapshot, StoreTypeOK, Goto, rows, locks,
        Open, Answered
  <2>3. CASE Deactivate(c)
    BY <1>3, <2>3
    DEF Deactivate, StoreTypeOK, Goto, rows, locks,
        Open, Answered
  <2>4. CASE Set(c)
    BY <1>3, <2>4
    DEF Set, StoreTypeOK, Goto, rows, locks,
        Open, Answered, Writing
  <2>5. CASE Conflict(c) \/ Abort(c)
    <3>1. pc' = [pc EXCEPT ![c] = pc'[c]] /\ pc'[c] \in Answered
      BY <2>5 DEF Conflict, Abort, Goto, Answered, StoreTypeOK
    <3>2. /\ owner' = [v \in Versions |-> IF owner[v] = c THEN Nobody ELSE owner[v]]
          /\ auditor' = IF auditor = c THEN Nobody ELSE auditor
          /\ UNCHANGED <<status, proposer, reviewer, active, chain, strict, seen, off, prev>>
      BY <2>5 DEF Conflict, Abort, Unlock, rows
    <3> QED
      BY <3>1, <3>2, NobodyAssumption DEF StoreTypeOK
  <2>6. CASE Audit(c)
    BY <1>3, <2>6
    DEF Audit, StoreTypeOK, Goto, rows,
        Open, Answered, Writing
  <2>7. ASSUME NEW answered \in BOOLEAN, CommitActivation(c, answered) PROVE StoreTypeOK'
    <3>1. chain' \in Seq(AuditRow)
      BY <2>7 DEF CommitActivation, AuditRow, Actions, StoreTypeOK
    <3>2. active' \subseteq Versions
      BY <2>7 DEF CommitActivation, StoreTypeOK
    <3>3. pc' = [pc EXCEPT ![c] = pc'[c]] /\ pc'[c] \in Answered
      BY <2>7 DEF CommitActivation, Goto, Answered, StoreTypeOK
    <3>4. /\ owner' = [v \in Versions |-> IF owner[v] = c THEN Nobody ELSE owner[v]]
          /\ auditor' = IF auditor = c THEN Nobody ELSE auditor
          /\ UNCHANGED <<status, proposer, reviewer, strict, seen, off, prev>>
      BY <2>7 DEF CommitActivation, Unlock
    <3> QED
      BY <1>0, <3>1, <3>2, <3>3, <3>4, NobodyAssumption DEF StoreTypeOK, AuditRow
  <2> QED  BY <1>3, <2>1, <2>2, <2>3, <2>4, <2>5, <2>6, <2>7 DEF Step
<1>4. CASE UNCHANGED storeVars
  BY <1>4 DEF StoreTypeOK, storeVars, rows, locks, calls
<1> QED  BY <1>1, <1>2, <1>3, <1>4 DEF StoreNext, Save

LEMMA StoreBegins == ASSUME StoreInit PROVE ActiveInv
<1>1. StoreTypeOK
  BY NobodyAssumption DEF StoreInit, StoreTypeOK, Status
<1>2. chain = <<>> /\ active = {} /\ \A c \in Calls : pc[c] = "new"
  BY DEF StoreInit
<1> QED
  BY <1>1, <1>2
  DEF ActiveInv, SingleActive, AuditTellsActive, ChainIsLinear,
      Activations, Writing

LEMMA StoreStep ==
    ASSUME ActiveInv, [StoreNext]_storeVars
    PROVE  ActiveInv'
<1>0. StoreTypeOK'
  BY StoreTypes DEF ActiveInv
<1>1. ASSUME NEW v \in Versions, NEW r \in Replicas, NEW author \in Names[Author[v]],
             SaveConfigVersion(v, r, author)
      PROVE  ActiveInv'
  <2>1. Audited("save", v) /\ UNCHANGED <<active, auditor, pc, off, prev>>
    BY <1>1 DEF SaveConfigVersion, locks, calls
  <2> QED  BY <1>0, <2>1, LogGrows
<1>2. ASSUME NEW v \in Versions, NEW o \in Operators, NEW d \in {"approved", "rejected"},
             Review(v, o, d)
      PROVE  ActiveInv'
  <2>1. PICK act \in {"save", "approve", "reject"} : Audited(act, v)
    BY <1>2 DEF Review
  <2>2. UNCHANGED <<active, auditor, pc, off, prev>>
    BY <1>2 DEF Review, locks, calls
  <2> QED  BY <1>0, <2>1, <2>2, LogGrows
<1>3. ASSUME NEW c \in Calls, Step(c) \/ Abort(c) PROVE ActiveInv'
  <2> USE DEF rows, locks, Goto, Writing
  <2>0. pc \in [Calls -> {"new"} \cup Open \cup Answered]
        /\ off \in [Calls -> SUBSET Versions] /\ prev \in [Calls -> Nat]
    BY DEF ActiveInv, StoreTypeOK
  <2>1. CASE \E r \in Replicas : Lock(c, r) \/ RefuseActivation(c, r)
    BY <1>0, <2>0, <2>1, CallGoesOn DEF Lock, RefuseActivation
  <2>2. CASE Snapshot(c)
    BY <1>0, <2>0, <2>2, CallGoesOn DEF Snapshot
  <2>3. CASE Deactivate(c)
    BY <1>0, <2>0, <2>3, CallGoesOn DEF Deactivate
  <2>4. CASE Set(c)
    <3>1. Entries(c)' = {}  BY <2>4 DEF Set, Entries
    <3>2. \A d \in Calls \ {c} : pc[d] \notin Writing
      BY <2>4 DEF Set, InDoubt
    <3> QED  BY <1>0, <2>0, <2>4, <3>1, <3>2, CallGoesOn DEF Set
  <2>5. CASE Conflict(c)
    BY <1>0, <2>0, <2>5, CallGoesOn DEF Conflict, Unlock
  <2>6. CASE Abort(c)
    BY <1>0, <2>0, <2>6, CallGoesOn DEF Abort, Unlock
  <2>7. CASE Audit(c)
    <3>1. pc[c] \in Writing /\ auditor = Nobody  BY <2>7 DEF Audit
    <3>2. \A d \in Calls \ {c} : pc[d] \notin Writing
      BY <3>1 DEF ActiveInv
    <3>3. Entries(c)' = {}
      BY <2>7, <3>1 DEF ActiveInv, Audit, Entries
    <3> QED
      BY <1>0, <2>0, <2>7, <3>2, <3>3, CallGoesOn, NobodyAssumption DEF Audit
  <2>8. ASSUME NEW answered \in BOOLEAN, CommitActivation(c, answered) PROVE ActiveInv'
    <3> DEFINE row == [act |-> "activate", of |-> Target[c], prev |-> prev[c]]
    <3>1. /\ pc[c] = "audited" /\ prev[c] = Len(chain) /\ chain \in Seq(AuditRow)
          /\ Target[c] \in Versions /\ prev[c] \in Nat /\ Entries(c) = {}
          /\ chain' = Append(chain, row)
      BY <2>0, <2>8, StoreShape DEF ActiveInv, CommitActivation
    <3>2. row \in AuditRow
      BY <3>1 DEF AuditRow, Actions
    <3>3. /\ chain' \in Seq(AuditRow) /\ Len(chain') = Len(chain) + 1 /\ Len(chain) \in Nat
          /\ \A i \in 1 .. Len(chain) : chain'[i] = chain[i]
          /\ chain'[Len(chain) + 1] = row
      BY <3>1, <3>2
    <3>4. active' = {Target[c]}
      BY <2>8, <3>1 DEF CommitActivation, Entries
    <3>5. Activations' = Activations \cup {Len(chain) + 1}
      BY <3>3 DEF Activations
    <3>6. \A i \in Activations : i < Len(chain) + 1
      BY <3>3 DEF Activations
    <3>7. SingleActive' /\ AuditTellsActive'
      <4>1. ASSUME NEW i \in Activations',
                   \A j \in Activations' : j <= i
            PROVE  i = Len(chain) + 1
        BY <3>3, <3>5, <3>6, <4>1 DEF Activations
      <4> QED  BY <3>3, <3>4, <4>1 DEF SingleActive, AuditTellsActive
    <3>8. ChainIsLinear'
      BY <3>1, <3>3 DEF ActiveInv, ChainIsLinear
    <3>9. \A d \in Calls : pc'[d] \notin Writing
      BY <2>0, <2>8, <3>1 DEF ActiveInv, CommitActivation
    <3> QED  BY <1>0, <3>3, <3>7, <3>8, <3>9 DEF ActiveInv
  <2> QED  BY <1>3, <2>1, <2>2, <2>3, <2>4, <2>5, <2>6, <2>7, <2>8 DEF Step
<1>4. CASE UNCHANGED storeVars
  BY <1>0, <1>4
  DEF ActiveInv, storeVars, rows, locks, calls, SingleActive,
      AuditTellsActive, ChainIsLinear, Activations, Entries
<1> QED  BY <1>1, <1>2, <1>3, <1>4 DEF StoreNext, Save

(* However any number of activations interleave, abort, collide or lose    *)
(* their answer, one version at most is active, the one that the audit log *)
(* names last, and the log has no fork and no gap.                         *)
THEOREM TheLogTellsTheActive == StoreSpec => []ActiveIsAudited
<1>1. StoreInit => ActiveInv
  BY StoreBegins
<1>2. ActiveInv /\ [StoreNext]_storeVars => ActiveInv'
  BY StoreStep
<1>3. ActiveInv => ActiveIsAudited
  BY DEF ActiveInv, ActiveIsAudited
<1> QED  BY <1>1, <1>2, <1>3, PTL DEF StoreSpec

LEMMA ReviewStep ==
    ASSUME DistinctIdentities, StoreTypeOK, ReviewInv,
           [StoreNext]_storeVars
    PROVE  ReviewInv'
<1> USE StoreShape, NobodyAssumption
<1>1. ASSUME NEW v \in Versions, NEW r \in Replicas, NEW author \in Names[Author[v]],
             SaveConfigVersion(v, r, author)
      PROVE  ReviewInv'
  <2>1. \A c \in Calls : Target[c] = v => pc[c] \notin Open \cup {"done", "unsure"}
    BY <1>1 DEF ReviewInv, SaveConfigVersion
  <2>2. v \notin active
    BY <1>1 DEF ReviewInv, ActiveIsApproved, SaveConfigVersion
  <2>3. \A w \in Versions \ {v} : status'[w] = status[w] /\ proposer'[w] = proposer[w]
    BY <1>1 DEF SaveConfigVersion, StoreTypeOK
  <2>4. /\ status'[v] = "proposed" => proposer'[v] = author
        /\ status'[v] \in {"proposed", "approved"} /\ reviewer[v] = Nobody
    <3>1. v \in DOMAIN status /\ v \in DOMAIN proposer /\ status[v] = "absent"
      BY <1>1 DEF SaveConfigVersion, StoreTypeOK, ReviewInv
    <3>2. \/ status'[v] = "proposed" /\ proposer'[v] = author
          \/ status'[v] = "approved"
      <4> DEFINE rule == r.approvalRequired
      <4>1. /\ status' = [status EXCEPT ![v] = IF rule THEN "proposed" ELSE "approved"]
            /\ proposer' = [proposer EXCEPT ![v] = IF rule THEN author ELSE Nobody]
        BY <1>1 DEF SaveConfigVersion
      <4> HIDE DEF rule
      <4> QED  BY <3>1, <4>1
    <3> QED  BY <3>1, <3>2 DEF ReviewInv
  <2>5. UNCHANGED <<reviewer, active, pc, strict>> /\ DOMAIN proposer' = DOMAIN proposer
    BY <1>1 DEF SaveConfigVersion, calls
  <2>6. \A c \in Calls : Target[c] \in Versions
    OBVIOUS
  <2>7. \A w \in Versions :
          /\ status'[w] = "absent" => reviewer'[w] = Nobody
          /\ status'[w] = "proposed" => reviewer'[w] = Nobody /\ proposer'[w] \in Names[Author[w]]
          /\ status'[w] = "approved" =>
               reviewer'[w] = Nobody \/ reviewer'[w] \notin Names[Author[w]]
    BY <2>3, <2>4, <2>5 DEF ReviewInv
  <2> QED
    BY <2>1, <2>2, <2>3, <2>5, <2>6, <2>7 DEF ReviewInv, ActiveIsApproved, StoreTypeOK
<1>2. ASSUME NEW v \in Versions, NEW o \in Operators, NEW d \in {"approved", "rejected"},
             Review(v, o, d)
      PROVE  ReviewInv'
  <2>1. \A c \in Calls : Target[c] = v => pc[c] \notin Open \cup {"done", "unsure"}
    BY <1>2 DEF ReviewInv, Review
  <2>2. v \notin active
    BY <1>2 DEF ReviewInv, ActiveIsApproved, Review
  <2>3. \A w \in Versions \ {v} : status'[w] = status[w] /\ reviewer'[w] = reviewer[w]
    BY <1>2 DEF Review, StoreTypeOK
  <2>4. status'[v] = d /\ (d = "approved" => reviewer'[v] \notin Names[Author[v]])
    <3>1. status'[v] = d
      BY <1>2 DEF Review, StoreTypeOK
    <3>2. ASSUME d = "approved" PROVE reviewer'[v] \notin Names[Author[v]]
      <4>1. proposer[v] \in Names[Author[v]] /\ proposer[v] \notin Names[o]
        BY <1>2, <3>2 DEF Review, ReviewInv, MayApprove
      <4>2. Author[v] # o /\ Author[v] \in Operators
        BY <4>1
      <4>3. Identity[o] \notin Names[Author[v]]
        BY <4>2 DEF DistinctIdentities
      <4>4. reviewer'[v] = Identity[o]
        BY <1>2 DEF Review, ReviewInv
      <4> QED  BY <4>3, <4>4
    <3> QED  BY <3>1, <3>2
  <2>5. UNCHANGED <<proposer, active, pc, strict>> /\ DOMAIN reviewer' = DOMAIN reviewer
    BY <1>2 DEF Review, calls
  <2>6. d # "absent" /\ d # "proposed"
    OBVIOUS
  <2>7. \A w \in Versions :
          /\ status'[w] = "absent" => reviewer'[w] = Nobody
          /\ status'[w] = "proposed" => reviewer'[w] = Nobody /\ proposer'[w] \in Names[Author[w]]
          /\ status'[w] = "approved" =>
               reviewer'[w] = Nobody \/ reviewer'[w] \notin Names[Author[w]]
    BY <2>3, <2>4, <2>5, <2>6 DEF ReviewInv
  <2>8. \A c \in Calls : Target[c] \in Versions
    OBVIOUS
  <2> QED
    BY <2>1, <2>2, <2>3, <2>5, <2>7, <2>8 DEF ReviewInv, ActiveIsApproved, StoreTypeOK
<1>3. ASSUME NEW c \in Calls, Step(c) \/ Abort(c) PROVE ReviewInv'
  <2> DEFINE Past == Open \cup {"done", "unsure"}
  <2>1. /\ UNCHANGED <<status, proposer, reviewer>>
        /\ \A d \in Calls \ {c} : pc'[d] = pc[d] /\ strict'[d] = strict[d]
        /\ active' \subseteq active \cup {Target[c]}
        /\ (~UNCHANGED active => pc[c] \in Past)
        /\ pc'[c] \in Past =>
             \/ pc[c] \in Past /\ strict'[c] = strict[c]
             \/ /\ status[Target[c]] = "approved"
                /\ strict'[c] => reviewer[Target[c]] # Nobody
    <3> USE DEF rows, Goto, StoreTypeOK
    <3>1. ASSUME NEW r \in Replicas, Lock(c, r) \/ RefuseActivation(c, r)
          PROVE  /\ UNCHANGED <<status, proposer, reviewer, active>>
                 /\ \A d \in Calls \ {c} : pc'[d] = pc[d] /\ strict'[d] = strict[d]
                 /\ pc'[c] \in Past =>
                      /\ status[Target[c]] = "approved"
                      /\ strict'[c] => reviewer[Target[c]] # Nobody
      <4>1. CASE Lock(c, r)
        BY <4>1 DEF Lock, MayActivate
      <4>2. CASE RefuseActivation(c, r)
        BY <4>2 DEF RefuseActivation, Open, Writing
      <4> QED  BY <3>1, <4>1, <4>2
    <3>2. CASE Snapshot(c) \/ Deactivate(c) \/ Set(c) \/ Audit(c)
      BY <3>2
      DEF Snapshot, Deactivate, Set, Audit, Open, Writing
    <3>3. CASE Conflict(c) \/ Abort(c)
      BY <3>3 DEF Conflict, Abort, Open, Writing
    <3>4. CASE \E answered \in BOOLEAN : CommitActivation(c, answered)
      BY <3>4 DEF CommitActivation, Open, Writing
    <3> QED  BY <1>3, <3>1, <3>2, <3>3, <3>4 DEF Step
  <2> HIDE DEF Past
  <2>2. \A d \in Calls : pc[d] \in Past =>
          /\ status[Target[d]] = "approved"
          /\ strict[d] => reviewer[Target[d]] # Nobody
    BY DEF ReviewInv, Past
  <2>3. \A d \in Calls : pc'[d] \in Past =>
          /\ status[Target[d]] = "approved"
          /\ strict'[d] => reviewer[Target[d]] # Nobody
    BY <2>1, <2>2
  <2>4. \A v \in active' : status[v] = "approved"
    BY <2>1, <2>2 DEF ReviewInv, ActiveIsApproved
  <2> QED
    BY <2>1, <2>3, <2>4 DEF ReviewInv, ActiveIsApproved, Past
<1>4. CASE UNCHANGED storeVars
  BY <1>4 DEF ReviewInv, storeVars, rows, calls, ActiveIsApproved
<1> QED  BY <1>1, <1>2, <1>3, <1>4 DEF StoreNext, Save

(* Whichever replicas the rule runs on and whichever of his names an       *)
(* author proposed under, what is activated under the two-person rule was  *)
(* approved by somebody else, and what is active stays approved.           *)
THEOREM TwoPersonsApprove ==
    ASSUME DistinctIdentities PROVE StoreSpec => []Approved
<1>0. DistinctIdentities
  OBVIOUS
<1> DEFINE Inv == ActiveInv /\ ReviewInv
<1>1. StoreInit => Inv
  <2> SUFFICES ASSUME StoreInit PROVE Inv
    OBVIOUS
  <2>1. ActiveInv
    BY StoreBegins
  <2>2. ReviewInv
    BY DEF StoreInit, ReviewInv, ActiveIsApproved, Open, Writing
  <2> QED  BY <2>1, <2>2
<1>2. Inv /\ [StoreNext]_storeVars => Inv'
  BY StoreStep, ReviewStep DEF ActiveInv
<1>3. Inv => Approved
  BY <1>0, StoreShape DEF ReviewInv, Approved, TwoPersons
<1> QED  BY <1>1, <1>2, <1>3, PTL DEF StoreSpec
=============================================================================
