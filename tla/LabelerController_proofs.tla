--------------------- MODULE LabelerController_proofs ----------------------
(***************************************************************************)
(* Proofs about LabelerController, for any Labelers, Deployments, workers, *)
(* label maps and bounds.                                                  *)
(***************************************************************************)
EXTENDS LabelerProperties, SequenceTheorems, TLAPS

(***************************************************************************)
(* A worker in ReconcileKind holds the name of a Labeler, and a version of *)
(* it that was live and that the cache has reached.                        *)
(***************************************************************************)
Reconciling(w) == worker[w].pc \in {"list", "patch"}

WorkerOK ==
    \A w \in Workers :
        Reconciling(w) =>
            /\ active[w] \in LabelerKeys
            /\ worker[w].got \in 1 .. cacheAt[active[w]]
            /\ history[active[w]][worker[w].got].status = "live"

Inv == TypeOK /\ WorkerOK

(***************************************************************************)
(* Facts about the operators that the actions share.                       *)
(***************************************************************************)

(* A merge of label maps is a label map: mergeDocs of the JSON merge patch *)
(* neither drops a name nor invents a value.                               *)
LEMMA MergeType ==
    ASSUME NEW labels \in LabelMaps, NEW patch \in LabelMaps
    PROVE  Merge(labels, patch) \in LabelMaps
BY DEF Merge, LabelMaps, Sets

(* Publishing a version keeps the earlier ones where they are: what a      *)
(* worker or a cache has read of a Labeler's history stays true.           *)
LEMMA PublishExtends ==
    ASSUME NEW s \in Seq(Versions), NEW v \in Versions
    PROVE  /\ Append(s, v) \in Seq(Versions) \ {<<>>}
           /\ Len(Append(s, v)) = Len(s) + 1
           /\ \A i \in 1 .. Len(s) : Append(s, v)[i] = s[i]
           /\ DOMAIN s \subseteq DOMAIN Append(s, v)
<1>1. /\ Append(s, v) \in Seq(Versions)
      /\ Len(Append(s, v)) = Len(s) + 1
      /\ Append(s, v) # <<>>
      /\ \A i \in 1 .. Len(s) : Append(s, v)[i] = s[i]
      BY AppendProperties
<1>2. DOMAIN s = 1 .. Len(s) /\ DOMAIN Append(s, v) = 1 .. Len(s) + 1
      BY <1>1, LenProperties
<1>. QED BY <1>1, <1>2

(* The version of a Labeler that the cache holds is one of its versions.   *)
LEMMA CachedType ==
    ASSUME TypeOK, NEW k \in LabelerKeys
    PROVE  Cached(k) \in Versions /\ Current(k) \in Versions
<1>1. history[k] \in Seq(Versions) /\ history[k] # <<>> /\ cacheAt[k] \in DOMAIN history[k]
      BY DEF TypeOK, SyncTypeOK
<1>2. Len(history[k]) \in 1 .. Len(history[k])
      BY <1>1, EmptySeq, LenProperties
<1>. QED BY <1>1, <1>2, ElementOfSeq, LenProperties DEF Cached, Current

(***************************************************************************)
(* Initially the invariant holds.                                          *)
(***************************************************************************)
LEMMA VersionTypes ==
    /\ Gone \in Versions
    /\ \A s \in LabelMaps : Live(s) \in Versions
BY DEF Gone, Live, Versions, Statuses, LabelMaps, NoLabels

LEMMA InitInv == Init => Inv
<1>. SUFFICES ASSUME Init PROVE Inv
  OBVIOUS
<1>1. SyncTypeOK
  <2>1. history \in [LabelerKeys -> Seq(Versions) \ {<<>>}]
    <3>1. \A v \in Versions : <<v>> \in Seq(Versions) \ {<<>>}
      OBVIOUS
    <3>2. history \in [LabelerKeys -> {<<Gone>>} \cup {<<Live(s)>> : s \in LabelMaps}]
      BY DEF Init
    <3>3. {<<Gone>>} \cup {<<Live(s)>> : s \in LabelMaps} \subseteq Seq(Versions) \ {<<>>}
      BY <3>1, VersionTypes
    <3>. QED BY <3>2, <3>3
  <2>2. deployment \in [DeploymentKeys -> LabelMaps \cup {Absent}]
    BY UserLabelsAssumption DEF Init
  <2>3. applied \in [LabelerKeys -> [DeploymentKeys -> Nat]]
    BY DEF Init, Nothing
  <2>4. late \in SUBSET Requests
    BY DEF Init
  <2>. QED BY <2>1, <2>2, <2>3, <2>4 DEF SyncTypeOK
<1>2. \A k \in LabelerKeys : cacheAt[k] \in DOMAIN history[k]
  BY <1>1 DEF Init
<1>3. /\ depWatch \in [DeploymentKeys -> Seq(BOOLEAN)]
      /\ depCache \in SUBSET DeploymentKeys
  BY EmptySeq DEF Init, Present
<1>4. Queue!QueueTypeOK
  BY CopiesAssumption DEF Init, Queue!QueueInit, Queue!QueueTypeOK
<1>5. \A w \in Workers : worker[w] = Idle /\ active[w] = None
  BY DEF Init, Queue!QueueInit
<1>6. /\ cacheAt \in [LabelerKeys -> Nat]
      /\ notes \in [Keys -> Nat]
      /\ seen \in [LabelerKeys -> Nat]
      /\ spent \in [Kinds -> Nat]
  BY DEF Init
<1>7. worker \in [Workers -> WorkerStates]
  BY DEF Init, Idle, WorkerStates
<1>8. /\ up \in BOOLEAN /\ leader \in BOOLEAN /\ promoting \in BOOLEAN
      /\ promoteKeys \in SUBSET LabelerKeys
      /\ excused \in SUBSET (LabelerKeys \X DeploymentKeys)
  BY DEF Init
<1>9. WorkerOK
  BY <1>5 DEF WorkerOK, Reconciling, Idle
<1>10. \A w \in Workers : (active[w] = None) <=> (worker[w].pc = "idle")
  BY <1>5 DEF Idle
<1>. QED BY <1>1, <1>2, <1>3, <1>4, <1>6, <1>7, <1>8, <1>9, <1>10 DEF Inv, TypeOK

(***************************************************************************)
(* Every step keeps it: users and the API server.                          *)
(***************************************************************************)
LEMMA SpendType ==
    ASSUME TypeOK, NEW kind \in Kinds, Spend(kind)
    PROVE  spent' \in [Kinds -> Nat]
BY DEF TypeOK, Spend

LEMMA PublishInv ==
    ASSUME Inv, NEW k \in LabelerKeys, NEW v \in Versions, Publish(k, v)
    PROVE  Inv'
<1>. USE DEF Inv, Publish, informerVars, queueVars, leaderVars
<1>1. spent' \in [Kinds -> Nat]
  BY SpendType DEF Kinds
<1>2. /\ history[k] \in Seq(Versions)
      /\ history' = [history EXCEPT ![k] = Append(@, v)]
  BY DEF TypeOK, SyncTypeOK
<1>3. /\ history' \in [LabelerKeys -> Seq(Versions) \ {<<>>}]
      /\ \A j \in LabelerKeys : DOMAIN history[j] \subseteq DOMAIN history'[j]
      /\ \A j \in LabelerKeys : \A i \in DOMAIN history[j] : history'[j][i] = history[j][i]
  BY <1>2, PublishExtends, LenProperties DEF TypeOK, SyncTypeOK
<1>4. SyncTypeOK'
  BY <1>3 DEF TypeOK, SyncTypeOK
<1>5. TypeOK'
  BY <1>1, <1>3, <1>4 DEF TypeOK, Queue!QueueTypeOK
<1>6. WorkerOK'
  <2>. SUFFICES ASSUME NEW w \in Workers, Reconciling(w)'
                PROVE  /\ active'[w] \in LabelerKeys
                       /\ worker'[w].got \in 1 .. cacheAt'[active'[w]]
                       /\ history'[active'[w]][worker'[w].got].status = "live"
    BY DEF WorkerOK
  <2>1. /\ active[w] \in LabelerKeys
        /\ worker[w].got \in 1 .. cacheAt[active[w]]
        /\ history[active[w]][worker[w].got].status = "live"
    BY DEF WorkerOK, Reconciling
  <2>2. worker[w].got \in DOMAIN history[active[w]]
    BY <2>1, LenProperties DEF TypeOK, SyncTypeOK
  <2>. QED BY <2>1, <2>2, <1>3
<1>. QED BY <1>5, <1>6

LEMMA SaveLabelerInv ==
    ASSUME Inv, NEW k \in LabelerKeys, SaveLabeler(k)
    PROVE  Inv'
BY PublishInv, VersionTypes, SpecsAssumption DEF SaveLabeler

LEMMA MarkDeletingInv ==
    ASSUME Inv, NEW k \in LabelerKeys, MarkDeleting(k)
    PROVE  Inv'
<1>1. [Current(k) EXCEPT !.status = "deleting"] \in Versions
  BY CachedType DEF Inv, Versions, Statuses
<1>. QED BY <1>1, PublishInv DEF MarkDeleting

LEMMA RemoveLabelerInv ==
    ASSUME Inv, NEW k \in LabelerKeys, RemoveLabeler(k)
    PROVE  Inv'
BY PublishInv, VersionTypes DEF RemoveLabeler

LEMMA DeploymentWrittenType ==
    ASSUME TypeOK, NEW d \in DeploymentKeys, DeploymentWritten(d)
    PROVE  depWatch' \in [DeploymentKeys -> Seq(BOOLEAN)]
<1>1. depWatch[d] \in Seq(BOOLEAN) /\ (deployment'[d] # Absent) \in BOOLEAN
  BY DEF TypeOK
<1>2. Append(depWatch[d], deployment'[d] # Absent) \in Seq(BOOLEAN)
  BY <1>1, AppendProperties
<1>. QED BY <1>2 DEF TypeOK, DeploymentWritten

LEMMA SaveDeploymentInv ==
    ASSUME Inv, NEW d \in DeploymentKeys, SaveDeployment(d)
    PROVE  Inv'
<1>. USE DEF Inv, SaveDeployment, queueVars, leaderVars
<1>1. spent' \in [Kinds -> Nat]
  BY SpendType DEF Kinds
<1>2. depWatch' \in [DeploymentKeys -> Seq(BOOLEAN)]
  BY DeploymentWrittenType
<1>3. deployment' \in [DeploymentKeys -> LabelMaps \cup {Absent}]
  BY UserLabelsAssumption DEF TypeOK, SyncTypeOK
<1>4. SyncTypeOK'
  BY <1>3 DEF TypeOK, SyncTypeOK
<1>5. TypeOK'
  BY <1>1, <1>2, <1>4 DEF TypeOK, Queue!QueueTypeOK
<1>6. WorkerOK'
  BY DEF WorkerOK, Reconciling
<1>. QED BY <1>5, <1>6

(***************************************************************************)
(* Informers.                                                              *)
(***************************************************************************)
LEMMA NotifyType ==
    ASSUME TypeOK, NEW k \in Keys, Notify(k)
    PROVE  notes' \in [Keys -> Nat]
BY DEF TypeOK, Notify

LEMMA LabelerEventInv ==
    ASSUME Inv, NEW k \in LabelerKeys, LabelerEvent(k)
    PROVE  Inv'
<1>. USE DEF Inv, LabelerEvent, syncVars, queueVars, leaderVars
<1>1. notes' \in [Keys -> Nat]
  BY NotifyType DEF Keys
<1>2. \A j \in LabelerKeys :
          /\ cacheAt[j] \in Nat /\ cacheAt'[j] \in DOMAIN history[j]
          /\ cacheAt'[j] \in Nat /\ cacheAt'[j] >= cacheAt[j]
  BY LenProperties DEF TypeOK, SyncTypeOK
<1>3. cacheAt' \in [LabelerKeys -> Nat]
  BY <1>2 DEF TypeOK
<1>4. TypeOK'
  BY <1>1, <1>2, <1>3 DEF TypeOK, SyncTypeOK, Queue!QueueTypeOK
<1>5. WorkerOK'
  BY <1>2 DEF WorkerOK, Reconciling, TypeOK
<1>. QED BY <1>4, <1>5

LEMMA DeploymentEventInv ==
    ASSUME Inv, NEW d \in DeploymentKeys, DeploymentEvent(d)
    PROVE  Inv'
<1>. USE DEF Inv, DeploymentEvent, syncVars, queueVars, leaderVars
<1>1. notes' \in [Keys -> Nat]
  BY NotifyType DEF Keys
<1>2. depWatch' \in [DeploymentKeys -> Seq(BOOLEAN)]
  <2>1. depWatch[d] \in Seq(BOOLEAN) /\ depWatch[d] # <<>>
    BY DEF TypeOK
  <2>2. Tail(depWatch[d]) \in Seq(BOOLEAN)
    BY <2>1, HeadTailProperties
  <2>. QED BY <2>2 DEF TypeOK
<1>3. depCache' \in SUBSET DeploymentKeys
  BY DEF TypeOK
<1>4. TypeOK'
  BY <1>1, <1>2, <1>3 DEF TypeOK, SyncTypeOK, Queue!QueueTypeOK
<1>5. WorkerOK'
  BY DEF WorkerOK, Reconciling
<1>. QED BY <1>4, <1>5

LEMMA ResyncInv ==
    ASSUME Inv, NEW ks, NotifyAll(ks)
    PROVE  Inv'
<1>. USE DEF Inv, NotifyAll, syncVars, informerVars, queueVars, leaderVars
<1>1. notes' \in [Keys -> Nat]
  BY DEF TypeOK
<1>2. TypeOK'
  BY <1>1 DEF TypeOK, SyncTypeOK, Queue!QueueTypeOK
<1>3. WorkerOK'
  BY DEF WorkerOK, Reconciling
<1>. QED BY <1>2, <1>3

LEMMA AddType ==
    ASSUME TypeOK, NEW k \in Keys, Queue!Add(k)
    PROVE  pending' \in [Keys -> 0 .. MaxCopies] /\ active' = active
<1>1. pending \in [Keys -> 0 .. MaxCopies] /\ MaxCopies \in Nat
  BY CopiesAssumption DEF TypeOK, Queue!QueueTypeOK
<1>2. CASE pending[k] < MaxCopies /\ pending' = [pending EXCEPT ![k] = @ + 1]
  <2>1. pending[k] + 1 \in 0 .. MaxCopies
    BY <1>1, <1>2
  <2>. QED BY <1>1, <1>2, <2>1 DEF Queue!Add
<1>3. CASE pending' = pending
  BY <1>1, <1>3 DEF Queue!Add
<1>. QED BY <1>2, <1>3 DEF Queue!Add

LEMMA HandleNoteInv ==
    ASSUME Inv, NEW k \in Keys, HandleNote(k)
    PROVE  Inv'
<1>. USE DEF Inv, HandleNote, syncVars, informerVars, leaderVars
<1>1. notes' \in [Keys -> Nat]
  BY DEF TypeOK
<1>2. pending' \in [Keys -> 0 .. MaxCopies] /\ active' = active
  BY AddType
<1>3. TypeOK'
  BY <1>1, <1>2 DEF TypeOK, SyncTypeOK, Queue!QueueTypeOK
<1>4. WorkerOK'
  BY <1>2 DEF WorkerOK, Reconciling
<1>. QED BY <1>3, <1>4

(***************************************************************************)
(* Workers.                                                                *)
(***************************************************************************)
(* What a worker's step leaves in the worker's own state.                  *)
LEMMA WorkerStepType ==
    ASSUME TypeOK, NEW w \in Workers, NEW at, NEW next \in WorkerStates,
           WorkerStep(w, at, next)
    PROVE  /\ worker' \in [Workers -> WorkerStates]
           /\ worker'[w] = next
           /\ \A v \in Workers \ {w} : worker'[v] = worker[v]
BY DEF TypeOK, WorkerStep, WorkerStates

LEMMA IdleTypes ==
    /\ Idle \in WorkerStates /\ Idle.pc = "idle"
    /\ \A pc \in {"leads", "lookup", "done"} :
           /\ [Idle EXCEPT !.pc = pc] \in WorkerStates
           /\ [Idle EXCEPT !.pc = pc].pc = pc
    /\ \A i \in Nat :
           /\ [Idle EXCEPT !.pc = "list", !.got = i] \in WorkerStates
           /\ [Idle EXCEPT !.pc = "list", !.got = i].pc = "list"
           /\ [Idle EXCEPT !.pc = "list", !.got = i].got = i
BY DEF Idle, WorkerStates

(* A step inside Reconcile: the worker holds its key before and after.     *)
LEMMA ReconcileStepType ==
    ASSUME TypeOK, NEW w \in Workers, NEW at, at # "idle",
           NEW next \in WorkerStates, next.pc # "idle",
           WorkerStep(w, at, next), active' = active
    PROVE  /\ worker' \in [Workers -> WorkerStates]
           /\ \A v \in Workers : (active'[v] = None) <=> (worker'[v].pc = "idle")
           /\ worker'[w] = next
           /\ \A v \in Workers \ {w} : worker'[v] = worker[v]
           /\ active[w] \in Keys
<1>1. /\ worker' \in [Workers -> WorkerStates]
      /\ worker'[w] = next
      /\ \A v \in Workers \ {w} : worker'[v] = worker[v]
  BY WorkerStepType
<1>2. worker[w].pc # "idle"
  BY DEF WorkerStep
<1>3. active[w] \in Keys
  BY <1>2 DEF TypeOK, Queue!QueueTypeOK
<1>4. \A v \in Workers : (active[v] = None) <=> (worker[v].pc = "idle")
  BY DEF TypeOK
<1>. QED BY <1>1, <1>2, <1>3, <1>4

LEMMA GetItemInv ==
    ASSUME Inv, NEW w \in Workers, NEW k \in Keys, GetItem(w, k)
    PROVE  Inv'
<1>. DEFINE taken == pending[k] - 1
            next == [Idle EXCEPT !.pc = "leads"]
<1>. USE DEF Inv, GetItem, syncVars, informerVars, leaderVars
<1>1. /\ active' = [active EXCEPT ![w] = k]
      /\ active' \in [Workers -> Keys \cup {None}]
      /\ pending' \in [Keys -> 0 .. MaxCopies]
  <2>1. /\ pending \in [Keys -> 0 .. MaxCopies] /\ MaxCopies \in Nat
        /\ active \in [Workers -> Keys \cup {None}]
    BY CopiesAssumption DEF TypeOK, Queue!QueueTypeOK
  <2>2. taken \in 0 .. MaxCopies /\ pending' = [pending EXCEPT ![k] = taken]
    BY <2>1 DEF Queue!Get
  <2>3. pending' \in [Keys -> 0 .. MaxCopies]
    <3>. HIDE DEF taken
    <3>. QED BY <2>1, <2>2
  <2>. QED BY <2>1, <2>3 DEF Queue!Get
<1>2. next \in WorkerStates /\ next.pc = "leads"
  BY IdleTypes
<1>3. /\ worker' \in [Workers -> WorkerStates]
      /\ worker'[w] = next
      /\ \A v \in Workers \ {w} : worker'[v] = worker[v]
  BY <1>2, WorkerStepType
<1>4. \A v \in Workers : (active'[v] = None) <=> (worker'[v].pc = "idle")
  <2>1. k # None /\ \A v \in Workers : (active[v] = None) <=> (worker[v].pc = "idle")
    BY NoneIsNoKey DEF TypeOK
  <2>2. active'[w] = k /\ \A v \in Workers \ {w} : active'[v] = active[v]
    BY <1>1 DEF TypeOK, Queue!QueueTypeOK
  <2>. HIDE DEF next
  <2>. QED BY <1>2, <1>3, <2>1, <2>2
<1>5. TypeOK'
  BY <1>1, <1>3, <1>4 DEF TypeOK, SyncTypeOK, Queue!QueueTypeOK, WorkerStates
<1>6. WorkerOK'
  <2>. SUFFICES ASSUME NEW v \in Workers, Reconciling(v)'
                PROVE  v # w
    BY <1>1, <1>3 DEF WorkerOK, Reconciling, TypeOK, Queue!QueueTypeOK
  <2>. HIDE DEF next
  <2>. QED BY <1>2, <1>3 DEF Reconciling
<1>. QED BY <1>5, <1>6

LEMMA CheckLeaderInv ==
    ASSUME Inv, NEW w \in Workers, CheckLeader(w)
    PROVE  Inv'
<1>. DEFINE next == [Idle EXCEPT !.pc = IF leader THEN "lookup" ELSE "done"]
<1>. USE DEF Inv, CheckLeader, syncVars, informerVars, leaderVars, queueVars
<1>1. next \in WorkerStates /\ next.pc \in {"lookup", "done"}
  BY IdleTypes
<1>2. WorkerStep(w, "leads", next) /\ active' = active
  OBVIOUS
<1>. HIDE DEF next
<1>3. /\ worker' \in [Workers -> WorkerStates]
      /\ \A v \in Workers : (active'[v] = None) <=> (worker'[v].pc = "idle")
      /\ worker'[w] = next
      /\ \A v \in Workers \ {w} : worker'[v] = worker[v]
  BY <1>1, <1>2, ReconcileStepType
<1>4. TypeOK'
  BY <1>3 DEF TypeOK, SyncTypeOK, Queue!QueueTypeOK, WorkerStates
<1>5. WorkerOK'
  BY <1>1, <1>3 DEF WorkerOK, Reconciling
<1>. QED BY <1>4, <1>5

LEMMA LookUpInv ==
    ASSUME Inv, NEW w \in Workers, LookUp(w)
    PROVE  Inv'
<1>. DEFINE k == active[w]
            reconcile == k \in LabelerKeys /\ Cached(k).status = "live"
            next == IF reconcile THEN [Idle EXCEPT !.pc = "list", !.got = cacheAt[k]]
                                 ELSE [Idle EXCEPT !.pc = "done"]
<1>. USE DEF Inv, LookUp, syncVars, informerVars, leaderVars, queueVars
<1>1. /\ next \in WorkerStates /\ next.pc \in {"list", "done"}
      /\ next.pc = "list" => reconcile /\ next.got = cacheAt[k]
  <2>1. CASE reconcile
    <3>1. cacheAt[k] \in Nat
      BY <2>1 DEF TypeOK
    <3>. QED BY <2>1, <3>1, IdleTypes
  <2>2. CASE ~reconcile
    BY <2>2, IdleTypes
  <2>. QED BY <2>1, <2>2
<1>2. WorkerStep(w, "lookup", next) /\ active' = active
  OBVIOUS
<1>3. seen' \in [LabelerKeys -> Nat]
  BY DEF TypeOK
<1>. HIDE DEF next
<1>4. /\ worker' \in [Workers -> WorkerStates]
      /\ \A v \in Workers : (active'[v] = None) <=> (worker'[v].pc = "idle")
      /\ worker'[w] = next
      /\ \A v \in Workers \ {w} : worker'[v] = worker[v]
  BY <1>1, <1>2, ReconcileStepType
<1>5. TypeOK'
  BY <1>3, <1>4 DEF TypeOK, SyncTypeOK, Queue!QueueTypeOK, WorkerStates
<1>6. WorkerOK'
  <2>. SUFFICES ASSUME NEW v \in Workers, Reconciling(v)'
                PROVE  /\ active[v] \in LabelerKeys
                       /\ worker'[v].got \in 1 .. cacheAt[active[v]]
                       /\ history[active[v]][worker'[v].got].status = "live"
    BY DEF WorkerOK
  <2>1. CASE v = w
    <3>1. reconcile /\ worker'[v].got = cacheAt[k]
      BY <1>1, <1>4, <2>1 DEF Reconciling
    <3>2. cacheAt[k] \in 1 .. cacheAt[k]
      BY <3>1, LenProperties DEF TypeOK, SyncTypeOK
    <3>. QED BY <2>1, <3>1, <3>2 DEF Cached
  <2>2. CASE v # w
    BY <1>4, <2>2 DEF WorkerOK, Reconciling
  <2>. QED BY <2>1, <2>2
<1>. QED BY <1>5, <1>6

LEMMA ListDeploymentsInv ==
    ASSUME Inv, NEW w \in Workers, ListDeployments(w)
    PROVE  Inv'
<1>. DEFINE next == [worker[w] EXCEPT !.pc = "patch", !.todo = depCache]
<1>. USE DEF Inv, ListDeployments, syncVars, informerVars, leaderVars, queueVars
<1>1. /\ next \in WorkerStates /\ next.pc = "patch" /\ next.got = worker[w].got
      /\ worker[w].pc = "list"
  BY DEF TypeOK, WorkerStates, WorkerStep
<1>2. WorkerStep(w, "list", next) /\ active' = active
  OBVIOUS
<1>. HIDE DEF next
<1>3. /\ worker' \in [Workers -> WorkerStates]
      /\ \A v \in Workers : (active'[v] = None) <=> (worker'[v].pc = "idle")
      /\ worker'[w] = next
      /\ \A v \in Workers \ {w} : worker'[v] = worker[v]
  BY <1>1, <1>2, ReconcileStepType
<1>4. excused' \in SUBSET (LabelerKeys \X DeploymentKeys)
  BY <1>1 DEF WorkerOK, Reconciling, TypeOK, Present
<1>5. TypeOK'
  BY <1>3, <1>4 DEF TypeOK, SyncTypeOK, Queue!QueueTypeOK
<1>6. WorkerOK'
  BY <1>1, <1>3 DEF WorkerOK, Reconciling
<1>. QED BY <1>5, <1>6

(* What the end of one PATCH, good or bad, does to the worker's state.     *)
LEMMA PatchedType ==
    ASSUME Inv, NEW w \in Workers, NEW d, Patched(w, d),
           active' = active, cacheAt' = cacheAt, history' = history
    PROVE  /\ worker' \in [Workers -> WorkerStates]
           /\ \A v \in Workers : (active'[v] = None) <=> (worker'[v].pc = "idle")
           /\ \A v \in Workers : worker'[v].got = worker[v].got /\ worker'[v].pc = worker[v].pc
           /\ WorkerOK'
           /\ active[w] \in LabelerKeys
           /\ worker[w].got \in 1 .. cacheAt[active[w]]
<1>. DEFINE next == [worker[w] EXCEPT !.todo = @ \ {d}]
<1>1. /\ next \in WorkerStates /\ next.pc = "patch" /\ next.got = worker[w].got
      /\ worker[w].pc = "patch"
  BY DEF Inv, TypeOK, WorkerStates, WorkerStep, Patched
<1>2. WorkerStep(w, "patch", next)
  BY DEF Patched
<1>. HIDE DEF next
<1>3. /\ worker' \in [Workers -> WorkerStates]
      /\ \A v \in Workers : (active'[v] = None) <=> (worker'[v].pc = "idle")
      /\ worker'[w] = next
      /\ \A v \in Workers \ {w} : worker'[v] = worker[v]
  BY <1>1, <1>2, ReconcileStepType DEF Inv
<1>4. \A v \in Workers : worker'[v].got = worker[v].got /\ worker'[v].pc = worker[v].pc
  BY <1>1, <1>3
<1>5. WorkerOK'
  BY <1>4 DEF Inv, WorkerOK, Reconciling
<1>. QED BY <1>1, <1>3, <1>4, <1>5 DEF Inv, WorkerOK, Reconciling

LEMMA MergeIntoType ==
    ASSUME TypeOK, NEW k \in LabelerKeys, NEW i, NEW d \in DeploymentKeys,
           MergeInto(k, i, d)
    PROVE  deployment' \in [DeploymentKeys -> LabelMaps \cup {Absent}]
<1>1. history[k][i] \in Versions
  BY ElementOfSeq, LenProperties DEF TypeOK, SyncTypeOK, MergeInto, Published
<1>2. Merge(deployment[d], history[k][i].labels) \in LabelMaps
  BY <1>1, MergeType DEF TypeOK, SyncTypeOK, MergeInto, Versions
<1>. QED BY <1>2 DEF TypeOK, SyncTypeOK, MergeInto

LEMMA PatchInv ==
    ASSUME Inv, NEW w \in Workers, NEW d \in DeploymentKeys, Patch(w, d)
    PROVE  Inv'
<1>. USE DEF Inv, Patch, leaderVars, queueVars
<1>1. /\ worker' \in [Workers -> WorkerStates]
      /\ \A v \in Workers : (active'[v] = None) <=> (worker'[v].pc = "idle")
      /\ WorkerOK'
      /\ active[w] \in LabelerKeys
      /\ worker[w].got \in Nat
  BY PatchedType DEF TypeOK
<1>2. deployment' \in [DeploymentKeys -> LabelMaps \cup {Absent}]
  BY <1>1, MergeIntoType
<1>3. depWatch' \in [DeploymentKeys -> Seq(BOOLEAN)]
  BY DeploymentWrittenType DEF TypeOK
<1>4. applied' \in [LabelerKeys -> [DeploymentKeys -> Nat]]
  BY <1>1 DEF TypeOK, SyncTypeOK
<1>5. SyncTypeOK'
  BY <1>2, <1>4 DEF TypeOK, SyncTypeOK
<1>6. TypeOK'
  BY <1>1, <1>3, <1>5 DEF TypeOK, Queue!QueueTypeOK
<1>. QED BY <1>1, <1>6

LEMMA PatchNotFoundInv ==
    ASSUME Inv, NEW w \in Workers, NEW d \in DeploymentKeys, PatchNotFound(w, d)
    PROVE  Inv'
<1>. USE DEF Inv, PatchNotFound, syncVars, informerVars, leaderVars, queueVars
<1>1. /\ worker' \in [Workers -> WorkerStates]
      /\ \A v \in Workers : (active'[v] = None) <=> (worker'[v].pc = "idle")
      /\ WorkerOK'
  BY PatchedType
<1>. QED BY <1>1 DEF TypeOK, SyncTypeOK, Queue!QueueTypeOK

LEMMA PatchRefusedInv ==
    ASSUME Inv, NEW w \in Workers, NEW d \in DeploymentKeys, PatchRefused(w, d)
    PROVE  Inv'
<1>. USE DEF Inv, PatchRefused, syncVars, informerVars, leaderVars, queueVars
<1>1. /\ worker' \in [Workers -> WorkerStates]
      /\ \A v \in Workers : (active'[v] = None) <=> (worker'[v].pc = "idle")
      /\ WorkerOK'
      /\ active[w] \in LabelerKeys
  BY PatchedType
<1>2. excused' \in SUBSET (LabelerKeys \X DeploymentKeys)
  BY <1>1 DEF TypeOK
<1>. QED BY <1>1, <1>2 DEF TypeOK, SyncTypeOK, Queue!QueueTypeOK

LEMMA PatchFailsInv ==
    ASSUME Inv, NEW w \in Workers, NEW d \in DeploymentKeys, PatchFails(w, d)
    PROVE  Inv'
<1>. USE DEF Inv, PatchFails, syncVars, informerVars, leaderVars, queueVars
<1>1. /\ worker' \in [Workers -> WorkerStates]
      /\ \A v \in Workers : (active'[v] = None) <=> (worker'[v].pc = "idle")
      /\ WorkerOK'
      /\ active[w] \in LabelerKeys
  BY PatchedType
<1>2. spent' \in [Kinds -> Nat]
  BY SpendType DEF Kinds
<1>3. excused' \in SUBSET (LabelerKeys \X DeploymentKeys)
  BY <1>1 DEF TypeOK
<1>4. TypeOK'
  BY <1>1, <1>2, <1>3 DEF TypeOK, SyncTypeOK, Queue!QueueTypeOK
<1>. QED BY <1>1, <1>4

LEMMA DoneInv ==
    ASSUME Inv, NEW w \in Workers, Done(w)
    PROVE  Inv'
<1>. USE DEF Inv, Done, syncVars, informerVars, leaderVars, Queue!Done
<1>1. worker' \in [Workers -> WorkerStates]
  BY IdleTypes DEF TypeOK
<1>2. active' \in [Workers -> Keys \cup {None}] /\ pending' = pending
  BY DEF TypeOK, Queue!QueueTypeOK
<1>3. \A v \in Workers : (active'[v] = None) <=> (worker'[v].pc = "idle")
  BY IdleTypes DEF TypeOK, Queue!QueueTypeOK
<1>4. TypeOK'
  BY <1>1, <1>2, <1>3 DEF TypeOK, SyncTypeOK, Queue!QueueTypeOK
<1>5. WorkerOK'
  BY IdleTypes DEF WorkerOK, Reconciling, TypeOK, Queue!QueueTypeOK
<1>. QED BY <1>4, <1>5

(***************************************************************************)
(* Leadership, crash and start.                                            *)
(***************************************************************************)
LEMMA LeadershipInv ==
    ASSUME Inv, Leadership
    PROVE  Inv'
<1>. USE DEF Inv, syncVars, informerVars, queueVars
<1>1. CASE Elected
  BY <1>1 DEF Elected, TypeOK, SyncTypeOK, Queue!QueueTypeOK, WorkerOK, Reconciling
<1>2. CASE PromoteList
  <2>1. promoteKeys' \in SUBSET LabelerKeys
    BY <1>2 DEF PromoteList, CachedLabelers, LabelersAt, TypeOK
  <2>2. TypeOK'
    BY <1>2, <2>1 DEF PromoteList, TypeOK, SyncTypeOK, Queue!QueueTypeOK
  <2>3. WorkerOK'
    BY <1>2 DEF PromoteList, WorkerOK, Reconciling
  <2>. QED BY <2>2, <2>3
<1>3. ASSUME NEW k \in LabelerKeys, PromoteEnqueue(k) PROVE Inv'
  <2>1. pending' \in [Keys -> 0 .. MaxCopies] /\ active' = active
    BY <1>3, AddType DEF PromoteEnqueue, Keys
  <2>2. promoteKeys' \in SUBSET LabelerKeys
    BY <1>3 DEF PromoteEnqueue, TypeOK
  <2>3. TypeOK'
    BY <1>3, <2>1, <2>2 DEF PromoteEnqueue, TypeOK, SyncTypeOK, Queue!QueueTypeOK
  <2>4. WorkerOK'
    BY <1>3, <2>1 DEF PromoteEnqueue, WorkerOK, Reconciling
  <2>. QED BY <2>3, <2>4
<1>. QED BY <1>1, <1>2, <1>3 DEF Leadership

LEMMA DemotedInv ==
    ASSUME Inv, Demoted
    PROVE  Inv'
<1>. USE DEF Inv, Demoted, syncVars, informerVars, queueVars
<1>1. spent' \in [Kinds -> Nat]
  BY SpendType DEF Kinds
<1>2. TypeOK'
  BY <1>1 DEF TypeOK, SyncTypeOK, Queue!QueueTypeOK
<1>3. WorkerOK'
  BY DEF WorkerOK, Reconciling
<1>. QED BY <1>2, <1>3

LEMMA InFlightType ==
    ASSUME Inv, NEW w \in Workers
    PROVE  \A r \in InFlight(w) :
               r \in Requests /\ Published(r.labeler, r.version)
<1>1. CASE worker[w].pc # "patch"
  BY <1>1 DEF InFlight
<1>2. CASE worker[w].pc = "patch"
  <2>1. /\ active[w] \in LabelerKeys
        /\ worker[w].got \in 1 .. cacheAt[active[w]]
        /\ history[active[w]][worker[w].got].status = "live"
    BY <1>2 DEF Inv, WorkerOK, Reconciling
  <2>2. worker[w].got \in DOMAIN history[active[w]] /\ worker[w].got \in Nat
    BY <2>1, LenProperties DEF Inv, TypeOK, SyncTypeOK
  <2>3. worker[w].todo \in SUBSET DeploymentKeys
    BY DEF Inv, TypeOK, WorkerStates
  <2>. QED BY <1>2, <2>1, <2>2, <2>3 DEF InFlight, Requests, Published
<1>. QED BY <1>1, <1>2

LEMMA CrashInv ==
    ASSUME Inv, Crash
    PROVE  Inv'
<1>. USE DEF Inv, Crash, informerVars
<1>1. spent' \in [Kinds -> Nat]
  BY SpendType DEF Kinds
<1>2. late' \in SUBSET Requests
  BY InFlightType DEF TypeOK, SyncTypeOK
<1>3. SyncTypeOK'
  BY <1>2 DEF TypeOK, SyncTypeOK, Nothing
<1>4. worker' \in [Workers -> WorkerStates] /\ \A w \in Workers : worker'[w].pc = "idle"
  BY IdleTypes
<1>5. Queue!QueueTypeOK'
  BY CopiesAssumption DEF Queue!QueueTypeOK
<1>6. TypeOK'
  BY <1>1, <1>3, <1>4, <1>5 DEF TypeOK
<1>7. WorkerOK'
  BY <1>4 DEF WorkerOK, Reconciling
<1>. QED BY <1>6, <1>7

(* While no process runs nothing is queued, noted, held or led.            *)
DownOK ==
    ~up => /\ \A w \in Workers : active[w] = None
           /\ \A k \in Keys : notes[k] = 0 /\ pending[k] = 0
           /\ ~leader /\ ~promoting /\ promoteKeys = {}
           /\ applied = Nothing

LEMMA StartInv ==
    ASSUME Inv, DownOK, Start
    PROVE  Inv'
<1>. USE DEF Inv, Start, syncVars, queueVars, leaderVars
<1>1. /\ cacheAt' \in [LabelerKeys -> Nat]
      /\ \A k \in LabelerKeys : cacheAt'[k] \in DOMAIN history[k]
  <2>1. PICK at \in [LabelerKeys -> UNION {DOMAIN history[k] : k \in LabelerKeys}] :
           /\ \A k \in LabelerKeys : at[k] \in DOMAIN history[k]
           /\ cacheAt' = at
    OBVIOUS
  <2>2. ASSUME NEW k \in LabelerKeys PROVE DOMAIN history[k] \subseteq Nat
    <3>1. history[k] \in Seq(Versions)
      BY DEF TypeOK, SyncTypeOK
    <3>. QED BY <3>1, LenProperties
  <2>. QED BY <2>1, <2>2
<1>2. depCache' \in SUBSET DeploymentKeys
  OBVIOUS
<1>3. depWatch' \in [DeploymentKeys -> Seq(BOOLEAN)]
  <2>1. PICK skip \in [DeploymentKeys -> 0 .. MaxLag] :
           /\ \A d \in DeploymentKeys : skip[d] <= Len(depWatch[d])
           /\ depWatch' = [d \in DeploymentKeys |->
                             SubSeq(depWatch[d], skip[d] + 1, Len(depWatch[d]))]
    OBVIOUS
  <2>2. ASSUME NEW d \in DeploymentKeys
        PROVE  SubSeq(depWatch[d], skip[d] + 1, Len(depWatch[d])) \in Seq(BOOLEAN)
    <3>1. depWatch[d] \in Seq(BOOLEAN) /\ skip[d] \in Nat
      BY BoundsAssumption DEF TypeOK
    <3>. QED BY <3>1, SubSeqProperties, LenProperties
  <2>. QED BY <2>1, <2>2
<1>4. notes' \in [Keys -> Nat]
  OBVIOUS
<1>5. TypeOK'
  BY <1>1, <1>2, <1>3, <1>4 DEF TypeOK, SyncTypeOK, Queue!QueueTypeOK
<1>6. WorkerOK'
  BY DEF WorkerOK, Reconciling, DownOK, TypeOK
<1>. QED BY <1>5, <1>6

LEMMA LandLateInv ==
    ASSUME Inv, NEW r \in late, LandLate(r)
    PROVE  Inv'
<1>. USE DEF Inv, LandLate, Land, queueVars, leaderVars
<1>1. r \in Requests
  BY DEF TypeOK, SyncTypeOK
<1>2. deployment' \in [DeploymentKeys -> LabelMaps \cup {Absent}]
  BY <1>1, MergeIntoType DEF Requests
<1>3. depWatch' \in [DeploymentKeys -> Seq(BOOLEAN)]
  BY <1>1, DeploymentWrittenType DEF TypeOK, Requests
<1>4. excused' \in SUBSET (LabelerKeys \X DeploymentKeys)
  BY <1>1 DEF TypeOK, Requests
<1>5. SyncTypeOK'
  BY <1>2 DEF TypeOK, SyncTypeOK
<1>6. TypeOK'
  BY <1>3, <1>4, <1>5 DEF TypeOK, Queue!QueueTypeOK
<1>7. WorkerOK'
  BY DEF WorkerOK, Reconciling
<1>. QED BY <1>6, <1>7

LEMMA LoseLateInv ==
    ASSUME Inv, NEW r \in late, LoseLate(r)
    PROVE  Inv'
BY DEF Inv, LoseLate, Vanish, queueVars, leaderVars, informerVars, TypeOK,
       SyncTypeOK, Queue!QueueTypeOK, WorkerOK, Reconciling

(***************************************************************************)
(* No process, no work: only users, late requests and a start can take a   *)
(* step then, and only a crash leads there.                                *)
(***************************************************************************)
LEMMA InitDown == Init => DownOK
BY DEF Init, DownOK, Queue!QueueInit

LEMMA CrashDown ==
    ASSUME Crash
    PROVE  DownOK'
BY DEF Crash, DownOK, Nothing

(* A worker that is in the middle of something, a notification, a queued   *)
(* key, a leader or a promotion: the process runs.                         *)
LEMMA WorkMeansUp ==
    ASSUME Inv, DownOK
    PROVE  /\ \A w \in Workers : worker[w].pc # "idle" => up
           /\ \A k \in Keys : notes[k] > 0 \/ pending[k] > 0 => up
           /\ leader \/ promoting \/ promoteKeys # {} => up
<1>1. ASSUME NEW w \in Workers, worker[w].pc # "idle" PROVE up
  BY <1>1 DEF Inv, TypeOK, DownOK
<1>. QED BY <1>1 DEF DownOK

LEMMA EnvironmentDown ==
    ASSUME Inv, DownOK, Environment
    PROVE  DownOK'
<1>1. ASSUME NEW k \in LabelerKeys, NEW v, Publish(k, v) PROVE DownOK'
  BY <1>1 DEF Publish, DownOK, queueVars, leaderVars
<1>2. ASSUME NEW d \in DeploymentKeys, SaveDeployment(d) PROVE DownOK'
  BY <1>2 DEF SaveDeployment, DownOK, queueVars, leaderVars
<1>3. ASSUME NEW r \in late, LandLate(r) \/ LoseLate(r) PROVE DownOK'
  BY <1>3 DEF LandLate, LoseLate, Land, Vanish, DownOK, queueVars, leaderVars
<1>4. CASE Demoted
  BY <1>4, WorkMeansUp DEF Demoted, DownOK
<1>. QED BY <1>1, <1>2, <1>3, <1>4, CrashDown
         DEF Environment, SaveLabeler, MarkDeleting, RemoveLabeler

LEMMA InformersDown ==
    ASSUME Inv, DownOK, Informers
    PROVE  DownOK'
<1>1. up /\ up' = up
  BY WorkMeansUp DEF Informers, LabelerEvent, DeploymentEvent, HandleNote,
       ResyncLabelers, ResyncDeployments, NotifyAll
<1>. QED BY <1>1 DEF DownOK

LEMMA WorkersDown ==
    ASSUME Inv, DownOK, NEW w \in Workers,
           Reconcile(w) \/ \E k \in Keys : GetItem(w, k)
    PROVE  DownOK'
<1>1. up' = up
  BY DEF Reconcile, GetItem, CheckLeader, LookUp, ListDeployments, Done, Patch,
         PatchNotFound, PatchRefused, PatchFails
<1>2. CASE Reconcile(w)
  <2>1. worker[w].pc # "idle"
    BY <1>2 DEF Reconcile, CheckLeader, LookUp, ListDeployments, Done, Patch,
         PatchNotFound, PatchRefused, PatchFails, Patched, WorkerStep
  <2>. QED BY <1>1, <2>1, WorkMeansUp DEF DownOK
<1>3. CASE \E k \in Keys : GetItem(w, k)
  BY <1>1, <1>3 DEF GetItem, DownOK
<1>. QED BY <1>2, <1>3

LEMMA LeadershipDown ==
    ASSUME Inv, DownOK, Leadership
    PROVE  DownOK'
<1>1. up /\ up' = up
  BY WorkMeansUp DEF Leadership, Elected, PromoteList, PromoteEnqueue
<1>. QED BY <1>1 DEF DownOK

(***************************************************************************)
(* The steps together.                                                     *)
(***************************************************************************)
LEMMA NextInv ==
    ASSUME Inv, DownOK, Next
    PROVE  Inv' /\ DownOK'
<1>1. CASE Environment
  <2>1. Inv'
    BY <1>1, SaveLabelerInv, MarkDeletingInv, RemoveLabelerInv, SaveDeploymentInv,
       LandLateInv, LoseLateInv, CrashInv, DemotedInv DEF Environment
  <2>. QED BY <1>1, <2>1, EnvironmentDown
<1>2. CASE Informers
  <2>1. Inv'
    BY <1>2, LabelerEventInv, DeploymentEventInv, HandleNoteInv, ResyncInv
       DEF Informers, ResyncLabelers, ResyncDeployments
  <2>. QED BY <1>2, <2>1, InformersDown
<1>3. ASSUME NEW w \in Workers, Reconcile(w) \/ \E k \in Keys : GetItem(w, k)
      PROVE  Inv' /\ DownOK'
  <2>1. Inv'
    BY <1>3, CheckLeaderInv, LookUpInv, ListDeploymentsInv, PatchInv,
       PatchNotFoundInv, PatchRefusedInv, PatchFailsInv, DoneInv, GetItemInv DEF Reconcile
  <2>. QED BY <1>3, <2>1, WorkersDown
<1>4. CASE Leadership
  BY <1>4, LeadershipInv, LeadershipDown
<1>5. CASE Start
  BY <1>5, StartInv DEF Start, DownOK
<1>. QED BY <1>1, <1>2, <1>3, <1>4, <1>5 DEF Next

LEMMA StutterInv ==
    ASSUME Inv, DownOK, UNCHANGED vars
    PROVE  Inv' /\ DownOK'
<1>. USE DEF vars, syncVars, informerVars, queueVars, leaderVars
<1>1. Inv'
  BY DEF Inv, TypeOK, SyncTypeOK, Queue!QueueTypeOK, WorkerOK, Reconciling, WorkerStates
<1>2. DownOK'
  BY DEF DownOK
<1>. QED BY <1>1, <1>2

(***************************************************************************)
(* The controller is type correct: in particular the informer's cache      *)
(* always holds a published version, and a worker holds a key exactly from *)
(* Get to Done, through crashes, restarts and demotions.                   *)
(***************************************************************************)
THEOREM InvHolds == Spec => [](Inv /\ DownOK)
<1>1. Inv /\ DownOK /\ [Next]_vars => Inv' /\ DownOK'
  BY NextInv, StutterInv
<1>. QED BY <1>1, InitInv, InitDown, PTL DEF Spec

THEOREM TypeCorrect == Spec => []TypeOK
<1>1. Inv => TypeOK
  BY DEF Inv
<1>. QED BY <1>1, InvHolds, PTL

=============================================================================
