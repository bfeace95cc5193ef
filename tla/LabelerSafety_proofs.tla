------------------------ MODULE LabelerSafety_proofs ------------------------
(***************************************************************************)
(* The safety properties of LabelerProperties that do not depend on the    *)
(* bounds of a run: nothing is lost, nothing goes backwards, no label is   *)
(* removed, the controller implements LabelSync, and when nothing is left  *)
(* to do, what was asked for has been applied.                             *)
(***************************************************************************)
EXTENDS LabelerController_proofs

(* The invariant that the proofs below rest on.                            *)
AppliedOK ==
    \A k \in LabelerKeys, d \in DeploymentKeys : applied[k][d] <= cacheAt[k]

HolderOK ==
    \A w \in Workers : Reconciling(w) =>
        \A d \in DeploymentKeys : applied[active[w]][d] <= worker[w].got

Sound == Inv /\ DownOK

Forward == AppliedOK /\ HolderOK /\ Queue!OneWorkerPerKey

(* The actions that merge nothing, look nothing up and hand nothing out.   *)
Aside ==
    /\ UNCHANGED <<applied, active>>
    /\ \A k \in LabelerKeys : cacheAt'[k] \in Nat /\ cacheAt'[k] >= cacheAt[k]
    /\ \A w \in Workers : Reconciling(w)' => Reconciling(w) /\ worker'[w].got = worker[w].got

(***************************************************************************)
(* A version merged is one that the cache has reached, and whoever works   *)
(* on a Labeler has a version at least as new as any merged before.        *)
(***************************************************************************)
LEMMA InitForward == Init => Forward
<1>. SUFFICES ASSUME Init PROVE Forward
  OBVIOUS
<1>1. AppliedOK
  BY DEF Init, AppliedOK, Nothing
<1>2. HolderOK
  BY IdleTypes DEF Init, HolderOK, Reconciling
<1>3. Queue!OneWorkerPerKey
  BY DEF Init, Queue!QueueInit, Queue!OneWorkerPerKey
<1>. QED BY <1>1, <1>2, <1>3 DEF Forward

LEMMA AsideForward ==
    ASSUME Inv, Forward, Aside
    PROVE  Forward'
<1>. USE DEF Forward, Aside
<1>1. AppliedOK'
  <2>. SUFFICES ASSUME NEW k \in LabelerKeys, NEW d \in DeploymentKeys
                PROVE  applied[k][d] <= cacheAt'[k]
    BY DEF AppliedOK
  <2>1. applied[k][d] <= cacheAt[k] /\ cacheAt'[k] >= cacheAt[k] /\ cacheAt'[k] \in Nat
    BY DEF AppliedOK
  <2>2. cacheAt[k] \in Nat /\ applied[k][d] \in Nat
    BY DEF Inv, TypeOK, SyncTypeOK
  <2>. QED BY <2>1, <2>2
<1>2. HolderOK'
  BY DEF HolderOK
<1>3. Queue!OneWorkerPerKey'
  BY DEF Queue!OneWorkerPerKey
<1>. QED BY <1>1, <1>2, <1>3

(* Where nothing but the worker's own place changes, Aside is about it.    *)
LEMMA KeepsAside ==
    ASSUME Inv, UNCHANGED <<applied, active, cacheAt, worker>>
    PROVE  Aside
BY DEF Aside, Reconciling, Inv, TypeOK

LEMMA EnvironmentForward ==
    ASSUME Sound, Forward, Environment
    PROVE  Forward'
<1>. USE DEF Sound, informerVars, queueVars, leaderVars
<1>1. ASSUME NEW k \in LabelerKeys, NEW v, Publish(k, v) PROVE Forward'
  BY <1>1, KeepsAside, AsideForward DEF Publish
<1>2. ASSUME NEW d \in DeploymentKeys, SaveDeployment(d) PROVE Forward'
  BY <1>2, KeepsAside, AsideForward DEF SaveDeployment
<1>3. ASSUME NEW r \in late, LandLate(r) \/ LoseLate(r) PROVE Forward'
  BY <1>3, KeepsAside, AsideForward DEF LandLate, LoseLate, Land, Vanish
<1>4. CASE Demoted
  BY <1>4, KeepsAside, AsideForward DEF Demoted, syncVars
<1>5. CASE Crash
  <2>1. AppliedOK'
    BY <1>5 DEF Crash, AppliedOK, Nothing, Inv, TypeOK
  <2>2. HolderOK'
    BY <1>5, IdleTypes DEF Crash, HolderOK, Reconciling
  <2>3. Queue!OneWorkerPerKey'
    BY <1>5 DEF Crash, Queue!OneWorkerPerKey
  <2>. QED BY <2>1, <2>2, <2>3 DEF Forward
<1>. QED BY <1>1, <1>2, <1>3, <1>4, <1>5
         DEF Environment, SaveLabeler, MarkDeleting, RemoveLabeler

LEMMA InformersForward ==
    ASSUME Sound, Forward, Informers
    PROVE  Forward'
<1>. USE DEF Sound, syncVars, informerVars, queueVars, leaderVars
<1>1. ASSUME NEW k \in LabelerKeys, LabelerEvent(k) PROVE Forward'
  BY <1>1, AsideForward DEF LabelerEvent, Aside, Reconciling, Inv, TypeOK
<1>2. ASSUME NEW d \in DeploymentKeys, DeploymentEvent(d) PROVE Forward'
  BY <1>2, KeepsAside, AsideForward DEF DeploymentEvent
<1>3. ASSUME NEW k \in Keys, HandleNote(k) PROVE Forward'
  BY <1>3, KeepsAside, AsideForward DEF HandleNote, Queue!Add
<1>4. ASSUME NEW ks, NotifyAll(ks) PROVE Forward'
  BY <1>4, KeepsAside, AsideForward DEF NotifyAll
<1>. QED BY <1>1, <1>2, <1>3, <1>4 DEF Informers, ResyncLabelers, ResyncDeployments

LEMMA LeadershipForward ==
    ASSUME Sound, Forward, Leadership
    PROVE  Forward'
BY KeepsAside, AsideForward
   DEF Sound, Leadership, Elected, PromoteList, PromoteEnqueue, Queue!Add,
       syncVars, informerVars, queueVars

(* The keys that workers hold after a Get are distinct: Get looks.         *)
LEMMA GetItemForward ==
    ASSUME Sound, Forward, NEW w \in Workers, NEW k \in Keys, GetItem(w, k)
    PROVE  Forward'
<1>. USE DEF Sound, Forward, GetItem, syncVars, informerVars
<1>1. /\ active' = [active EXCEPT ![w] = k]
      /\ active \in [Workers -> Keys \cup {None}]
      /\ \A v \in Workers : active[v] # k
  BY DEF Queue!Get, Inv, TypeOK, Queue!QueueTypeOK
<1>2. Queue!OneWorkerPerKey'
  BY <1>1 DEF Queue!OneWorkerPerKey
<1>3. /\ worker'[w].pc = "leads"
      /\ \A v \in Workers \ {w} : worker'[v] = worker[v]
  <2>. DEFINE next == [Idle EXCEPT !.pc = "leads"]
  <2>1. next \in WorkerStates /\ next.pc = "leads" /\ WorkerStep(w, "idle", next)
    BY IdleTypes
  <2>. HIDE DEF next
  <2>. QED BY <2>1, WorkerStepType DEF Inv
<1>4. HolderOK'
  <2>. SUFFICES ASSUME NEW v \in Workers, Reconciling(v)'
                PROVE  /\ Reconciling(v) /\ worker'[v] = worker[v] /\ active'[v] = active[v]
    BY DEF HolderOK
  <2>. QED BY <1>1, <1>3 DEF Reconciling
<1>5. AppliedOK'
  BY DEF AppliedOK
<1>. QED BY <1>2, <1>4, <1>5

(* A lookup gets what the cache has now, which is as new as anything.      *)
LEMMA LookUpForward ==
    ASSUME Sound, Forward, NEW w \in Workers, LookUp(w)
    PROVE  Forward'
<1>. USE DEF Sound, Forward, LookUp, syncVars, informerVars, queueVars
<1>1. /\ worker'[w].pc \in {"list", "done"}
      /\ worker'[w].pc = "list" => active[w] \in LabelerKeys /\ worker'[w].got = cacheAt[active[w]]
      /\ \A v \in Workers \ {w} : worker'[v] = worker[v]
  <2>. DEFINE found == active[w] \in LabelerKeys /\ Cached(active[w]).status = "live"
              next == IF found
                        THEN [Idle EXCEPT !.pc = "list", !.got = cacheAt[active[w]]]
                        ELSE [Idle EXCEPT !.pc = "done"]
  <2>1. /\ next \in WorkerStates /\ next.pc \in {"list", "done"}
        /\ next.pc = "list" => active[w] \in LabelerKeys /\ next.got = cacheAt[active[w]]
    <3>1. CASE found
      <4>1. cacheAt[active[w]] \in Nat
        BY <3>1 DEF Inv, TypeOK
      <4>. QED BY <3>1, <4>1, IdleTypes
    <3>2. CASE ~found
      BY <3>2, IdleTypes
    <3>. QED BY <3>1, <3>2
  <2>2. WorkerStep(w, "lookup", next)
    OBVIOUS
  <2>. HIDE DEF next
  <2>. QED BY <2>1, <2>2, WorkerStepType DEF Inv
<1>2. HolderOK'
  <2>. SUFFICES ASSUME NEW v \in Workers, Reconciling(v)', NEW d \in DeploymentKeys
                PROVE  applied[active[v]][d] <= worker'[v].got
    BY DEF HolderOK
  <2>1. CASE v = w
    BY <1>1, <2>1 DEF Reconciling, AppliedOK
  <2>2. CASE v # w
    BY <1>1, <2>2 DEF Reconciling, HolderOK
  <2>. QED BY <2>1, <2>2
<1>3. AppliedOK' /\ Queue!OneWorkerPerKey'
  BY DEF AppliedOK, Queue!OneWorkerPerKey
<1>. QED BY <1>2, <1>3

(* A worker that merges its version is the only one at work on that        *)
(* Labeler, and has a version no older than the last one merged.           *)
LEMMA PatchMoves ==
    ASSUME Sound, Forward, NEW w \in Workers, NEW d \in DeploymentKeys, Patch(w, d)
    PROVE  /\ active[w] \in LabelerKeys
           /\ worker[w].got \in 1 .. cacheAt[active[w]]
           /\ applied[active[w]][d] <= worker[w].got
           /\ \A k \in LabelerKeys, e \in DeploymentKeys :
                  applied'[k][e] = IF k = active[w] /\ e = d THEN worker[w].got
                                                              ELSE applied[k][e]
<1>1. worker[w].pc = "patch"
  BY DEF Patch, Patched, WorkerStep
<1>2. /\ active[w] \in LabelerKeys
      /\ worker[w].got \in 1 .. cacheAt[active[w]]
  BY <1>1 DEF Sound, Inv, WorkerOK, Reconciling
<1>3. applied[active[w]][d] <= worker[w].got
  BY <1>1 DEF Forward, HolderOK, Reconciling
<1>4. /\ applied \in [LabelerKeys -> [DeploymentKeys -> Nat]]
      /\ applied' = [applied EXCEPT ![active[w]][d] = worker[w].got]
  BY DEF Sound, Inv, TypeOK, SyncTypeOK, Patch
<1>. QED BY <1>2, <1>3, <1>4

LEMMA PatchForward ==
    ASSUME Sound, Forward, NEW w \in Workers, NEW d \in DeploymentKeys, Patch(w, d)
    PROVE  Forward'
<1>1. /\ active[w] \in LabelerKeys
      /\ worker[w].got \in 1 .. cacheAt[active[w]]
      /\ \A k \in LabelerKeys, e \in DeploymentKeys :
             applied'[k][e] = IF k = active[w] /\ e = d THEN worker[w].got
                                                         ELSE applied[k][e]
  BY PatchMoves
<1>2. active' = active /\ cacheAt' = cacheAt /\ history' = history /\ Patched(w, d)
  BY DEF Patch, queueVars
<1>3. \A v \in Workers : worker'[v].got = worker[v].got /\ worker'[v].pc = worker[v].pc
  BY <1>2, PatchedType DEF Sound
<1>4. AppliedOK'
  BY <1>1, <1>2 DEF Forward, AppliedOK
<1>5. HolderOK'
  <2>. SUFFICES ASSUME NEW v \in Workers, Reconciling(v), NEW e \in DeploymentKeys
                PROVE  applied'[active[v]][e] <= worker[v].got
    BY <1>2, <1>3 DEF HolderOK, Reconciling
  <2>1. /\ active[v] \in LabelerKeys
        /\ worker[v].got \in Nat
        /\ applied[active[v]][e] <= worker[v].got
    BY DEF Sound, Inv, WorkerOK, TypeOK, Forward, HolderOK
  <2>2. CASE active[v] = active[w]
    <3>1. v = w
      BY <1>1, <2>1, <2>2, NoneIsNoKey DEF Forward, Queue!OneWorkerPerKey, Keys
    <3>. QED BY <1>1, <2>1, <3>1
  <2>3. CASE active[v] # active[w]
    BY <1>1, <2>1, <2>3
  <2>. QED BY <2>2, <2>3
<1>6. Queue!OneWorkerPerKey'
  BY <1>2 DEF Forward, Queue!OneWorkerPerKey
<1>. QED BY <1>4, <1>5, <1>6 DEF Forward

LEMMA ReconcileForward ==
    ASSUME Sound, Forward, NEW w \in Workers, Reconcile(w)
    PROVE  Forward'
<1>. USE DEF Sound, syncVars, informerVars, queueVars
<1>1. CASE CheckLeader(w)
  <2>1. /\ worker'[w].pc \in {"lookup", "done"}
        /\ \A v \in Workers \ {w} : worker'[v] = worker[v]
    <3>. DEFINE next == [Idle EXCEPT !.pc = IF leader THEN "lookup" ELSE "done"]
    <3>1. /\ next \in WorkerStates /\ next.pc \in {"lookup", "done"}
          /\ WorkerStep(w, "leads", next)
      BY <1>1, IdleTypes DEF CheckLeader
    <3>. HIDE DEF next
    <3>. QED BY <3>1, WorkerStepType DEF Inv
  <2>2. Aside
    <3>1. \A v \in Workers : Reconciling(v)' => worker'[v] = worker[v]
      BY <2>1 DEF Reconciling
    <3>2. UNCHANGED <<applied, active, cacheAt>>
      BY <1>1 DEF CheckLeader
    <3>. QED BY <3>1, <3>2 DEF Aside, Reconciling, Inv, TypeOK
  <2>. QED BY <2>2, AsideForward
<1>2. CASE LookUp(w)
  BY <1>2, LookUpForward
<1>3. CASE ListDeployments(w)
  <2>1. \A v \in Workers : worker'[v].got = worker[v].got /\ (Reconciling(v)' => Reconciling(v))
    BY <1>3 DEF ListDeployments, WorkerStep, Reconciling, Inv, TypeOK, WorkerStates
  <2>2. Aside
    BY <1>3, <2>1 DEF ListDeployments, Aside, Inv, TypeOK
  <2>. QED BY <2>2, AsideForward
<1>4. CASE Done(w)
  <2>1. /\ \A v \in Workers : Reconciling(v)' => v # w /\ Reconciling(v) /\ worker'[v] = worker[v]
        /\ \A v \in Workers : active'[v] = IF v = w THEN None ELSE active[v]
        /\ UNCHANGED <<applied, cacheAt>>
    BY <1>4, IdleTypes DEF Done, Queue!Done, Reconciling, Inv, TypeOK, Queue!QueueTypeOK
  <2>2. AppliedOK' /\ HolderOK'
    BY <2>1 DEF Forward, AppliedOK, HolderOK
  <2>3. Queue!OneWorkerPerKey'
    BY <2>1 DEF Forward, Queue!OneWorkerPerKey
  <2>. QED BY <2>2, <2>3 DEF Forward
<1>5. ASSUME NEW d \in DeploymentKeys, Patch(w, d) PROVE Forward'
  BY <1>5, PatchForward
<1>6. ASSUME NEW d \in DeploymentKeys,
             PatchNotFound(w, d) \/ PatchRefused(w, d) \/ PatchFails(w, d)
      PROVE  Forward'
  <2>1. \A v \in Workers : worker'[v].got = worker[v].got /\ worker'[v].pc = worker[v].pc
    BY <1>6, PatchedType DEF PatchNotFound, PatchRefused, PatchFails
  <2>2. Aside
    BY <1>6, <2>1 DEF PatchNotFound, PatchRefused, PatchFails, Aside, Reconciling, Inv, TypeOK
  <2>. QED BY <2>2, AsideForward
<1>. QED BY <1>1, <1>2, <1>3, <1>4, <1>5, <1>6 DEF Reconcile

LEMMA StartForward ==
    ASSUME Sound, Forward, Start
    PROVE  Forward'
<1>. USE DEF Sound
<1>1. Inv'
  BY StartInv
<1>2. UNCHANGED <<applied, active, worker>> /\ applied = Nothing
  BY DEF Start, DownOK, syncVars, queueVars
<1>3. AppliedOK'
  BY <1>1, <1>2 DEF AppliedOK, Nothing, Inv, TypeOK
<1>4. HolderOK' /\ Queue!OneWorkerPerKey'
  BY <1>2 DEF Forward, HolderOK, Reconciling, Queue!OneWorkerPerKey
<1>. QED BY <1>3, <1>4 DEF Forward

LEMMA NextForward ==
    ASSUME Sound, Forward, [Next]_vars
    PROVE  Sound' /\ Forward'
<1>1. Sound'
  BY NextInv, StutterInv DEF Sound
<1>2. CASE UNCHANGED vars
  BY <1>1, <1>2, KeepsAside, AsideForward
     DEF Sound, vars, syncVars, informerVars, queueVars
<1>3. CASE Next
  BY <1>1, <1>3, EnvironmentForward, InformersForward, LeadershipForward, GetItemForward,
     ReconcileForward, StartForward DEF Next
<1>. QED BY <1>1, <1>2, <1>3

(***************************************************************************)
(* The inductive invariant of this module.                                 *)
(***************************************************************************)
THEOREM SoundForward == Spec => [](Sound /\ Forward)
<1>1. Init => Sound /\ Forward
  BY InitInv, InitDown, InitForward DEF Sound
<1>2. (Sound /\ Forward) /\ [Next]_vars => Sound' /\ Forward'
  BY NextForward
<1>. QED BY <1>1, <1>2, PTL DEF Spec

(***************************************************************************)
(* A key that the queue has taken is pending until a worker is handed it.  *)
(***************************************************************************)
LEMMA AddKeeps ==
    ASSUME Inv, NEW k \in Keys, Queue!Add(k)
    PROVE  /\ pending'[k] > 0
           /\ \A j \in Keys : pending[j] > 0 => pending'[j] > 0
           /\ active' = active
<1>1. pending \in [Keys -> 0 .. MaxCopies] /\ MaxCopies \in Nat
  BY CopiesAssumption DEF Inv, TypeOK, Queue!QueueTypeOK
<1>2. \A j \in Keys : pending[j] \in Nat
  BY <1>1
<1>. QED BY <1>1, <1>2 DEF Queue!Add

(* A step that changes neither leadership nor what has been looked up, nor *)
(* the cache, and that leaves on their way the keys that are.              *)
LEMMA KeepsOnItsWay ==
    ASSUME NoLostReconcile, leader' = leader, seen' = seen, cacheAt' = cacheAt,
           CachedLabelers' = CachedLabelers,
           \A k \in CachedLabelers : OnItsWay(k) => OnItsWay(k)'
    PROVE  NoLostReconcile'
BY DEF NoLostReconcile

(* What users publish does not change what the cache holds.                *)
LEMMA CacheKeeps ==
    ASSUME Inv, NEW k \in LabelerKeys, NEW v, Publish(k, v)
    PROVE  CachedLabelers' = CachedLabelers
<1>1. \A j \in LabelerKeys : history'[j][cacheAt[j]] = history[j][cacheAt[j]]
  <2>. SUFFICES ASSUME NEW j \in LabelerKeys
                PROVE  history'[j][cacheAt[j]] = history[j][cacheAt[j]]
    OBVIOUS
  <2>1. history[j] \in Seq(Versions) /\ cacheAt[j] \in DOMAIN history[j]
    BY DEF Inv, TypeOK, SyncTypeOK
  <2>2. history'[j] = IF j = k THEN Append(history[j], v) ELSE history[j]
    BY DEF Publish, Inv, TypeOK, SyncTypeOK
  <2>3. cacheAt[j] \in 1 .. Len(history[j])
    BY <2>1, LenProperties
  <2>. QED BY <2>1, <2>2, <2>3
<1>. QED BY <1>1 DEF CachedLabelers, LabelersAt, Publish, informerVars

LEMMA EnvironmentKeepsWay ==
    ASSUME Sound, NoLostReconcile, Environment
    PROVE  NoLostReconcile'
<1>. USE DEF Sound, informerVars, queueVars, leaderVars
<1>1. ASSUME NEW k \in LabelerKeys, NEW v, Publish(k, v) PROVE NoLostReconcile'
  <2>1. CachedLabelers' = CachedLabelers
    BY <1>1, CacheKeeps
  <2>. QED BY <1>1, <2>1, KeepsOnItsWay DEF Publish, OnItsWay
<1>2. ASSUME NEW d \in DeploymentKeys, SaveDeployment(d) PROVE NoLostReconcile'
  BY <1>2, KeepsOnItsWay DEF SaveDeployment, OnItsWay, CachedLabelers, LabelersAt
<1>3. ASSUME NEW r \in late, LandLate(r) \/ LoseLate(r) PROVE NoLostReconcile'
  BY <1>3, KeepsOnItsWay DEF LandLate, LoseLate, Land, Vanish, OnItsWay, CachedLabelers, LabelersAt
<1>4. CASE Crash \/ Demoted
  BY <1>4 DEF Crash, Demoted, NoLostReconcile
<1>. QED BY <1>1, <1>2, <1>3, <1>4
         DEF Environment, SaveLabeler, MarkDeleting, RemoveLabeler

LEMMA InformersKeepWay ==
    ASSUME Sound, NoLostReconcile, Informers
    PROVE  NoLostReconcile'
<1>. USE DEF Sound, syncVars, informerVars, queueVars, leaderVars
<1>0. notes \in [Keys -> Nat]
  BY DEF Inv, TypeOK
<1>1. ASSUME NEW k \in LabelerKeys, LabelerEvent(k) PROVE NoLostReconcile'
  <2>1. /\ notes'[k] > 0
        /\ \A j \in LabelerKeys : notes[j] > 0 => notes'[j] > 0
        /\ \A j \in LabelerKeys \ {k} : cacheAt'[j] = cacheAt[j]
    BY <1>0, <1>1 DEF LabelerEvent, Notify, Keys, Inv, TypeOK
  <2>2. CachedLabelers' \subseteq CachedLabelers \cup {k}
    BY <1>1, <2>1 DEF LabelerEvent, CachedLabelers, LabelersAt
  <2>3. OnItsWay(k)'
    BY <2>1 DEF OnItsWay
  <2>4. \A j \in LabelerKeys : OnItsWay(j) => OnItsWay(j)'
    BY <1>1, <2>1 DEF LabelerEvent, OnItsWay
  <2>5. CachedLabelers' \subseteq LabelerKeys
    BY DEF CachedLabelers, LabelersAt
  <2>. QED BY <1>1, <2>1, <2>2, <2>3, <2>4, <2>5 DEF LabelerEvent, NoLostReconcile
<1>2. ASSUME NEW d \in DeploymentKeys, DeploymentEvent(d) PROVE NoLostReconcile'
  <2>1. \A j \in Keys : notes[j] > 0 => notes'[j] > 0
    <3>1. notes' = [notes EXCEPT ![d] = @ + 1] /\ notes[d] \in Nat
      BY <1>0, <1>2 DEF DeploymentEvent, Notify, Keys
    <3>. QED BY <1>0, <3>1
  <2>. QED BY <1>2, <2>1, KeepsOnItsWay DEF DeploymentEvent, OnItsWay, CachedLabelers, LabelersAt, Keys
<1>3. ASSUME NEW k \in Keys, HandleNote(k) PROVE NoLostReconcile'
  <2>1. /\ pending'[k] > 0
        /\ \A j \in Keys : pending[j] > 0 => pending'[j] > 0
        /\ active' = active
    BY <1>3, AddKeeps DEF HandleNote
  <2>2. \A j \in Keys \ {k} : notes'[j] = notes[j]
    BY <1>0, <1>3 DEF HandleNote
  <2>. QED BY <1>3, <2>1, <2>2, KeepsOnItsWay
           DEF HandleNote, OnItsWay, CachedLabelers, LabelersAt, Keys
<1>4. ASSUME NEW ks, NotifyAll(ks) PROVE NoLostReconcile'
  <2>1. \A j \in Keys : notes[j] > 0 => notes'[j] > 0
    BY <1>0, <1>4 DEF NotifyAll
  <2>. QED BY <1>4, <2>1, KeepsOnItsWay DEF NotifyAll, OnItsWay, CachedLabelers, LabelersAt, Keys
<1>. QED BY <1>1, <1>2, <1>3, <1>4 DEF Informers, ResyncLabelers, ResyncDeployments

LEMMA LeadershipKeepsWay ==
    ASSUME Sound, NoLostReconcile, Leadership
    PROVE  NoLostReconcile'
<1>. USE DEF Sound, syncVars, informerVars, queueVars
<1>1. CASE Elected
  BY <1>1 DEF Elected, NoLostReconcile, OnItsWay
<1>2. CASE PromoteList
  <2>1. CachedLabelers' = CachedLabelers /\ CachedLabelers \subseteq promoteKeys'
    BY <1>2 DEF PromoteList, CachedLabelers, LabelersAt
  <2>. QED BY <1>2, <2>1 DEF PromoteList, NoLostReconcile, OnItsWay
<1>3. ASSUME NEW k \in LabelerKeys, PromoteEnqueue(k) PROVE NoLostReconcile'
  <2>1. /\ pending'[k] > 0
        /\ \A j \in Keys : pending[j] > 0 => pending'[j] > 0
        /\ active' = active
    BY <1>3, AddKeeps DEF PromoteEnqueue, Keys
  <2>. QED BY <1>3, <2>1, KeepsOnItsWay
           DEF PromoteEnqueue, OnItsWay, CachedLabelers, LabelersAt, Keys
<1>. QED BY <1>1, <1>2, <1>3 DEF Leadership

(* A worker's step keeps keys on their way unless it looks one up.         *)
LEMMA WorkersKeepWay ==
    ASSUME Sound, NoLostReconcile, NEW w \in Workers,
           Reconcile(w) \/ \E k \in Keys : GetItem(w, k)
    PROVE  NoLostReconcile'
<1>. USE DEF Sound, syncVars, informerVars, queueVars, leaderVars
<1>1. ASSUME NEW k \in Keys, GetItem(w, k) PROVE NoLostReconcile'
  <2>1. /\ worker'[w].pc = "leads" /\ active'[w] = k
        /\ \A v \in Workers \ {w} : worker'[v] = worker[v] /\ active'[v] = active[v]
    <3>. DEFINE next == [Idle EXCEPT !.pc = "leads"]
    <3>1. next \in WorkerStates /\ next.pc = "leads" /\ WorkerStep(w, "idle", next)
      BY <1>1, IdleTypes DEF GetItem
    <3>2. /\ active \in [Workers -> Keys \cup {None}]
          /\ active' = [active EXCEPT ![w] = k]
      BY <1>1 DEF GetItem, Queue!Get, Inv, TypeOK, Queue!QueueTypeOK
    <3>. HIDE DEF next
    <3>. QED BY <3>1, <3>2, WorkerStepType DEF Inv
  <2>2. /\ active[w] = None
        /\ \A j \in Keys \ {k} : pending'[j] = pending[j]
    BY <1>1 DEF GetItem, Queue!Get, Inv, TypeOK, Queue!QueueTypeOK
  <2>3. \A j \in LabelerKeys : OnItsWay(j) => OnItsWay(j)'
    <3>. SUFFICES ASSUME NEW j \in LabelerKeys, OnItsWay(j), j # k PROVE OnItsWay(j)'
      BY <2>1 DEF OnItsWay
    <3>1. j \in Keys /\ j # None
      BY NoneIsNoKey DEF Keys
    <3>. QED BY <1>1, <2>1, <2>2, <3>1 DEF GetItem, OnItsWay
  <2>. QED BY <1>1, <2>3, KeepsOnItsWay DEF GetItem, CachedLabelers, LabelersAt
<1>2. CASE CheckLeader(w)
  <2>. SUFFICES ASSUME leader PROVE NoLostReconcile'
    BY <1>2 DEF CheckLeader, NoLostReconcile
  <2>1. /\ worker'[w].pc = "lookup"
        /\ \A v \in Workers \ {w} : worker'[v] = worker[v]
    <3>. DEFINE next == [Idle EXCEPT !.pc = IF leader THEN "lookup" ELSE "done"]
    <3>1. next \in WorkerStates /\ next.pc = "lookup" /\ WorkerStep(w, "leads", next)
      BY <1>2, IdleTypes DEF CheckLeader
    <3>. HIDE DEF next
    <3>. QED BY <3>1, WorkerStepType DEF Inv
  <2>2. \A j \in LabelerKeys : OnItsWay(j) => OnItsWay(j)'
    BY <1>2, <2>1 DEF CheckLeader, OnItsWay
  <2>. QED BY <1>2, <2>2, KeepsOnItsWay DEF CheckLeader, CachedLabelers, LabelersAt
<1>3. CASE LookUp(w)
  <2>1. \A v \in Workers \ {w} : worker'[v] = worker[v]
    BY <1>3 DEF LookUp, WorkerStep, Inv, TypeOK
  <2>2. \A j \in LabelerKeys : j # active[w] => seen'[j] = seen[j]
    BY <1>3 DEF LookUp, Inv, TypeOK
  <2>3. active[w] \in LabelerKeys => seen'[active[w]] = cacheAt[active[w]]
    BY <1>3 DEF LookUp, Inv, TypeOK
  <2>4. \A j \in LabelerKeys : j # active[w] /\ OnItsWay(j) => OnItsWay(j)'
    BY <1>3, <2>1 DEF LookUp, OnItsWay
  <2>5. CachedLabelers' = CachedLabelers /\ CachedLabelers \subseteq LabelerKeys
    BY <1>3 DEF LookUp, CachedLabelers, LabelersAt
  <2>. QED BY <1>3, <2>2, <2>3, <2>4, <2>5 DEF LookUp, NoLostReconcile
<1>4. ASSUME worker[w].pc \in {"list", "patch", "done"},
             \A v \in Workers \ {w} : worker'[v] = worker[v] /\ active'[v] = active[v],
             UNCHANGED <<notes, pending, leaderVars, seen, cacheAt, history>>
      PROVE  NoLostReconcile'
  <2>1. \A j \in LabelerKeys : OnItsWay(j) => OnItsWay(j)'
    BY <1>4 DEF OnItsWay
  <2>. QED BY <1>4, <2>1, KeepsOnItsWay DEF CachedLabelers, LabelersAt
<1>5. CASE ListDeployments(w)
  BY <1>4, <1>5 DEF ListDeployments, WorkerStep, Inv, TypeOK
<1>6. CASE Done(w)
  BY <1>4, <1>6 DEF Done, Queue!Done, Inv, TypeOK, Queue!QueueTypeOK
<1>7. ASSUME NEW d \in DeploymentKeys, \/ Patch(w, d) \/ PatchNotFound(w, d)
                                         \/ PatchRefused(w, d) \/ PatchFails(w, d)
      PROVE  NoLostReconcile'
  <2>1. worker[w].pc = "patch" /\ \A v \in Workers \ {w} : worker'[v] = worker[v]
    BY <1>7 DEF Patch, PatchNotFound, PatchRefused, PatchFails, Patched, WorkerStep, Inv, TypeOK
  <2>. QED BY <1>4, <1>7, <2>1 DEF Patch, PatchNotFound, PatchRefused, PatchFails
<1>. QED BY <1>1, <1>2, <1>3, <1>5, <1>6, <1>7 DEF Reconcile

LEMMA NextKeepsWay ==
    ASSUME Sound, NoLostReconcile, [Next]_vars
    PROVE  NoLostReconcile'
<1>1. CASE UNCHANGED vars
  BY <1>1 DEF vars, syncVars, informerVars, queueVars, leaderVars, NoLostReconcile,
       OnItsWay, CachedLabelers, LabelersAt
<1>2. CASE Start
  BY <1>2 DEF Start, Sound, DownOK, leaderVars, NoLostReconcile
<1>. QED BY <1>1, <1>2, EnvironmentKeepsWay, InformersKeepWay, LeadershipKeepsWay,
            WorkersKeepWay DEF Next

(***************************************************************************)
(* No reconciliation is lost: while the process leads, a Labeler whose     *)
(* cached version nobody has looked up is still on its way to a worker.    *)
(***************************************************************************)
THEOREM NothingLost == Spec => []NoLostReconcile
<1>1. Init => NoLostReconcile
  BY DEF Init, NoLostReconcile
<1>2. Sound /\ NoLostReconcile /\ [Next]_vars => NoLostReconcile'
  BY NextKeepsWay
<1>3. Spec => []Sound
  BY SoundForward, PTL
<1>. QED BY <1>1, <1>2, <1>3, PTL DEF Spec

(***************************************************************************)
(* No version of a Labeler is merged into a Deployment after a newer one,  *)
(* while the process lives.                                                *)
(***************************************************************************)
LEMMA StepForward ==
    ASSUME Sound, Forward, [Next]_vars, up', NEW k \in LabelerKeys, NEW d \in DeploymentKeys
    PROVE  applied'[k][d] >= applied[k][d]
<1>1. applied[k][d] \in Nat
  BY DEF Sound, Inv, TypeOK, SyncTypeOK
<1>2. CASE applied' = applied
  BY <1>1, <1>2
<1>3. ASSUME NEW w \in Workers, NEW e \in DeploymentKeys, Patch(w, e)
      PROVE  applied'[k][d] >= applied[k][d]
  <2>1. /\ applied[active[w]][e] <= worker[w].got
        /\ applied'[k][d] = IF k = active[w] /\ d = e THEN worker[w].got ELSE applied[k][d]
    BY <1>3, PatchMoves
  <2>. QED BY <1>1, <2>1
<1>4. ASSUME Next, applied' # applied
      PROVE  \E w \in Workers, e \in DeploymentKeys : Patch(w, e)
  <2>. USE <1>4 DEF syncVars
  <2>1. ~Environment
    BY DEF Environment, SaveLabeler, MarkDeleting, RemoveLabeler, Publish, SaveDeployment,
         LandLate, LoseLate, Land, Vanish, Demoted, Crash
  <2>2. ~Informers /\ ~Leadership /\ ~Start
    BY DEF Informers, LabelerEvent, DeploymentEvent, HandleNote, ResyncLabelers,
         ResyncDeployments, NotifyAll, Leadership, Elected, PromoteList, PromoteEnqueue, Start
  <2>. QED BY <2>1, <2>2 DEF Next, Reconcile, GetItem, CheckLeader, LookUp,
             ListDeployments, Done, PatchNotFound, PatchRefused, PatchFails
<1>. QED BY <1>2, <1>3, <1>4 DEF vars, syncVars

THEOREM NoStepBackwards == Spec => NeverBackwards
<1>1. Sound /\ Forward /\ [Next]_vars =>
          [up /\ up' => \A k \in LabelerKeys, d \in DeploymentKeys :
                            applied'[k][d] >= applied[k][d]]_vars
  BY StepForward
<1>. QED BY <1>1, SoundForward, PTL DEF Spec, NeverBackwards

(***************************************************************************)
(* The controller implements LabelSync.                                    *)
(***************************************************************************)
LEMMA InitSync == Init => SyncInit
<1>. SUFFICES ASSUME Init PROVE SyncInit
  OBVIOUS
<1>1. history \in [LabelerKeys -> {<<v>> : v \in Versions}]
  BY VersionTypes DEF Init
<1>2. deployment \in [DeploymentKeys -> LabelMaps \cup {Absent}]
  BY UserLabelsAssumption DEF Init
<1>. QED BY <1>1, <1>2 DEF Init, SyncInit

LEMMA PublishSync ==
    ASSUME NEW k \in LabelerKeys, NEW v \in Versions, Publish(k, v)
    PROVE  SyncNext
BY DEF Publish, SyncNext, WriteLabeler

LEMMA CrashSync ==
    ASSUME Sound, Crash
    PROVE  Die
<1>1. \A r \in late' \ late : r \in Requests /\ Published(r.labeler, r.version)
  <2>. SUFFICES ASSUME NEW r \in late' \ late
                PROVE  r \in Requests /\ Published(r.labeler, r.version)
    OBVIOUS
  <2>1. PICK w \in Workers : r \in InFlight(w)
    BY DEF Crash
  <2>. QED BY <2>1, InFlightType DEF Sound
<1>. QED BY <1>1 DEF Crash, Die

LEMMA PatchSync ==
    ASSUME Sound, Forward, NEW w \in Workers, NEW d \in DeploymentKeys, Patch(w, d)
    PROVE  SyncNext
<1>1. /\ active[w] \in LabelerKeys
      /\ applied[active[w]][d] <= worker[w].got
      /\ worker[w].got \in Nat /\ applied[active[w]][d] \in Nat
  <2>1. active[w] \in LabelerKeys /\ applied[active[w]][d] <= worker[w].got
    BY PatchMoves
  <2>. QED BY <2>1 DEF Sound, Inv, TypeOK, SyncTypeOK, WorkerStates
<1>2. worker[w].got \in DOMAIN history[active[w]]
  BY DEF Patch, MergeInto, Published
<1>3. Apply(active[w], worker[w].got, d)
  BY <1>1 DEF Patch, Apply
<1>. QED BY <1>1, <1>2, <1>3 DEF SyncNext

LEMMA StepSync ==
    ASSUME Sound, Forward, [Next]_vars
    PROVE  [SyncNext]_syncVars
<1>. USE DEF syncVars
<1>1. CASE Environment
  <2>1. ASSUME NEW k \in LabelerKeys, SaveLabeler(k) \/ MarkDeleting(k) \/ RemoveLabeler(k)
        PROVE  SyncNext
    <3>1. \A s \in Specs[k] : Live(s) \in Versions
      BY VersionTypes, SpecsAssumption
    <3>2. [Current(k) EXCEPT !.status = "deleting"] \in Versions
      BY CachedType DEF Sound, Inv, Versions, Statuses
    <3>. QED BY <2>1, <3>1, <3>2, VersionTypes, PublishSync
             DEF SaveLabeler, MarkDeleting, RemoveLabeler
  <2>2. ASSUME NEW d \in DeploymentKeys, SaveDeployment(d) PROVE SyncNext
    <3>1. WriteDeployment(d)
      BY <2>2, UserLabelsAssumption DEF SaveDeployment, WriteDeployment
    <3>. QED BY <3>1 DEF SyncNext
  <2>3. ASSUME NEW r \in late, LandLate(r) \/ LoseLate(r) PROVE SyncNext
    BY <2>3 DEF LandLate, LoseLate, SyncNext
  <2>4. CASE Crash
    BY <2>4, CrashSync DEF SyncNext
  <2>5. CASE Demoted
    BY <2>5 DEF Demoted
  <2>. QED BY <1>1, <2>1, <2>2, <2>3, <2>4, <2>5 DEF Environment
<1>2. CASE Informers \/ Leadership \/ Start
  BY <1>2 DEF Informers, LabelerEvent, DeploymentEvent, HandleNote, ResyncLabelers,
         ResyncDeployments, NotifyAll, Leadership, Elected, PromoteList, PromoteEnqueue, Start
<1>3. ASSUME NEW w \in Workers, NEW d \in DeploymentKeys, Patch(w, d) PROVE SyncNext
  BY <1>3, PatchSync
<1>4. CASE UNCHANGED vars
  BY <1>4 DEF vars
<1>. QED BY <1>1, <1>2, <1>3, <1>4
         DEF Next, Reconcile, GetItem, CheckLeader, LookUp, ListDeployments, Done,
             PatchNotFound, PatchRefused, PatchFails

THEOREM Implements == Spec => ImplementsLabelSync
<1>1. Sound /\ Forward /\ [Next]_vars => [SyncNext]_syncVars
  BY StepSync
<1>. QED BY <1>1, InitSync, SoundForward, PTL DEF Spec, SyncSpec, ImplementsLabelSync

(***************************************************************************)
(* No label is removed but by users.                                       *)
(***************************************************************************)
(* A merge keeps every label name, and sets those of the patch.            *)
LEMMA MergeKeeps ==
    ASSUME NEW labels \in LabelMaps, NEW patch \in LabelMaps
    PROVE  /\ Sets(labels) \subseteq Sets(Merge(labels, patch))
           /\ Carries(Merge(labels, patch), patch)
           /\ \A x \in LabelKeys \ Sets(patch) : Merge(labels, patch)[x] = labels[x]
BY DEF Sets, Merge, Carries, LabelMaps

(* Applying a patch again, as every resync does, changes nothing; merges   *)
(* of patches that have no name in common commute, so the order in which   *)
(* Labelers get to a Deployment matters only where they disagree.          *)
LEMMA MergeOrder ==
    ASSUME NEW labels \in LabelMaps, NEW patch \in LabelMaps, NEW other \in LabelMaps
    PROVE  /\ Merge(Merge(labels, patch), patch) = Merge(labels, patch)
           /\ Sets(patch) \cap Sets(other) = {} =>
                  Merge(Merge(labels, patch), other) = Merge(Merge(labels, other), patch)
BY DEF Sets, Merge, LabelMaps

LEMMA MergeIntoKeeps ==
    ASSUME TypeOK, NEW k \in LabelerKeys, NEW i, NEW e \in DeploymentKeys,
           MergeInto(k, i, e), NEW d \in DeploymentKeys
    PROVE  LabelsOf(d) \subseteq LabelsOf(d)'
<1>1. history[k][i] \in Versions
  BY ElementOfSeq, LenProperties DEF TypeOK, SyncTypeOK, MergeInto, Published
<1>2. /\ history[k][i].labels \in LabelMaps
      /\ deployment[e] \in LabelMaps
      /\ deployment[e] # Absent
  BY <1>1 DEF Versions, MergeInto, TypeOK, SyncTypeOK
<1>3. /\ Merge(deployment[e], history[k][i].labels) \in LabelMaps
      /\ Sets(deployment[e]) \subseteq Sets(Merge(deployment[e], history[k][i].labels))
  BY <1>2, MergeType, MergeKeeps
<1>4. deployment'[d] = IF d = e THEN Merge(deployment[e], history[k][i].labels)
                                ELSE deployment[d]
  BY DEF MergeInto, TypeOK, SyncTypeOK
<1>5. CASE d = e
  BY <1>2, <1>3, <1>4, <1>5, AbsentAssumption DEF LabelsOf
<1>6. CASE d # e
  BY <1>4, <1>6 DEF LabelsOf
<1>. QED BY <1>5, <1>6

LEMMA StepKeepsLabels ==
    ASSUME Sound, Forward, [Next]_vars, NEW d \in DeploymentKeys
    PROVE  LabelsOf(d) \subseteq LabelsOf(d)' \/ spent'["deployment"] > spent["deployment"]
<1>. USE DEF syncVars
<1>1. CASE deployment' = deployment
  BY <1>1 DEF LabelsOf
<1>2. ASSUME NEW e \in DeploymentKeys, SaveDeployment(e)
      PROVE  spent'["deployment"] > spent["deployment"]
  BY <1>2 DEF SaveDeployment, Spend, Kinds, Sound, Inv, TypeOK
<1>3. ASSUME NEW w \in Workers, NEW e \in DeploymentKeys, Patch(w, e)
      PROVE  LabelsOf(d) \subseteq LabelsOf(d)'
  BY <1>3, PatchMoves, MergeIntoKeeps DEF Patch, Sound, Inv
<1>4. ASSUME NEW r \in late, LandLate(r)
      PROVE  LabelsOf(d) \subseteq LabelsOf(d)'
  <2>1. r.labeler \in LabelerKeys /\ r.target \in DeploymentKeys
    BY DEF Sound, Inv, TypeOK, SyncTypeOK, Requests
  <2>. QED BY <1>4, <2>1, MergeIntoKeeps DEF LandLate, Land, Sound, Inv
<1>5. ASSUME Next, deployment' # deployment
      PROVE  \/ \E e \in DeploymentKeys : SaveDeployment(e)
             \/ \E w \in Workers, e \in DeploymentKeys : Patch(w, e)
             \/ \E r \in late : LandLate(r)
  <2>. USE <1>5
  <2>1. Environment => \/ \E e \in DeploymentKeys : SaveDeployment(e)
                       \/ \E r \in late : LandLate(r)
    BY DEF Environment, SaveLabeler, MarkDeleting, RemoveLabeler, Publish, LoseLate,
         Vanish, Demoted, Crash
  <2>2. ~Informers /\ ~Leadership /\ ~Start
    BY DEF Informers, LabelerEvent, DeploymentEvent, HandleNote, ResyncLabelers,
         ResyncDeployments, NotifyAll, Leadership, Elected, PromoteList, PromoteEnqueue, Start
  <2>. QED BY <2>1, <2>2 DEF Next, Reconcile, GetItem, CheckLeader, LookUp,
             ListDeployments, Done, PatchNotFound, PatchRefused, PatchFails
<1>. QED BY <1>1, <1>2, <1>3, <1>4, <1>5 DEF vars

THEOREM LabelsStay == Spec => NoLabelRemoved
<1>1. Sound /\ Forward /\ [Next]_vars =>
          [\A d \in DeploymentKeys :
              LabelsOf(d) \subseteq LabelsOf(d)' \/ spent'["deployment"] > spent["deployment"]]_vars
  BY StepKeepsLabels
<1>. QED BY <1>1, SoundForward, PTL DEF Spec, NoLabelRemoved

(***************************************************************************)
(* What is at rest is applied.  Labelers say what users may ask of them;   *)
(* the version looked up last is one that was published, and whoever       *)
(* reconciles a Labeler works on that version, unless the leadership in    *)
(* which it was looked up has ended.                                       *)
(***************************************************************************)
SpecsOK ==
    \A k \in LabelerKeys : \A i \in DOMAIN history[k] :
        history[k][i].status = "gone" \/ history[k][i].labels \in Specs[k]

SeenOK ==
    /\ \A k \in LabelerKeys : seen[k] \in {0} \cup DOMAIN history[k]
    /\ \A w \in Workers : Reconciling(w) => seen[active[w]] \in {0, worker[w].got}

(* Worker w has yet to patch Deployment d.                                 *)
WillPatch(w, d) ==
    Reconciling(w) /\ (worker[w].pc = "patch" => d \in worker[w].todo)

(* A version looked up and live has been merged into every Deployment that *)
(* is not excused, or the worker that looked it up will get to it.         *)
Covered ==
    \A k \in LabelerKeys, d \in Present :
        /\ seen[k] # 0
        /\ history[k][seen[k]].status = "live"
        /\ <<k, d>> \notin excused
        => \/ applied[k][d] = seen[k]
           \/ \E w \in Workers : active[w] = k /\ WillPatch(w, d)

(* What has been merged, and not disturbed since, is still there.          *)
Holds(k, d) ==
    LET wanted == history[k][applied[k][d]].labels
    IN  \A x \in Sets(wanted) : Owns(k, x) => deployment[d][x] = wanted[x]

Kept ==
    \A k \in LabelerKeys, d \in Present :
        applied[k][d] # 0 /\ <<k, d>> \notin excused => Holds(k, d)

Settled == SpecsOK /\ SeenOK /\ Covered /\ Kept

(* At rest the version looked up last is the current one, nobody has yet   *)
(* to patch anything, and so the current version is merged and kept.       *)
LEMMA SettledAtRest ==
    ASSUME Sound, NoLostReconcile, Settled
    PROVE  AppliedAtRest
<1>. SUFFICES ASSUME AtRest, NEW k \in LabelerKeys, NEW d \in Present,
                     Current(k).status = "live", <<k, d>> \notin excused
              PROVE  Labelled(k, d)
  BY DEF AppliedAtRest
<1>1. cacheAt[k] = Len(history[k]) /\ k \in CachedLabelers
  BY DEF AtRest, CachedLabelers, LabelersAt, Current
<1>2. k \in Keys /\ k # None
  BY NoneIsNoKey DEF Keys
<1>3. ~OnItsWay(k)
  BY <1>2 DEF AtRest, OnItsWay
<1>4. seen[k] = Len(history[k])
  BY <1>1, <1>3 DEF AtRest, NoLostReconcile
<1>5. Len(history[k]) # 0
  BY EmptySeq DEF Sound, Inv, TypeOK, SyncTypeOK
<1>6. applied[k][d] = Len(history[k])
  BY <1>2, <1>4, <1>5 DEF Settled, Covered, Current, AtRest
<1>. QED BY <1>5, <1>6 DEF Settled, Kept, Holds, Labelled, Current

LEMMA InitSettled == Init => Settled
<1>. SUFFICES ASSUME Init PROVE Settled
  OBVIOUS
<1>1. SpecsOK
  <2>. SUFFICES ASSUME NEW k \in LabelerKeys, NEW i \in DOMAIN history[k]
                PROVE  history[k][i].status = "gone" \/ history[k][i].labels \in Specs[k]
    BY DEF SpecsOK
  <2>1. PICK v : history[k] = <<v>>
    BY DEF Init
  <2>2. i = 1
    BY <2>1
  <2>. QED BY <2>2 DEF Init, Gone
<1>2. SeenOK
  BY IdleTypes DEF Init, SeenOK, Reconciling
<1>3. Covered /\ Kept
  BY DEF Init, Covered, Kept, Nothing, Present
<1>. QED BY <1>1, <1>2, <1>3 DEF Settled

(* Most steps merge nothing and look nothing up.  They keep all this if    *)
(* nobody starts on a Labeler, and who gives up a Deployment excuses it.   *)
LEMMA OthersSettled ==
    ASSUME Sound, Settled, UNCHANGED <<history, deployment, applied, seen>>,
           excused \subseteq excused',
           \A v \in Workers : Reconciling(v)' =>
               Reconciling(v) /\ worker'[v].got = worker[v].got /\ active'[v] = active[v],
           \A v \in Workers, d \in Present : WillPatch(v, d) =>
               /\ active'[v] = active[v]
               /\ WillPatch(v, d)' \/ <<active[v], d>> \in excused'
    PROVE  Settled'
<1>. USE DEF Settled
<1>1. SpecsOK' /\ SeenOK'
  BY DEF SpecsOK, SeenOK
<1>2. Present' = Present
  BY DEF Present
<1>3. Covered'
  <2>. SUFFICES ASSUME NEW k \in LabelerKeys, NEW d \in Present,
                       seen[k] # 0, history[k][seen[k]].status = "live",
                       <<k, d>> \notin excused'
                PROVE  \/ applied[k][d] = seen[k]
                       \/ \E w \in Workers : active'[w] = k /\ WillPatch(w, d)'
    BY <1>2 DEF Covered
  <2>. QED BY DEF Covered
<1>4. Kept'
  <2>. SUFFICES ASSUME NEW k \in LabelerKeys, NEW d \in Present,
                       applied[k][d] # 0, <<k, d>> \notin excused'
                PROVE  Holds(k, d)'
    BY <1>2 DEF Kept
  <2>. QED BY DEF Kept, Holds
<1>. QED BY <1>1, <1>3, <1>4

(* Nor does it matter what happens to anything but the Labelers and the    *)
(* Deployments themselves, the workers and what they have seen and done.   *)
LEMMA ElsewhereSettled ==
    ASSUME Sound, Settled, UNCHANGED <<history, deployment, applied, seen, active, worker>>,
           excused \subseteq excused'
    PROVE  Settled'
BY OthersSettled DEF Reconciling, WillPatch

LEMMA InformersSettled ==
    ASSUME Sound, Settled, Informers
    PROVE  Settled'
BY ElsewhereSettled
   DEF Informers, LabelerEvent, DeploymentEvent, HandleNote, ResyncLabelers,
       ResyncDeployments, NotifyAll, Queue!Add, syncVars, queueVars

LEMMA LeadershipSettled ==
    ASSUME Sound, Settled, Leadership \/ Start \/ UNCHANGED vars
    PROVE  Settled'
BY ElsewhereSettled
   DEF Leadership, Elected, PromoteList, PromoteEnqueue, Start, Queue!Add, vars,
       syncVars, queueVars

(* A new version leaves what was looked up and merged before as it was.    *)
LEMMA PublishSettled ==
    ASSUME Sound, Forward, Settled, NEW k \in LabelerKeys, NEW v \in Versions, Publish(k, v),
           v.status = "gone" \/ v.labels \in Specs[k]
    PROVE  Settled'
<1>. USE DEF Publish, queueVars
<1>1. /\ history \in [LabelerKeys -> Seq(Versions)]
      /\ history' = [history EXCEPT ![k] = Append(@, v)]
  BY DEF Sound, Inv, TypeOK, SyncTypeOK
<1>2. \A j \in LabelerKeys :
          /\ DOMAIN history[j] \subseteq DOMAIN history'[j]
          /\ \A i \in DOMAIN history[j] : history'[j][i] = history[j][i]
          /\ \A i \in DOMAIN history'[j] : i \in DOMAIN history[j] \/ (j = k /\ history'[j][i] = v)
  <2>1. /\ DOMAIN Append(history[k], v) = 1 .. Len(history[k]) + 1
        /\ DOMAIN history[k] = 1 .. Len(history[k])
        /\ Len(history[k]) \in Nat
        /\ \A i \in 1 .. Len(history[k]) : Append(history[k], v)[i] = history[k][i]
        /\ Append(history[k], v)[Len(history[k]) + 1] = v
    BY <1>1, AppendProperties, LenProperties
  <2>. QED BY <1>1, <2>1
<1>3. SpecsOK'
  BY <1>2 DEF Settled, SpecsOK
<1>4. SeenOK'
  BY <1>2 DEF Settled, SeenOK, Reconciling
<1>5. Present' = Present
  BY DEF Present
<1>6. Covered'
  <2>. SUFFICES ASSUME NEW j \in LabelerKeys, NEW d \in Present,
                       seen[j] # 0, history'[j][seen[j]].status = "live",
                       <<j, d>> \notin excused
                PROVE  \/ applied[j][d] = seen[j]
                       \/ \E w \in Workers : active[w] = j /\ WillPatch(w, d)'
    BY <1>5 DEF Covered
  <2>1. seen[j] \in DOMAIN history[j]
    BY DEF Settled, SeenOK
  <2>2. \A w \in Workers : WillPatch(w, d)' <=> WillPatch(w, d)
    BY DEF WillPatch, Reconciling
  <2>. QED BY <1>2, <2>1, <2>2 DEF Settled, Covered
<1>7. Kept'
  <2>. SUFFICES ASSUME NEW j \in LabelerKeys, NEW d \in Present,
                       applied[j][d] # 0, <<j, d>> \notin excused
                PROVE  Holds(j, d)'
    BY <1>5 DEF Kept
  <2>1. applied[j][d] \in DOMAIN history[j]
    <3>1. /\ applied[j][d] \in Nat /\ applied[j][d] <= cacheAt[j]
          /\ cacheAt[j] \in DOMAIN history[j]
      BY DEF Sound, Inv, TypeOK, SyncTypeOK, Forward, AppliedOK, Present
    <3>. QED BY <1>1, <3>1, LenProperties
  <2>2. Holds(j, d)
    BY DEF Settled, Kept
  <2>. QED BY <1>2, <2>1, <2>2 DEF Holds
<1>. QED BY <1>3, <1>4, <1>6, <1>7 DEF Settled

(* Whoever else writes a Deployment excuses every Labeler there.           *)
LEMMA ExcusedSettled ==
    ASSUME Sound, Settled, NEW e \in DeploymentKeys,
           UNCHANGED <<history, applied, seen, active, worker>>,
           \A d \in DeploymentKeys \ {e} : deployment'[d] = deployment[d],
           excused' = excused \cup (LabelerKeys \X {e})
    PROVE  Settled'
<1>. USE DEF Settled
<1>1. SpecsOK' /\ SeenOK'
  BY DEF SpecsOK, SeenOK, Reconciling
<1>2. \A k \in LabelerKeys, d \in Present' :
          <<k, d>> \notin excused' => d \in Present /\ d # e /\ deployment'[d] = deployment[d]
  BY DEF Present
<1>3. Covered'
  <2>. SUFFICES ASSUME NEW k \in LabelerKeys, NEW d \in Present',
                       seen[k] # 0, history[k][seen[k]].status = "live",
                       <<k, d>> \notin excused'
                PROVE  \/ applied[k][d] = seen[k]
                       \/ \E w \in Workers : active[w] = k /\ WillPatch(w, d)
    BY DEF Covered, WillPatch, Reconciling
  <2>. QED BY <1>2 DEF Covered
<1>4. Kept'
  <2>. SUFFICES ASSUME NEW k \in LabelerKeys, NEW d \in Present',
                       applied[k][d] # 0, <<k, d>> \notin excused'
                PROVE  Holds(k, d)'
    BY DEF Kept
  <2>. QED BY <1>2 DEF Kept, Holds
<1>. QED BY <1>1, <1>3, <1>4

LEMMA EnvironmentSettled ==
    ASSUME Sound, Forward, Settled, Environment
    PROVE  Settled'
<1>1. ASSUME NEW k \in LabelerKeys, SaveLabeler(k) PROVE Settled'
  <2>1. \A s \in Specs[k] : Live(s) \in Versions /\ Live(s).labels = s
    BY VersionTypes, SpecsAssumption DEF Live
  <2>. QED BY <1>1, <2>1, PublishSettled DEF SaveLabeler
<1>2. ASSUME NEW k \in LabelerKeys, MarkDeleting(k) PROVE Settled'
  <2>. DEFINE v == [Current(k) EXCEPT !.status = "deleting"]
  <2>1. Current(k) \in Versions /\ Current(k).status = "live"
    BY <1>2, CachedType DEF Sound, Inv, MarkDeleting
  <2>2. v \in Versions /\ v.labels = Current(k).labels
    BY <2>1 DEF Versions, Statuses
  <2>3. Len(history[k]) \in DOMAIN history[k]
    BY EmptySeq, LenProperties DEF Sound, Inv, TypeOK, SyncTypeOK
  <2>4. Current(k).labels \in Specs[k]
    BY <2>1, <2>3 DEF Settled, SpecsOK, Current
  <2>. HIDE DEF v
  <2>5. Publish(k, v)
    BY <1>2 DEF MarkDeleting, v
  <2>. QED BY <2>2, <2>4, <2>5, PublishSettled
<1>3. ASSUME NEW k \in LabelerKeys, RemoveLabeler(k) PROVE Settled'
  BY <1>3, VersionTypes, PublishSettled DEF RemoveLabeler, Gone
<1>4. ASSUME NEW d \in DeploymentKeys, SaveDeployment(d) PROVE Settled'
  BY <1>4, ExcusedSettled DEF SaveDeployment, queueVars, Sound, Inv, TypeOK, SyncTypeOK
<1>5. ASSUME NEW r \in late, LandLate(r) PROVE Settled'
  <2>1. r.target \in DeploymentKeys
    BY DEF Sound, Inv, TypeOK, SyncTypeOK, Requests
  <2>. QED BY <1>5, <2>1, ExcusedSettled
           DEF LandLate, Land, MergeInto, queueVars, Sound, Inv, TypeOK, SyncTypeOK
<1>6. ASSUME NEW r \in late, LoseLate(r) PROVE Settled'
  BY <1>6, ElsewhereSettled DEF LoseLate, Vanish, queueVars
<1>7. CASE Crash
  <2>. USE <1>7 DEF Crash
  <2>1. SpecsOK'
    BY DEF Settled, SpecsOK
  <2>2. SeenOK'
    BY IdleTypes DEF SeenOK, Reconciling
  <2>3. Covered' /\ Kept'
    BY DEF Covered, Kept, Nothing, Present
  <2>. QED BY <2>1, <2>2, <2>3 DEF Settled
<1>8. CASE Demoted
  <2>. USE <1>8 DEF Demoted, syncVars, queueVars
  <2>1. SpecsOK'
    BY DEF Settled, SpecsOK
  <2>2. SeenOK'
    BY DEF SeenOK, Reconciling, Sound, Inv, WorkerOK
  <2>3. Covered'
    BY DEF Covered, Present
  <2>4. Kept'
    BY DEF Settled, Kept, Holds, Present
  <2>. QED BY <2>1, <2>2, <2>3, <2>4 DEF Settled
<1>. QED BY <1>1, <1>2, <1>3, <1>4, <1>5, <1>6, <1>7, <1>8 DEF Environment

(* Steps that begin and end a worker's turn.                               *)
LEMMA TurnSettled ==
    ASSUME Sound, Settled, NEW w \in Workers,
           (\E k \in Keys : GetItem(w, k)) \/ CheckLeader(w) \/ Done(w)
    PROVE  Settled'
<1>1. /\ UNCHANGED <<history, deployment, applied, seen, excused>>
      /\ \A v \in Workers \ {w} : worker'[v] = worker[v] /\ active'[v] = active[v]
  BY DEF GetItem, Queue!Get, CheckLeader, Done, Queue!Done, WorkerStep, syncVars, queueVars,
         Sound, Inv, TypeOK, Queue!QueueTypeOK
<1>2. worker'[w].pc \in {"idle", "leads", "lookup", "done"}
  <2>. DEFINE next == [Idle EXCEPT !.pc = IF leader THEN "lookup" ELSE "done"]
              first == [Idle EXCEPT !.pc = "leads"]
  <2>1. /\ next \in WorkerStates /\ next.pc \in {"lookup", "done"}
        /\ first \in WorkerStates /\ first.pc = "leads"
    BY IdleTypes
  <2>2. \/ WorkerStep(w, "idle", first) \/ WorkerStep(w, "leads", next)
        \/ worker' = [worker EXCEPT ![w] = Idle]
    BY DEF GetItem, CheckLeader, Done
  <2>. HIDE DEF next, first
  <2>3. CASE WorkerStep(w, "idle", first)
    BY <2>1, <2>3, WorkerStepType DEF Sound, Inv
  <2>4. CASE WorkerStep(w, "leads", next)
    BY <2>1, <2>4, WorkerStepType DEF Sound, Inv
  <2>5. CASE worker' = [worker EXCEPT ![w] = Idle]
    BY <2>5, IdleTypes DEF Sound, Inv, TypeOK
  <2>. QED BY <2>2, <2>3, <2>4, <2>5
<1>3. \A d \in Present : ~WillPatch(w, d)
  BY DEF GetItem, CheckLeader, Done, WorkerStep, WillPatch, Reconciling
<1>4. \A v \in Workers : Reconciling(v)' => v # w
  BY <1>2 DEF Reconciling
<1>5. \A v \in Workers \ {w} : /\ Reconciling(v)' <=> Reconciling(v)
                               /\ \A d \in Present : WillPatch(v, d)' <=> WillPatch(v, d)
  BY <1>1 DEF Reconciling, WillPatch
<1>. QED BY <1>1, <1>3, <1>4, <1>5, OthersSettled

(* What the cache does not have is excused, the rest is to be patched.     *)
LEMMA ListSettled ==
    ASSUME Sound, Settled, NEW w \in Workers, ListDeployments(w)
    PROVE  Settled'
<1>. DEFINE next == [worker[w] EXCEPT !.pc = "patch", !.todo = depCache]
<1>1. /\ next \in WorkerStates /\ next.got = worker[w].got /\ next.todo = depCache
      /\ worker[w].pc = "list" /\ WorkerStep(w, "list", next)
  BY DEF ListDeployments, WorkerStep, Sound, Inv, TypeOK, WorkerStates
<1>. HIDE DEF next
<1>2. /\ UNCHANGED <<history, deployment, applied, seen, active>>
      /\ excused' = excused \cup ({active[w]} \X (Present \ depCache))
  BY DEF ListDeployments, syncVars, queueVars
<1>3. /\ worker'[w].got = worker[w].got /\ worker'[w].todo = depCache
      /\ \A v \in Workers \ {w} : worker'[v] = worker[v]
  BY <1>1, WorkerStepType DEF Sound, Inv
<1>4. Reconciling(w)
  BY <1>1 DEF Reconciling
<1>5. \A v \in Workers \ {w} : /\ Reconciling(v)' <=> Reconciling(v)
                               /\ \A d \in Present : WillPatch(v, d)' <=> WillPatch(v, d)
  BY <1>3 DEF Reconciling, WillPatch
<1>6. Reconciling(w)'
  <2>1. next.pc = "patch"
    BY DEF next, Sound, Inv, TypeOK, WorkerStates
  <2>. QED BY <1>1, <2>1, WorkerStepType DEF Sound, Inv, Reconciling
<1>7. \A d \in Present : WillPatch(w, d)' \/ <<active[w], d>> \in excused'
  BY <1>2, <1>3, <1>6 DEF WillPatch
<1>. QED BY <1>2, <1>3, <1>4, <1>5, <1>7, OthersSettled

(* What one PATCH does to its worker, whether it succeeds or not.          *)
LEMMA PatchedOnly ==
    ASSUME Sound, NEW w \in Workers, NEW d \in DeploymentKeys, Patched(w, d),
           active' = active
    PROVE  /\ \A v \in Workers : /\ worker'[v].got = worker[v].got
                                 /\ Reconciling(v)' <=> Reconciling(v)
           /\ Reconciling(w)
           /\ \A v \in Workers, e \in DeploymentKeys :
                  v # w \/ e # d => (WillPatch(v, e)' <=> WillPatch(v, e))
<1>. DEFINE next == [worker[w] EXCEPT !.todo = @ \ {d}]
<1>1. /\ next \in WorkerStates /\ next.got = worker[w].got /\ next.pc = "patch"
      /\ next.todo = worker[w].todo \ {d} /\ worker[w].pc = "patch"
      /\ WorkerStep(w, "patch", next)
  BY DEF Patched, WorkerStep, Sound, Inv, TypeOK, WorkerStates
<1>. HIDE DEF next
<1>2. worker'[w] = next /\ \A v \in Workers \ {w} : worker'[v] = worker[v]
  BY <1>1, WorkerStepType DEF Sound, Inv
<1>3. Reconciling(w)
  BY <1>1 DEF Reconciling
<1>. QED BY <1>1, <1>2, <1>3 DEF Reconciling, WillPatch

LEMMA FailureSettled ==
    ASSUME Sound, Settled, NEW w \in Workers, NEW d \in DeploymentKeys,
           PatchNotFound(w, d) \/ PatchRefused(w, d) \/ PatchFails(w, d)
    PROVE  Settled'
<1>1. /\ UNCHANGED <<history, deployment, applied, seen, active>>
      /\ Patched(w, d)
      /\ excused \subseteq excused'
      /\ d \in Present => <<active[w], d>> \in excused'
  BY DEF PatchNotFound, PatchRefused, PatchFails, syncVars, queueVars, Present
<1>2. /\ \A v \in Workers : /\ worker'[v].got = worker[v].got
                            /\ Reconciling(v)' <=> Reconciling(v)
      /\ \A v \in Workers, e \in DeploymentKeys :
             v # w \/ e # d => (WillPatch(v, e)' <=> WillPatch(v, e))
  BY <1>1, PatchedOnly
<1>3. Present \subseteq DeploymentKeys
  BY DEF Present
<1>. QED BY <1>1, <1>2, <1>3, OthersSettled

(* A lookup remembers the version that it hands to the worker.             *)
LEMMA LookUpSettled ==
    ASSUME Sound, Forward, Settled, NEW w \in Workers, LookUp(w)
    PROVE  Settled'
<1>. DEFINE k == active[w]
            found == k \in LabelerKeys /\ Cached(k).status = "live"
            next == IF found THEN [Idle EXCEPT !.pc = "list", !.got = cacheAt[k]]
                             ELSE [Idle EXCEPT !.pc = "done"]
<1>1. /\ UNCHANGED <<history, deployment, applied, active, excused, cacheAt>>
      /\ WorkerStep(w, "lookup", next)
      /\ \A j \in LabelerKeys : seen'[j] = IF j = k THEN cacheAt[j] ELSE seen[j]
  BY DEF LookUp, syncVars, queueVars, informerVars, Sound, Inv, TypeOK
<1>2. /\ next \in WorkerStates
      /\ found => next.pc = "list" /\ next.got = cacheAt[k]
      /\ ~found => next.pc = "done"
  <2>1. found => cacheAt[k] \in Nat
    BY DEF Sound, Inv, TypeOK
  <2>. QED BY <2>1, IdleTypes
<1>3. /\ worker'[w] = next /\ \A v \in Workers \ {w} : worker'[v] = worker[v]
      /\ worker[w].pc = "lookup"
  BY <1>1, <1>2, WorkerStepType DEF Sound, Inv, WorkerStep
<1>. HIDE DEF next
<1>4. \A v \in Workers : Reconciling(v) => v # w /\ active[v] \in LabelerKeys
  BY <1>3 DEF Reconciling, Sound, Inv, WorkerOK
<1>5. \A v \in Workers : Reconciling(v) => active[v] # k
  BY <1>4, NoneIsNoKey DEF Forward, Queue!OneWorkerPerKey, Keys
<1>6. SpecsOK'
  BY <1>1 DEF Settled, SpecsOK
<1>7. SeenOK'
  <2>1. \A j \in LabelerKeys : seen'[j] \in {0} \cup DOMAIN history[j]
    BY <1>1 DEF Settled, SeenOK, Sound, Inv, TypeOK
  <2>2. ASSUME NEW v \in Workers, Reconciling(v)'
        PROVE  seen'[active[v]] \in {0, worker'[v].got}
    <3>1. CASE v = w
      BY <1>1, <1>2, <1>3, <2>2, <3>1 DEF Reconciling
    <3>2. CASE v # w
      <4>1. Reconciling(v) /\ worker'[v].got = worker[v].got
        BY <1>3, <2>2, <3>2 DEF Reconciling
      <4>. QED BY <1>1, <1>4, <1>5, <4>1 DEF Settled, SeenOK
    <3>. QED BY <3>1, <3>2
  <2>. QED BY <1>1, <2>1, <2>2 DEF SeenOK
<1>8. Present' = Present
  BY <1>1 DEF Present
<1>9. Covered'
  <2>. SUFFICES ASSUME NEW j \in LabelerKeys, NEW d \in Present,
                       seen'[j] # 0, history[j][seen'[j]].status = "live",
                       <<j, d>> \notin excused
                PROVE  \/ applied[j][d] = seen'[j]
                       \/ \E v \in Workers : active[v] = j /\ WillPatch(v, d)'
    BY <1>1, <1>8 DEF Covered
  <2>1. CASE j = k
    <3>1. found
      BY <1>1, <2>1 DEF Cached
    <3>2. WillPatch(w, d)'
      BY <1>2, <1>3, <3>1 DEF WillPatch, Reconciling
    <3>. QED BY <2>1, <3>2
  <2>2. CASE j # k
    <3>1. \A v \in Workers : active[v] = j => (WillPatch(v, d)' <=> WillPatch(v, d))
      BY <1>3, <2>2 DEF WillPatch, Reconciling
    <3>. QED BY <1>1, <2>2, <3>1 DEF Settled, Covered
  <2>. QED BY <2>1, <2>2
<1>10. Kept'
  BY <1>1, <1>8 DEF Settled, Kept, Holds
<1>. QED BY <1>6, <1>7, <1>9, <1>10 DEF Settled

(* A patch sets what its Labeler asks for, and nothing that another owns.  *)
LEMMA PatchHolds ==
    ASSUME Sound, Forward, Settled, NEW w \in Workers, NEW d \in DeploymentKeys, Patch(w, d)
    PROVE  /\ Holds(active[w], d)'
           /\ \A j \in LabelerKeys \ {active[w]} : Holds(j, d) => Holds(j, d)'
<1>. DEFINE k == active[w]
            labels == history[k][worker[w].got].labels
<1>1. /\ k \in LabelerKeys
      /\ \A j \in LabelerKeys : applied'[j][d] = IF j = k THEN worker[w].got ELSE applied[j][d]
      /\ UNCHANGED <<history, active>>
  <2>1. UNCHANGED <<history, active>>
    BY DEF Patch, queueVars
  <2>. QED BY <2>1, PatchMoves
<1>2. /\ worker[w].got \in DOMAIN history[k]
      /\ history[k][worker[w].got] \in Versions
      /\ history[k][worker[w].got].status = "live"
      /\ deployment[d] # Absent
  BY <1>1, ElementOfSeq, LenProperties
     DEF Patch, MergeInto, Published, Sound, Inv, TypeOK, SyncTypeOK
<1>3. labels \in LabelMaps /\ deployment[d] \in LabelMaps /\ labels \in Specs[k]
  BY <1>1, <1>2 DEF Versions, Sound, Inv, TypeOK, SyncTypeOK, Settled, SpecsOK
<1>4. deployment'[d] = Merge(deployment[d], labels)
  BY DEF Patch, MergeInto, Sound, Inv, TypeOK, SyncTypeOK
<1>. HIDE DEF labels
<1>5. /\ Carries(deployment'[d], labels)
      /\ \A x \in LabelKeys \ Sets(labels) : deployment'[d][x] = deployment[d][x]
  BY <1>3, <1>4, MergeKeeps
<1>6. Holds(k, d)'
  <2>1. history'[k][applied'[k][d]].labels = labels
    BY <1>1 DEF labels
  <2>. QED BY <1>1, <1>5, <2>1 DEF Holds, Carries
<1>7. ASSUME NEW j \in LabelerKeys \ {k}, Holds(j, d)
      PROVE  Holds(j, d)'
  <2>1. \A x : Owns(j, x) => x \notin Sets(labels)
    BY <1>1, <1>3 DEF Owns
  <2>2. history'[j][applied'[j][d]] = history[j][applied[j][d]]
    BY <1>1
  <2>. SUFFICES ASSUME NEW x \in Sets(history[j][applied[j][d]].labels), Owns(j, x)
                PROVE  deployment'[d][x] = history[j][applied[j][d]].labels[x]
    BY <2>2 DEF Holds, Owns
  <2>3. x \in LabelKeys \ Sets(labels)
    BY <2>1 DEF Sets
  <2>. QED BY <1>5, <1>7, <2>3 DEF Holds
<1>. QED BY <1>6, <1>7

LEMMA PatchSettled ==
    ASSUME Sound, Forward, Settled, NEW w \in Workers, NEW d \in DeploymentKeys, Patch(w, d)
    PROVE  Settled'
<1>1. /\ UNCHANGED <<history, seen, active>> /\ Patched(w, d)
      /\ excused' = excused \ {<<active[w], d>>}
      /\ d \in Present /\ Present' = Present
      /\ \A e \in DeploymentKeys \ {d} : deployment'[e] = deployment[e]
  <2>1. deployment' = [deployment EXCEPT ![d] =
                           Merge(@, history[active[w]][worker[w].got].labels)]
    BY DEF Patch, MergeInto
  <2>2. deployment[d] # Absent /\ deployment'[d] # Absent
    <3>1. active[w] \in LabelerKeys
      BY PatchMoves
    <3>2. history[active[w]][worker[w].got] \in Versions
      BY <3>1, ElementOfSeq, LenProperties
         DEF Patch, MergeInto, Published, Sound, Inv, TypeOK, SyncTypeOK
    <3>3. deployment[d] # Absent /\ deployment[d] \in LabelMaps
      BY DEF Patch, MergeInto, Sound, Inv, TypeOK, SyncTypeOK
    <3>4. Merge(deployment[d], history[active[w]][worker[w].got].labels) \in LabelMaps
      BY <3>2, <3>3, MergeType DEF Versions
    <3>. QED BY <2>1, <3>3, <3>4, AbsentAssumption DEF Sound, Inv, TypeOK, SyncTypeOK
  <2>. QED BY <2>1, <2>2 DEF Patch, queueVars, Present, Sound, Inv, TypeOK, SyncTypeOK
<1>2. /\ \A v \in Workers : /\ worker'[v].got = worker[v].got
                            /\ Reconciling(v)' <=> Reconciling(v)
      /\ Reconciling(w)
      /\ \A v \in Workers, e \in DeploymentKeys :
             v # w \/ e # d => (WillPatch(v, e)' <=> WillPatch(v, e))
  BY <1>1, PatchedOnly
<1>3. \A k \in LabelerKeys, e \in DeploymentKeys :
          applied'[k][e] = IF k = active[w] /\ e = d THEN worker[w].got ELSE applied[k][e]
  BY PatchMoves
<1>4. SpecsOK' /\ SeenOK'
  BY <1>1, <1>2 DEF Settled, SpecsOK, SeenOK
<1>5. Covered'
  <2>. SUFFICES ASSUME NEW k \in LabelerKeys, NEW e \in Present,
                       seen[k] # 0, history[k][seen[k]].status = "live",
                       <<k, e>> \notin excused'
                PROVE  \/ applied'[k][e] = seen[k]
                       \/ \E v \in Workers : active[v] = k /\ WillPatch(v, e)'
    BY <1>1 DEF Covered
  <2>1. e \in DeploymentKeys
    BY DEF Present
  <2>2. CASE k = active[w] /\ e = d
    BY <1>2, <1>3, <2>1, <2>2 DEF Settled, SeenOK
  <2>3. CASE k # active[w] \/ e # d
    <3>1. \A v \in Workers : active[v] = k => (WillPatch(v, e)' <=> WillPatch(v, e))
      BY <1>2, <2>1, <2>3
    <3>. QED BY <1>1, <1>3, <2>1, <2>3, <3>1 DEF Settled, Covered
  <2>. QED BY <2>2, <2>3
<1>6. Kept'
  <2>. SUFFICES ASSUME NEW k \in LabelerKeys, NEW e \in Present,
                       applied'[k][e] # 0, <<k, e>> \notin excused'
                PROVE  Holds(k, e)'
    BY <1>1 DEF Kept
  <2>1. e \in DeploymentKeys
    BY DEF Present
  <2>2. CASE e = d
    BY <1>1, <1>3, <2>2, PatchHolds DEF Settled, Kept
  <2>3. CASE e # d
    BY <1>1, <1>3, <2>1, <2>3 DEF Settled, Kept, Holds
  <2>. QED BY <2>2, <2>3
<1>. QED BY <1>4, <1>5, <1>6 DEF Settled

LEMMA NextSettled ==
    ASSUME Sound, Forward, Settled, [Next]_vars
    PROVE  Settled'
<1>1. ASSUME NEW w \in Workers, Reconcile(w) \/ \E k \in Keys : GetItem(w, k)
      PROVE  Settled'
  BY <1>1, TurnSettled, LookUpSettled, ListSettled, PatchSettled, FailureSettled DEF Reconcile
<1>. QED BY <1>1, EnvironmentSettled, InformersSettled, LeadershipSettled DEF Next

(***************************************************************************)
(* At rest every Deployment carries the labels of every Labeler, but for   *)
(* those where the code gives no promise (see AppliedAtRest).              *)
(***************************************************************************)
THEOREM RestIsApplied == Spec => []AppliedAtRest
<1>1. Sound /\ Forward /\ Settled /\ [Next]_vars => Settled'
  BY NextSettled
<1>2. Sound /\ NoLostReconcile /\ Settled => AppliedAtRest
  BY SettledAtRest
<1>. QED BY <1>1, <1>2, InitSettled, SoundForward, NothingLost, PTL DEF Spec

=============================================================================
