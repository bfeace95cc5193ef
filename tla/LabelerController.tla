-------------------------- MODULE LabelerController ------------------------
(***************************************************************************)
(* The Labeler controller: one replica of the process cmd/labeler, the API *)
(* server it watches and patches, and the users of both.                   *)
(*                                                                         *)
(*   user --> Labelers, Deployments (API server)                           *)
(*                |  watch: caches lag, one event after the other          *)
(*                v                                                        *)
(*            informers: cache updated, then the handler is notified       *)
(*                |  HandleAll(impl.Enqueue)   controller.go:50-51         *)
(*                v                                                        *)
(*            work queue (WorkQueue, implemented by TwoLaneQueue)          *)
(*                v                                                        *)
(*            workers: Reconcile --> ReconcileKind --> PATCH per Deployment*)
(*                                                                         *)
(* Labelers and Deployments are both named by namespace/name and one queue *)
(* holds both: the handler of the Deployment informer enqueues the name of *)
(* the Deployment, which a worker then looks up as a Labeler.              *)
(***************************************************************************)
EXTENDS LabelSync

CONSTANTS
    Workers,     \* the worker goroutines (controller.DefaultThreadsPerController)
    None,        \* "no key"
    MaxCopies,   \* bound: copies of a key in the work queue (see WorkQueue)
    NamespaceOf, \* the namespace of each key
    Specs,       \* Specs[k]: the label maps that users give to Labeler k
    UserLabels,  \* the label maps that users give to Deployments
    MaxNotes,    \* bound: undelivered notifications of a key
    MaxLag,      \* bound: undelivered watch events of a Deployment
    Refused,     \* label values that the API server refuses on a Deployment
    Limits       \* bounds: the mixtures of interference, how often each kind

Keys == LabelerKeys \cup DeploymentKeys

Kinds == {"labeler", "deployment", "crash", "failure", "demotion"}

ASSUME SpecsAssumption == Specs \in [LabelerKeys -> SUBSET LabelMaps]
ASSUME UserLabelsAssumption == UserLabels \subseteq LabelMaps
ASSUME RefusedAssumption == Refused \subseteq Values
ASSUME BoundsAssumption == MaxNotes \in Nat /\ MaxLag \in Nat /\ Limits \subseteq [Kinds -> Nat]
ASSUME NoneIsNoKey == None \notin Keys
ASSUME CopiesAssumption == MaxCopies \in Nat \ {0}

VARIABLES
    cacheAt,     \* cacheAt[k]: the version of Labeler k in the informer's cache
    depWatch,    \* depWatch[d]: watch events on their way: does d exist?
    depCache,    \* the Deployments in the informer's cache
    notes,       \* notes[k]: handler notifications about k not yet delivered
    pending,     \* the work queue (WorkQueue)
    active,      \* the key each worker holds (WorkQueue)
    worker,      \* worker[w]: where it is, the version it got, what is left
    up,          \* the process runs
    leader,      \* IsLeaderFor answers yes
    promoting,   \* Promote has set the bucket and not yet listed the Labelers
    promoteKeys, \* Labelers that Promote has listed and not yet enqueued
    spent,       \* how much of the Limits is used up, by kind
    seen,        \* history: the version of k last looked up in this leadership
    excused      \* history: <<k, d>>, if since k was last merged into d someone
                 \* disturbed that, or k was reconciled without d in the cache

informerVars == <<cacheAt, depWatch, depCache>>
queueVars == <<pending, active>>
leaderVars == <<leader, promoting, promoteKeys>>
apiVars == <<history, deployment>>
vars == <<syncVars, informerVars, notes, queueVars, worker, up, leaderVars,
          spent, seen, excused>>

Queue == INSTANCE WorkQueue

Gone == [status |-> "gone", labels |-> NoLabels]
Live(labels) == [status |-> "live", labels |-> labels]

WorkerStates ==
    [pc : {"idle", "leads", "lookup", "list", "patch", "done"},
     got : Nat,
     todo : SUBSET DeploymentKeys]

Idle == [pc |-> "idle", got |-> 0, todo |-> {}]

Cached(k) == history[k][cacheAt[k]]

Present == {d \in DeploymentKeys : deployment[d] # Absent}

(* The API server takes a patch as a whole or not at all.                  *)
Acceptable(labels) == \A x \in Sets(labels) : labels[x] \notin Refused

Spend(kind) ==
    /\ spent' = [spent EXCEPT ![kind] = @ + 1]
    /\ \E limit \in Limits : \A other \in Kinds : spent'[other] <= limit[other]

TypeOK ==
    /\ SyncTypeOK
    /\ cacheAt \in [LabelerKeys -> Nat]
    /\ \A k \in LabelerKeys : cacheAt[k] \in DOMAIN history[k]
    /\ depWatch \in [DeploymentKeys -> Seq(BOOLEAN)]
    /\ depCache \in SUBSET DeploymentKeys
    /\ notes \in [Keys -> Nat]
    /\ Queue!QueueTypeOK
    /\ worker \in [Workers -> WorkerStates]
    /\ \A w \in Workers : (active[w] = None) <=> (worker[w].pc = "idle")
    /\ up \in BOOLEAN /\ leader \in BOOLEAN /\ promoting \in BOOLEAN
    /\ promoteKeys \in SUBSET LabelerKeys
    /\ spent \in [Kinds -> Nat]
    /\ seen \in [LabelerKeys -> Nat]
    /\ excused \in SUBSET (LabelerKeys \X DeploymentKeys)

(* The process has not started: whatever it finds then is there already.   *)
Init ==
    /\ history \in [LabelerKeys -> {<<Gone>>} \cup {<<Live(s)>> : s \in LabelMaps}]
    /\ \A k \in LabelerKeys : history[k][1] = Gone \/ history[k][1].labels \in Specs[k]
    /\ deployment \in [DeploymentKeys -> UserLabels \cup {Absent}]
    /\ applied = Nothing
    /\ late = {}
    /\ cacheAt = [k \in LabelerKeys |-> 1]
    /\ depWatch = [d \in DeploymentKeys |-> <<>>]
    /\ depCache = Present
    /\ notes = [k \in Keys |-> 0]
    /\ Queue!QueueInit
    /\ worker = [w \in Workers |-> Idle]
    /\ up = FALSE
    /\ leader = FALSE
    /\ promoting = FALSE
    /\ promoteKeys = {}
    /\ spent = [kind \in Kinds |-> 0]
    /\ seen = [k \in LabelerKeys |-> 0]
    /\ excused = {}

-----------------------------------------------------------------------------
(* Users and the API server.  A write of a Deployment is followed by a     *)
(* watch event, which only tells the controller whether it exists: the     *)
(* controller never looks at the labels a Deployment has.                  *)

Publish(k, v) ==
    /\ Spend("labeler")
    /\ history' = [history EXCEPT ![k] = Append(@, v)]
    /\ UNCHANGED <<deployment, applied, late, informerVars, notes, queueVars,
                   worker, up, leaderVars, seen, excused>>

(* kubectl apply, also kubectl annotate, which leaves the labels alone.    *)
SaveLabeler(k) ==
    /\ Current(k).status # "deleting"
    /\ \E s \in Specs[k] : Publish(k, Live(s))

(* A deleted Labeler lingers while somebody's finalizer holds it.          *)
MarkDeleting(k) ==
    /\ Current(k).status = "live"
    /\ Publish(k, [Current(k) EXCEPT !.status = "deleting"])

RemoveLabeler(k) ==
    /\ Current(k).status # "gone"
    /\ Publish(k, Gone)

(* The API server keeps the events of what happens while no process runs.  *)
DeploymentWritten(d) ==
    /\ Len(depWatch[d]) < MaxLag
    /\ depWatch' = [depWatch EXCEPT ![d] = Append(@, deployment'[d] # Absent)]

(* Creates, edits or deletes d.                                            *)
SaveDeployment(d) ==
    /\ Spend("deployment")
    /\ \E labels \in UserLabels \cup {Absent} :
           /\ labels # deployment[d]
           /\ deployment' = [deployment EXCEPT ![d] = labels]
    /\ DeploymentWritten(d)
    /\ excused' = excused \cup (LabelerKeys \X {d})
    /\ UNCHANGED <<history, applied, late, cacheAt, depCache, notes, queueVars,
                   worker, up, leaderVars, seen>>

-----------------------------------------------------------------------------
(* Informers.  The store is updated before the handler is notified         *)
(* (processDeltas); the notification waits in the listener's buffer until  *)
(* the handler, HandleAll(impl.Enqueue), gets to it.                       *)

Notify(k) ==
    /\ notes[k] < MaxNotes
    /\ notes' = [notes EXCEPT ![k] = @ + 1]

LabelerEvent(k) ==
    /\ up
    /\ cacheAt[k] < Len(history[k])
    /\ cacheAt' = [cacheAt EXCEPT ![k] = @ + 1]
    /\ Notify(k)
    /\ UNCHANGED <<syncVars, depWatch, depCache, queueVars, worker, up,
                   leaderVars, spent, seen, excused>>

DeploymentEvent(d) ==
    /\ up
    /\ depWatch[d] # <<>>
    /\ depCache' = IF Head(depWatch[d]) THEN depCache \cup {d} ELSE depCache \ {d}
    /\ depWatch' = [depWatch EXCEPT ![d] = Tail(@)]
    /\ Notify(d)
    /\ UNCHANGED <<syncVars, cacheAt, queueVars, worker, up, leaderVars, spent,
                   seen, excused>>

(* Every ten hours each informer notifies its handler of all it has.  A    *)
(* notification that would only be merged with one on its way, or with a   *)
(* key in the queue, is left out: that is a bound on resyncs.              *)
NotifyAll(ks) ==
    /\ up
    /\ \A k \in ks : notes[k] = 0 /\ pending[k] = 0
    /\ notes' = [k \in Keys |-> IF k \in ks THEN notes[k] + 1 ELSE notes[k]]
    /\ UNCHANGED <<syncVars, informerVars, queueVars, worker, up, leaderVars,
                   spent, seen, excused>>

LabelersAt(at) == {k \in LabelerKeys : history[k][at[k]].status # "gone"}

CachedLabelers == LabelersAt(cacheAt)

(* Mutant of ResyncLabelers: no resync period.                             *)
ResyncNothing == NotifyAll({})

ResyncLabelers == NotifyAll(CachedLabelers)
ResyncDeployments == NotifyAll(depCache)

HandleNote(k) ==
    /\ notes[k] > 0
    /\ notes' = [notes EXCEPT ![k] = @ - 1]
    /\ Queue!Add(k)
    /\ UNCHANGED <<syncVars, informerVars, worker, up, leaderVars, spent, seen, excused>>

-----------------------------------------------------------------------------
(* Workers: processNextWorkItem, the generated Reconcile, ReconcileKind.   *)

WorkerStep(w, at, next) ==
    /\ worker[w].pc = at
    /\ worker' = [worker EXCEPT ![w] = next]

GetItem(w, k) ==
    /\ up
    /\ Queue!Get(w, k)
    /\ WorkerStep(w, "idle", [Idle EXCEPT !.pc = "leads"])
    /\ UNCHANGED <<syncVars, informerVars, notes, up, leaderVars, spent, seen, excused>>

(* newState reads IsLeaderFor once; who does not lead skips the key.       *)
CheckLeader(w) ==
    /\ WorkerStep(w, "leads", [Idle EXCEPT !.pc = IF leader THEN "lookup" ELSE "done"])
    /\ UNCHANGED <<syncVars, informerVars, notes, queueVars, up, leaderVars,
                   spent, seen, excused>>

(* Mutant of LookUp: a name that is also a Deployment's is passed over.    *)
LookUpSkipsShared(w) ==
    LET k == active[w]
        reconcile == k \in LabelerKeys \ DeploymentKeys /\ Cached(k).status = "live"
    IN  /\ WorkerStep(w, "lookup",
               IF reconcile THEN [Idle EXCEPT !.pc = "list", !.got = cacheAt[k]]
                            ELSE [Idle EXCEPT !.pc = "done"])
        /\ seen' = IF k \in LabelerKeys THEN [seen EXCEPT ![k] = cacheAt[k]] ELSE seen
        /\ UNCHANGED <<syncVars, informerVars, notes, queueVars, up, leaderVars,
                       spent, excused>>

(* A key that is not in the Labeler cache is none, or no longer one; one   *)
(* that is being deleted has no reconcile method ("unknown").              *)
LookUp(w) ==
    LET k == active[w]
        reconcile == k \in LabelerKeys /\ Cached(k).status = "live"
    IN  /\ WorkerStep(w, "lookup",
               IF reconcile THEN [Idle EXCEPT !.pc = "list", !.got = cacheAt[k]]
                            ELSE [Idle EXCEPT !.pc = "done"])
        /\ seen' = IF k \in LabelerKeys THEN [seen EXCEPT ![k] = cacheAt[k]] ELSE seen
        /\ UNCHANGED <<syncVars, informerVars, notes, queueVars, up, leaderVars,
                       spent, excused>>

(* List(labels.Everything()) of an informer on all namespaces.  A          *)
(* Deployment that the cache does not have yet is passed over.             *)
ListDeployments(w) ==
    /\ WorkerStep(w, "list", [worker[w] EXCEPT !.pc = "patch", !.todo = depCache])
    /\ excused' = excused \cup ({active[w]} \X (Present \ depCache))
    /\ UNCHANGED <<syncVars, informerVars, notes, queueVars, up, leaderVars,
                   spent, seen>>

Patched(w, d) == WorkerStep(w, "patch", [worker[w] EXCEPT !.todo = @ \ {d}])

(* Mutant of Patch: an event follows also a patch that changes nothing.    *)
PatchTouches(w, d) ==
    LET k == active[w]
        i == worker[w].got
    IN  /\ d \in worker[w].todo
        /\ Patched(w, d)
        /\ MergeInto(k, i, d)
        /\ DeploymentWritten(d)
        /\ applied' = [applied EXCEPT ![k][d] = i]
        /\ excused' = excused \ {<<k, d>>}
        /\ UNCHANGED <<history, late, cacheAt, depCache, notes, queueVars, up,
                       leaderVars, spent, seen>>

(* The cache has no order: neither has the loop.  A patch that changes     *)
(* nothing writes nothing, and is not followed by an event.                *)
Patch(w, d) ==
    LET k == active[w]
        i == worker[w].got
    IN  /\ d \in worker[w].todo
        /\ Patched(w, d)
        /\ Acceptable(history[k][i].labels)
        /\ MergeInto(k, i, d)
        /\ IF deployment'[d] = deployment[d] THEN UNCHANGED depWatch
                                             ELSE DeploymentWritten(d)
        /\ applied' = [applied EXCEPT ![k][d] = i]
        /\ excused' = excused \ {<<k, d>>}
        /\ UNCHANGED <<history, late, cacheAt, depCache, notes, queueVars, up,
                       leaderVars, spent, seen>>

(* An error of one patch is logged; the loop goes on and returns nil.      *)
PatchNotFound(w, d) ==
    /\ d \in worker[w].todo
    /\ Patched(w, d)
    /\ deployment[d] = Absent
    /\ UNCHANGED <<syncVars, informerVars, notes, queueVars, up, leaderVars,
                   spent, seen, excused>>

(* Nothing tells this error from others: nothing is done about it.         *)
PatchRefused(w, d) ==
    /\ d \in worker[w].todo
    /\ Patched(w, d)
    /\ ~Acceptable(history[active[w]][worker[w].got].labels)
    /\ deployment[d] # Absent
    /\ excused' = excused \cup {<<active[w], d>>}
    /\ UNCHANGED <<syncVars, informerVars, notes, queueVars, up, leaderVars,
                   spent, seen>>

PatchFails(w, d) ==
    /\ d \in worker[w].todo
    /\ Patched(w, d)
    /\ Spend("failure")
    /\ excused' = excused \cup {<<active[w], d>>}
    /\ UNCHANGED <<syncVars, informerVars, notes, queueVars, up, leaderVars, seen>>

(* Mutant of Done: the worker forgets to tell the queue.                   *)
DoneForgotten(w) ==
    /\ worker[w].pc = "done"
    /\ worker' = [worker EXCEPT ![w] = Idle]
    /\ UNCHANGED <<syncVars, informerVars, notes, queueVars, up, leaderVars, spent,
                   seen, excused>>

(* Reconcile returned nil or the skip-key error: Forget, then Done.        *)
Done(w) ==
    /\ \/ worker[w].pc = "done"
       \/ worker[w].pc = "patch" /\ worker[w].todo = {}
    /\ worker' = [worker EXCEPT ![w] = Idle]
    /\ Queue!Done(w)
    /\ UNCHANGED <<syncVars, informerVars, notes, up, leaderVars, spent, seen, excused>>

-----------------------------------------------------------------------------
(* Leadership.  Promote sets the bucket, then enqueues every Labeler of    *)
(* the cache; Demote removes the bucket and stops nothing that runs.       *)

Elected ==
    /\ up
    /\ ~leader
    /\ leader' = TRUE
    /\ promoting' = TRUE
    /\ UNCHANGED <<syncVars, informerVars, notes, queueVars, worker, up,
                   promoteKeys, spent, seen, excused>>

PromoteList ==
    /\ promoting
    /\ promoting' = FALSE
    /\ promoteKeys' = promoteKeys \cup CachedLabelers
    /\ UNCHANGED <<syncVars, informerVars, notes, queueVars, worker, up, leader,
                   spent, seen, excused>>

(* Mutant of PromoteEnqueue: the bucket's key is not passed on.            *)
PromoteForgets(k) ==
    /\ k \in promoteKeys
    /\ promoteKeys' = promoteKeys \ {k}
    /\ UNCHANGED <<syncVars, informerVars, notes, queueVars, worker, up, leader,
                   promoting, spent, seen, excused>>

PromoteEnqueue(k) ==
    /\ k \in promoteKeys
    /\ promoteKeys' = promoteKeys \ {k}
    /\ Queue!Add(k)
    /\ UNCHANGED <<syncVars, informerVars, notes, worker, up, leader, promoting,
                   spent, seen, excused>>

Demoted ==
    /\ leader
    /\ Spend("demotion")
    /\ leader' = FALSE
    /\ seen' = [k \in LabelerKeys |-> 0]
    /\ UNCHANGED <<syncVars, informerVars, notes, queueVars, worker, up,
                   promoting, promoteKeys, excused>>

-----------------------------------------------------------------------------
(* The process dies at any point, with at most one request of each worker  *)
(* on its way.                                                             *)

(* Mutant of InFlight: a patch is built from the Labeler as it is now.     *)
InFlightCurrent(w) ==
    IF worker[w].pc # "patch" THEN {}
    ELSE {[labeler |-> active[w], version |-> cacheAt[active[w]], target |-> d] :
              d \in worker[w].todo}

InFlight(w) ==
    IF worker[w].pc # "patch" THEN {}
    ELSE {[labeler |-> active[w], version |-> worker[w].got, target |-> d] :
              d \in worker[w].todo}

Crash ==
    /\ up
    /\ Spend("crash")
    /\ \E lost \in SUBSET UNION {InFlight(w) : w \in Workers} :
           /\ \A w \in Workers : \A r, s \in lost \cap InFlight(w) : r = s
           /\ late' = late \cup lost
    /\ up' = FALSE
    /\ leader' = FALSE
    /\ promoting' = FALSE
    /\ promoteKeys' = {}
    /\ notes' = [k \in Keys |-> 0]
    /\ pending' = [k \in Keys |-> 0]
    /\ active' = [w \in Workers |-> None]
    /\ worker' = [w \in Workers |-> Idle]
    /\ seen' = [k \in LabelerKeys |-> 0]
    /\ applied' = Nothing
    /\ UNCHANGED <<history, deployment, informerVars, excused>>

(* The next process lists, then watches.  The reflector lists at resource  *)
(* version 0: what it gets may be older than what there is, and older than *)
(* what the last process had seen; the watch brings the rest.  Workers and *)
(* elector start when the caches are filled, with one notification for     *)
(* each object in them on its way.                                         *)
Start ==
    /\ ~up
    /\ up' = TRUE
    /\ \E at \in [LabelerKeys -> UNION {DOMAIN history[k] : k \in LabelerKeys}],
          skip \in [DeploymentKeys -> 0 .. MaxLag] :
           /\ \A k \in LabelerKeys : at[k] \in DOMAIN history[k]
           /\ \A d \in DeploymentKeys : skip[d] <= Len(depWatch[d])
           /\ cacheAt' = at
           /\ depCache' = {d \in DeploymentKeys :
                             IF skip[d] = 0 THEN d \in depCache ELSE depWatch[d][skip[d]]}
           /\ depWatch' = [d \in DeploymentKeys |->
                             SubSeq(depWatch[d], skip[d] + 1, Len(depWatch[d]))]
    /\ notes' = [k \in Keys |->
                     (IF k \in LabelersAt(cacheAt') THEN 1 ELSE 0)
                   + (IF k \in depCache' THEN 1 ELSE 0)]
    /\ UNCHANGED <<syncVars, queueVars, worker, leaderVars, spent, seen, excused>>

(* A request of a dead process lands late, or never.                       *)
LandLate(r) ==
    /\ Acceptable(history[r.labeler][r.version].labels)
    /\ Land(r)
    /\ IF deployment'[r.target] = deployment[r.target]
         THEN UNCHANGED depWatch
         ELSE DeploymentWritten(r.target)
    /\ excused' = excused \cup (LabelerKeys \X {r.target})
    /\ UNCHANGED <<cacheAt, depCache, notes, queueVars, worker, up, leaderVars,
                   spent, seen>>

LoseLate(r) ==
    /\ Vanish(r)
    /\ UNCHANGED <<informerVars, notes, queueVars, worker, up, leaderVars, spent,
                   seen, excused>>

-----------------------------------------------------------------------------
Environment ==
    \/ \E k \in LabelerKeys : SaveLabeler(k) \/ MarkDeleting(k) \/ RemoveLabeler(k)
    \/ \E d \in DeploymentKeys : SaveDeployment(d)
    \/ \E r \in late : LandLate(r) \/ LoseLate(r)
    \/ Crash \/ Demoted

Informers ==
    \/ \E k \in LabelerKeys : LabelerEvent(k)
    \/ \E d \in DeploymentKeys : DeploymentEvent(d)
    \/ \E k \in Keys : HandleNote(k)
    \/ ResyncLabelers \/ ResyncDeployments

Reconcile(w) ==
    \/ CheckLeader(w) \/ LookUp(w) \/ ListDeployments(w) \/ Done(w)
    \/ \E d \in DeploymentKeys :
           \/ Patch(w, d) \/ PatchNotFound(w, d)
           \/ PatchRefused(w, d) \/ PatchFails(w, d)

Leadership == Elected \/ PromoteList \/ \E k \in LabelerKeys : PromoteEnqueue(k)

Next ==
    \/ Environment
    \/ Informers
    \/ \E w \in Workers : Reconcile(w) \/ \E k \in Keys : GetItem(w, k)
    \/ Leadership
    \/ Start

Spec == Init /\ [][Next]_vars

=============================================================================
