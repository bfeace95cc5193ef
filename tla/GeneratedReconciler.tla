------------------------ MODULE GeneratedReconciler ------------------------
(***************************************************************************)
(* The generated reconciler of Labelers (injection/reconciler/clusterops/  *)
(* v1alpha1/labeler) with all that a reconciler given to NewImpl may       *)
(* implement: finalization, observation by replicas that do not lead,      *)
(* events and errors of all kinds.  The Labeler controller implements      *)
(* none of these (LabelerController models what it does).                  *)
(*                                                                         *)
(* One Labeler, several replicas of the controller, each with a cache that *)
(* lags and a queue that holds the key once at most.  A delay before a key *)
(* is added again is a time in which nobody takes it.  What users, other   *)
(* controllers, faults and the lease do, they do at any time.              *)
(***************************************************************************)
EXTENDS Naturals, Sequences, FiniteSets

CONSTANTS
    Replicas,
    Foreign,          \* the finalizers of others
    Own,              \* finalizerName
    Reconcilers,      \* what a reconciler implements, and what it returns
    MaxWrites,        \* bound: writes of users
    MaxFaults         \* bound: lost requests, demotions and restarts

Interfaces == {"Finalizer", "ReadOnly", "OnDeletion"}

(* What a method returns: nil, a bare event, an event wrapped in an error, *)
(* and errors with a meaning to the queue.                                 *)
Events == {"nil", "normal", "warning", "wrapped normal", "wrapped warning",
           "error", "requeue", "skip", "permanent"}

ASSUME OwnIsNotForeign == Own \notin Foreign
ASSUME ReconcilersAssumption ==
    Reconcilers \subseteq [implements : SUBSET Interfaces, answers : SUBSET Events]
ASSUME FinalizerBounds == MaxWrites \in Nat /\ MaxFaults \in Nat

VARIABLES
    reconciler,  \* the reconciler given to NewImpl; it never changes
    history,     \* the versions of the Labeler: its index is resourceVersion
    late,        \* patches whose answer nobody waits for any more
    cacheAt,     \* cacheAt[r]: the version in r's cache
    touched,     \* touched[r]: parts of the cached object that r wrote to
    leader,      \* leader[r]: IsLeaderFor at r
    queued,      \* queued[r]: the key is in the queue, or will be
    worker,      \* worker[r]: the worker that has the key, if one has
    writes, faults,
    reconciled,  \* history: uids that ReconcileKind was called for
    finalized    \* history: uids that FinalizeKind is done with

implements == reconciler.implements
answers == reconciler.answers

api == <<history, late>>
informer == <<cacheAt, touched>>
past == <<reconciled, finalized>>
vars == <<reconciler, api, informer, leader, queued, worker, writes, faults, past>>

-----------------------------------------------------------------------------
(* The stored object.  A deleted one stays as long as it has finalizers.   *)

Finalizers == Foreign \cup {Own}

Gone == [uid |-> 0, deleting |-> FALSE, finalizers |-> {}]
Created == [uid |-> Len(history) + 1, deleting |-> FALSE, finalizers |-> {}]

Objects == [uid : Nat, deleting : BOOLEAN, finalizers : SUBSET Finalizers]

Current == history[Len(history)]

Settled(object) == IF object.deleting /\ object.finalizers = {} THEN Gone ELSE object

Store(object) == history' = Append(history, Settled(object))

Requests == [version : Nat, finalizers : SUBSET Finalizers]

(* Mutant of Applies: the patch does not name one.                         *)
AppliesAnyway(request) == Current # Gone

(* A patch that names a resourceVersion applies to that version only.      *)
Applies(request) == request.version = Len(history)

Land(request) == Store([Current EXCEPT !.finalizers = request.finalizers])

-----------------------------------------------------------------------------
(* DeepCopy, as the parts of its result that are still the original's.     *)

Parts == {"metadata", "spec"}

(* Mutant of DeepCopyIntoSpec: the map of CustomLabels is not copied.      *)
DeepCopyIntoNothing(shared) == shared

DeepCopyIntoSpec(shared) == shared \ {"spec"}
DeepCopyIntoMeta(shared) == shared \ {"metadata"}

(* *out = *in, which shares everything, then part after part.              *)
DeepCopy == DeepCopyIntoSpec(DeepCopyIntoMeta(Parts))

-----------------------------------------------------------------------------
Idle == [pc |-> "idle", lead |-> FALSE, version |-> 0, shared |-> {}, event |-> "nil"]

WorkerStates ==
    [pc : {"idle", "get", "set", "reconcile", "finalize", "clear", "observe"},
     lead : BOOLEAN, version : Nat, shared : SUBSET Parts, event : Events]

(* The copy of the Labeler that replica r works on.                        *)
Resource(r) == history[worker[r].version]

TypeOK ==
    /\ reconciler \in Reconcilers
    /\ history \in Seq(Objects) /\ history # <<>>
    /\ late \in SUBSET Requests
    /\ cacheAt \in [Replicas -> Nat]
    /\ \A r \in Replicas : cacheAt[r] \in DOMAIN history
    /\ touched \in [Replicas -> SUBSET Parts]
    /\ leader \in [Replicas -> BOOLEAN] /\ queued \in [Replicas -> BOOLEAN]
    /\ worker \in [Replicas -> WorkerStates]
    /\ \A r \in Replicas :
           worker[r].pc \in {"set", "reconcile", "finalize", "clear"} =>
               worker[r].version \in DOMAIN history
    /\ writes \in Nat /\ faults \in Nat
    /\ reconciled \in SUBSET Nat /\ finalized \in SUBSET Nat

Init ==
    /\ reconciler \in Reconcilers
    /\ history = <<Gone>>
    /\ late = {}
    /\ cacheAt = [r \in Replicas |-> 1]
    /\ touched = [r \in Replicas |-> {}]
    /\ leader = [r \in Replicas |-> FALSE]
    /\ queued = [r \in Replicas |-> FALSE]
    /\ worker = [r \in Replicas |-> Idle]
    /\ writes = 0 /\ faults = 0
    /\ reconciled = {} /\ finalized = {}

-----------------------------------------------------------------------------
(* Users and other controllers.                                            *)

Write(object) ==
    /\ writes < MaxWrites
    /\ writes' = writes + 1
    /\ Store(object)
    /\ UNCHANGED <<reconciler, late, informer, leader, queued, worker, faults, past>>

Create == Current = Gone /\ Write(Created)

Delete ==
    /\ Current # Gone /\ ~Current.deleting
    /\ Write([Current EXCEPT !.deleting = TRUE])

(* The API server takes no new finalizers on what is being deleted.        *)
AddForeign(f) ==
    /\ Current # Gone /\ ~Current.deleting /\ f \notin Current.finalizers
    /\ Write([Current EXCEPT !.finalizers = @ \cup {f}])

RemoveForeign(f) ==
    /\ f \in Current.finalizers
    /\ Write([Current EXCEPT !.finalizers = @ \ {f}])

-----------------------------------------------------------------------------
(* Caches, queue and leadership.                                           *)

CacheEvent(r) ==
    /\ cacheAt[r] < Len(history)
    /\ cacheAt' = [cacheAt EXCEPT ![r] = @ + 1]
    /\ touched' = [touched EXCEPT ![r] = {}]
    /\ queued' = [queued EXCEPT ![r] = TRUE]
    /\ UNCHANGED <<reconciler, api, leader, worker, writes, faults, past>>

Resync(r) ==
    /\ queued' = [queued EXCEPT ![r] = @ \/ history[cacheAt[r]] # Gone]
    /\ UNCHANGED <<reconciler, api, informer, leader, worker, writes, faults, past>>

(* The lease is held by one replica at a time.  PromoteFunc lists the      *)
(* cache and enqueues all it finds (no filter is given).                   *)
Elected(r) ==
    /\ \A s \in Replicas : ~leader[s]
    /\ leader' = [leader EXCEPT ![r] = TRUE]
    /\ queued' = [queued EXCEPT ![r] = @ \/ history[cacheAt[r]] # Gone]
    /\ UNCHANGED <<reconciler, api, informer, worker, writes, faults, past>>

Fault == faults < MaxFaults /\ faults' = faults + 1

(* Nothing that r does already is stopped.                                 *)
Demoted(r) ==
    /\ leader[r]
    /\ Fault
    /\ leader' = [leader EXCEPT ![r] = FALSE]
    /\ UNCHANGED <<reconciler, api, informer, queued, worker, writes, past>>

(* The process dies with its queue and its requests on their way, and the  *)
(* next one lists: what it gets may be older than what this one has seen.  *)
Restart(r) ==
    /\ Fault
    /\ \E at \in DOMAIN history :
           /\ cacheAt' = [cacheAt EXCEPT ![r] = at]
           /\ queued' = [queued EXCEPT ![r] = history[at] # Gone]
    /\ touched' = [touched EXCEPT ![r] = {}]
    /\ leader' = [leader EXCEPT ![r] = FALSE]
    /\ worker' = [worker EXCEPT ![r] = Idle]
    /\ UNCHANGED <<reconciler, api, writes, past>>

(* A patch whose sender has given up, or died, lands after all, or never.  *)
LateLands(request) ==
    /\ late' = late \ {request}
    /\ IF Applies(request) THEN Land(request) ELSE UNCHANGED history
    /\ UNCHANGED <<reconciler, informer, leader, queued, worker, writes, faults, past>>

-----------------------------------------------------------------------------
(* Reconcile.                                                              *)

Moves(r, from, to) ==
    /\ worker[r].pc = from
    /\ worker' = [worker EXCEPT ![r] = to]

(* Mutant of Retried: an error that wraps an event counts as an event.     *)
RetriedUnlessEvent(event) == event \in {"error", "requeue"}

(* A bare event is reported and nil returned, a warning too; an event in   *)
(* an error is an error.                                                   *)
Retried(event) == event \in {"wrapped normal", "wrapped warning", "error", "requeue"}

(* Reconcile returns.  handleErr adds the key again after a delay, or      *)
(* forgets it.                                                             *)
Returns(r, from, event) ==
    /\ Moves(r, from, Idle)
    /\ queued' = [queued EXCEPT ![r] = @ \/ Retried(event)]

(* A worker takes the key.  newState asks once whether r leads; who        *)
(* neither leads nor observes skips the key (isNotLeaderNorObserver).      *)
Take(r) ==
    /\ queued[r]
    /\ queued' = [queued EXCEPT ![r] = FALSE]
    /\ IF leader[r] \/ "ReadOnly" \in implements
         THEN Moves(r, "idle", [Idle EXCEPT !.pc = "get", !.lead = leader[r]])
         ELSE Moves(r, "idle", Idle)
    /\ UNCHANGED <<reconciler, api, informer, leader, writes, faults, past>>

(* Mutant of ReconcileMethodFor: the deletion is not looked at.            *)
MethodForAny(r, object) ==
    IF worker[r].lead THEN "set"
    ELSE IF "ReadOnly" \in implements THEN "observe" ELSE "unknown"

ReconcileMethodFor(r, object) ==
    IF ~object.deleting
      THEN IF worker[r].lead THEN "set"
           ELSE IF "ReadOnly" \in implements THEN "observe" ELSE "unknown"
      ELSE IF worker[r].lead /\ "Finalizer" \in implements THEN "finalize" ELSE "unknown"

(* ObserveDeletion and ObserveKind only read.                              *)
Observe(r, from) ==
    /\ \E event \in answers : Returns(r, from, event)
    /\ UNCHANGED <<reconciler, api, informer, leader, writes, faults, past>>

NothingToDo(r) ==
    /\ Returns(r, "get", "nil")
    /\ UNCHANGED <<reconciler, api, informer, leader, writes, faults, past>>

Get(r) ==
    LET object == history[cacheAt[r]]
        method == ReconcileMethodFor(r, object)
    IN  IF object = Gone
          THEN IF "OnDeletion" \in implements THEN Observe(r, "get") ELSE NothingToDo(r)
        ELSE IF method = "unknown" THEN NothingToDo(r)
        ELSE /\ Moves(r, "get", [worker[r] EXCEPT !.pc = method,
                                    !.version = cacheAt[r], !.shared = DeepCopy])
             /\ UNCHANGED <<reconciler, api, informer, leader, queued, writes, faults, past>>

ObserveKind(r) == Observe(r, "observe")

-----------------------------------------------------------------------------
(* Mutant of UpdateFinalizers: its caller does not look at the error.      *)
UpdateUnchecked(r, from, finalizers, next) ==
    LET request == [version |-> worker[r].version, finalizers |-> finalizers]
    IN  /\ IF Applies(request) THEN Land(request) ELSE UNCHANGED history
        /\ next
        /\ UNCHANGED <<reconciler, late, informer, leader, writes, faults, past>>

(* updateFinalizersFiltered, which returns the stored object, or an error: *)
(* the object has gone or changed, or the request failed and may yet land. *)

UpdateFinalizers(r, from, finalizers, next) ==
    LET request == [version |-> worker[r].version, finalizers |-> finalizers]
    IN  /\ \/ /\ Applies(request)
              /\ Land(request)
              /\ next
              /\ UNCHANGED <<late, faults>>
           \/ /\ ~Applies(request)
              /\ Returns(r, from, "error")
              /\ UNCHANGED <<history, late, faults>>
           \/ /\ Fault
              /\ late' = late \cup {request}
              /\ Returns(r, from, "error")
              /\ UNCHANGED history
        /\ UNCHANGED <<reconciler, informer, leader, writes, past>>

(* The update gives ReconcileKind a fresh object, no longer a copy.        *)
SetFinalizerIfFinalizer(r) ==
    /\ worker[r].pc = "set"
    /\ IF "Finalizer" \notin implements \/ Own \in Resource(r).finalizers
         THEN /\ Moves(r, "set", [worker[r] EXCEPT !.pc = "reconcile"])
              /\ UNCHANGED <<reconciler, api, informer, leader, queued, writes, faults, past>>
         ELSE UpdateFinalizers(r, "set", Resource(r).finalizers \cup {Own},
                  /\ Moves(r, "set", [worker[r] EXCEPT !.pc = "reconcile",
                                         !.version = Len(history) + 1, !.shared = {}])
                  /\ UNCHANGED queued)

(* ReconcileKind may write to the object it is given.                      *)
ReconcileKind(r) ==
    /\ \E event \in answers : Returns(r, "reconcile", event)
    /\ touched' = [touched EXCEPT ![r] = @ \cup worker[r].shared]
    /\ reconciled' = reconciled \cup {Resource(r).uid}
    /\ UNCHANGED <<reconciler, api, cacheAt, leader, writes, faults, finalized>>

(* nil, and a normal event even inside an error, let the finalizer go.     *)
Cleans(event) == event \in {"nil", "normal", "wrapped normal"}

FinalizeKind(r) ==
    \E event \in answers :
        /\ Moves(r, "finalize", [worker[r] EXCEPT !.pc = "clear", !.event = event])
        /\ touched' = [touched EXCEPT ![r] = @ \cup worker[r].shared]
        /\ finalized' = IF Cleans(event) THEN finalized \cup {Resource(r).uid} ELSE finalized
        /\ UNCHANGED <<reconciler, api, cacheAt, leader, queued, writes, faults, reconciled>>

(* Mutant of Clears: the finalizer goes whatever FinalizeKind returned.    *)
ClearsAlways(event) == TRUE

Clears(event) == Cleans(event)

ClearFinalizer(r) ==
    /\ worker[r].pc = "clear"
    /\ IF Clears(worker[r].event) /\ Own \in Resource(r).finalizers
         THEN UpdateFinalizers(r, "clear", Resource(r).finalizers \ {Own},
                  Returns(r, "clear", worker[r].event))
         ELSE /\ Returns(r, "clear", worker[r].event)
              /\ UNCHANGED <<reconciler, api, informer, leader, writes, faults, past>>

-----------------------------------------------------------------------------
Users ==
    \/ Create \/ Delete
    \/ \E f \in Foreign : AddForeign(f) \/ RemoveForeign(f)

Reconcile(r) ==
    \/ Get(r) \/ ObserveKind(r) \/ SetFinalizerIfFinalizer(r)
    \/ ReconcileKind(r) \/ FinalizeKind(r) \/ ClearFinalizer(r)

Replica(r) ==
    \/ CacheEvent(r) \/ Resync(r) \/ Take(r) \/ Reconcile(r)
    \/ Elected(r) \/ Demoted(r) \/ Restart(r)

Next ==
    \/ Users
    \/ \E request \in late : LateLands(request)
    \/ \E r \in Replicas : Replica(r)

Spec == Init /\ [][Next]_vars

(* Goroutines run, watches deliver, delays end, somebody is elected.  Of   *)
(* those who implement FinalizeKind it takes that it does not fail for     *)
(* ever.                                                                   *)
FairSpec ==
    /\ Spec
    /\ WF_vars(\E r \in Replicas : Elected(r))
    /\ \A r \in Replicas :
           /\ WF_vars(CacheEvent(r)) /\ WF_vars(Take(r)) /\ WF_vars(Reconcile(r))
           /\ SF_vars(FinalizeKind(r) /\ Cleans(worker'[r].event))

-----------------------------------------------------------------------------
(* ReconcileKind never sees an object that is being deleted, nor, if there *)
(* is a FinalizeKind, one without our finalizer: whatever it sets up will  *)
(* be torn down again (reconciler.go:49-50, 200-206).                      *)
ReconcilesHeld ==
    \A r \in Replicas : worker[r].pc = "reconcile" =>
        /\ Resource(r) # Gone /\ ~Resource(r).deleting
        /\ "Finalizer" \in implements => Own \in Resource(r).finalizers

(* No object that ReconcileKind was called for goes before FinalizeKind    *)
(* has finished with it, through stale caches, demotions in the middle of  *)
(* a reconciliation, restarts and late patches (reconciler.go:342-365).    *)
FinalizedBeforeGone ==
    "Finalizer" \in implements =>
        \A uid \in reconciled : Current.uid # uid => uid \in finalized

(* The patches of finalizers leave those of others as they are, and never  *)
(* reach another object of the same name: the list that is sent was read   *)
(* from a cache or an answer, and may be stale (reconciler.go:300-312).    *)
ForeignKept ==
    [][history' # history /\ writes' = writes =>
           /\ Current'.finalizers \cap Foreign = Current.finalizers \cap Foreign
           /\ Current' # Gone => Current'.uid = Current.uid]_vars

(* The informer's copy is not modified (reconciler.go:194).                *)
CachePristine == \A r \in Replicas : touched[r] = {}

(* An object that is deleted is let go, whichever replica is demoted or    *)
(* dies meanwhile, if FinalizeKind returns no bare warning and no error    *)
(* that says not to try again: those leave it to the next resync.          *)
Released ==
    ("Finalizer" \in implements /\ answers \cap {"warning", "skip", "permanent"} = {})
        => <>[](Current.deleting => Own \notin Current.finalizers)

=============================================================================
