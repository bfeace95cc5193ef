--------------------------- MODULE LabelerProperties -----------------------
(***************************************************************************)
(* What makes the Labeler controller correct, what the README promises of  *)
(* it and what it does not keep, and the fairness the liveness needs.      *)
(***************************************************************************)
EXTENDS LabelerController

(***************************************************************************)
(* No reconciliation is lost.  While the process leads, every Labeler in   *)
(* its cache has been looked up in the version the cache holds, or its key *)
(* is still on its way to a worker: as a notification, in the queue, in a  *)
(* promotion, or with a worker that has yet to look it up.  It takes the   *)
(* order of Promote (bucket first, list second), of processDeltas (cache   *)
(* first, handler second) and a queue that keeps keys added in processing. *)
(***************************************************************************)
OnItsWay(k) ==
    \/ notes[k] > 0
    \/ pending[k] > 0
    \/ promoting
    \/ k \in promoteKeys
    \/ \E w \in Workers : active[w] = k /\ worker[w].pc \in {"leads", "lookup"}

NoLostReconcile ==
    leader => \A k \in CachedLabelers : seen[k] # cacheAt[k] => OnItsWay(k)

(***************************************************************************)
(* A Labeler is reconciled by one worker at a time, from a cache that only *)
(* moves forward: a version merged into a Deployment is never followed by  *)
(* an older version of the same Labeler, through updates, demotions and    *)
(* promotions, for as long as the process lives.                           *)
(***************************************************************************)
NeverBackwards ==
    [][up /\ up' => \A k \in LabelerKeys, d \in DeploymentKeys :
                      applied'[k][d] >= applied[k][d]]_vars

(***************************************************************************)
(* "The controller merges labels rather than replacing them ... No labels  *)
(* are removed" (README.md:360-364): only a user's write takes a label off *)
(* a Deployment, or a Deployment away.                                     *)
(***************************************************************************)
LabelsOf(d) == IF deployment[d] = Absent THEN {} ELSE Sets(deployment[d])

NoLabelRemoved ==
    [][\A d \in DeploymentKeys :
          LabelsOf(d) \subseteq LabelsOf(d)' \/ spent'["deployment"] > spent["deployment"]]_vars

(***************************************************************************)
(* At rest: all events are delivered, nothing is queued or in work; until  *)
(* someone writes something or a resync is due, nothing more will happen.  *)
(***************************************************************************)
AtRest ==
    /\ up /\ leader /\ ~promoting /\ promoteKeys = {}
    /\ \A k \in LabelerKeys : cacheAt[k] = Len(history[k])
    /\ \A d \in DeploymentKeys : depWatch[d] = <<>>
    /\ \A k \in Keys : notes[k] = 0 /\ pending[k] = 0
    /\ \A w \in Workers : active[w] = None
    /\ late = {}

(* The labels that Labeler k alone is ever asked to set.                   *)
Owns(k, x) == \A j \in LabelerKeys \ {k} : \A s \in Specs[j] : x \notin Sets(s)

Labelled(k, d) ==
    \A x \in Sets(Current(k).labels) :
        Owns(k, x) => deployment[d][x] = Current(k).labels[x]

(***************************************************************************)
(* At rest every Deployment carries the current labels of every Labeler,   *)
(* except where, since that Labeler was last merged into it, someone else  *)
(* wrote the Deployment, a patch of it failed or was refused, or it was    *)
(* not in the cache when the Labeler was reconciled: a Deployment that is  *)
(* made again while it is being patched may be passed over by the next     *)
(* reconciliation, and nothing but the resync brings it back.              *)
(***************************************************************************)
AppliedAtRest ==
    AtRest =>
        \A k \in LabelerKeys, d \in Present :
            Current(k).status = "live" /\ <<k, d>> \notin excused => Labelled(k, d)

(***************************************************************************)
(* The controller implements the abstract specification LabelSync.         *)
(***************************************************************************)
ImplementsLabelSync == SyncSpec

-----------------------------------------------------------------------------
(***************************************************************************)
(* "Self-healing - reapplies on drift" (README.md:1075): a Deployment that *)
(* has been given a Labeler's current labels, and that a user then edited, *)
(* carries them again once the controller is at rest.  It does not: the    *)
(* handler of the Deployment informer enqueues the Deployment's own name   *)
(* (controller.go:51), not the Labelers that cover it.                     *)
(***************************************************************************)
ReappliesOnDrift ==
    AtRest => \A k \in LabelerKeys, d \in Present :
                  Current(k).status = "live" /\ applied[k][d] = Len(history[k])
                      => Labelled(k, d)

(***************************************************************************)
(* "automatically applies specified labels to all Deployments in the same  *)
(* namespace" (README.md:7), "Get List of Deployments in the same namespace*)
(* as the Labeler" (reconciler.go:43): a Labeler is merged into the        *)
(* Deployments of its namespace only.  It is not: the lister is that of    *)
(* all namespaces.                                                         *)
(***************************************************************************)
SameNamespaceOnly ==
    \A k \in LabelerKeys, d \in DeploymentKeys :
        applied[k][d] # 0 => NamespaceOf[k] = NamespaceOf[d]

-----------------------------------------------------------------------------
(***************************************************************************)
(* Fairness.  Goroutines run, watches deliver, the kubelet restarts the    *)
(* container and somebody is elected; the work queue is fair to each key   *)
(* (KeepsFairPromise of TwoLaneQueue).  Users and faults are never forced. *)
(* Watch events are strongly fair only because MaxNotes, which the code    *)
(* does not have, can hold one back for a while.                           *)
(***************************************************************************)
Fairness ==
    /\ WF_vars(Start) /\ WF_vars(Elected) /\ WF_vars(PromoteList)
    /\ \A k \in LabelerKeys : WF_vars(PromoteEnqueue(k)) /\ SF_vars(LabelerEvent(k))
    /\ \A d \in DeploymentKeys : SF_vars(DeploymentEvent(d))
    /\ \A k \in Keys :
           WF_vars(HandleNote(k)) /\ SF_vars(\E w \in Workers : GetItem(w, k))
    /\ \A w \in Workers : WF_vars(Reconcile(w))
    /\ WF_vars(\E r \in late : LandLate(r) \/ LoseLate(r))

FairSpec == Spec /\ Fairness

(* The informers' resync timer goes off again and again.                   *)
ResyncSpec == FairSpec /\ SF_vars(ResyncLabelers)

(***************************************************************************)
(* What the resync is for: whatever users, failed patches, crashes,        *)
(* demotions and late requests have done, once they stop all Deployments   *)
(* come to carry the current labels of all Labelers, and keep them.  A     *)
(* Labeler whose labels the API server refuses is never applied, but it is *)
(* in nobody's way, and it is applied once a user has corrected it.        *)
(***************************************************************************)
Converges ==
    <>[](\A k \in LabelerKeys, d \in Present :
             Current(k).status = "live" /\ Acceptable(Current(k).labels)
                 => Labelled(k, d))

(***************************************************************************)
(* Between two resyncs the controller comes to rest: its own patches,      *)
(* whose events come back to it, do not keep it busy for ever.             *)
(***************************************************************************)
ComesToRest ==
    <>[][~ResyncLabelers /\ ~ResyncDeployments]_vars => <>[]AtRest

=============================================================================
