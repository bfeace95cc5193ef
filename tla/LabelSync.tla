----------------------------- MODULE LabelSync -----------------------------
(***************************************************************************)
(* What the Labeler controller may do to the cluster, without a word on    *)
(* caches, queues, workers or leaders.                                     *)
(*                                                                         *)
(* Users write Labelers and Deployments as they please.  The controller    *)
(* only ever merges the labels of a Labeler, as that Labeler was published *)
(* at some time, into a Deployment that exists; and once a process has     *)
(* merged one version of a Labeler into a Deployment it never again merges *)
(* an older one.  A process that dies may leave requests on their way, and *)
(* the next one knows nothing of what was merged before.                   *)
(***************************************************************************)
EXTENDS Naturals, Sequences, Labels

CONSTANTS LabelerKeys, DeploymentKeys, Absent

ASSUME AbsentAssumption == Absent \notin LabelMaps

VARIABLES
    history,     \* history[k]: the versions of Labeler k, the last is current
    deployment,  \* deployment[d]: the labels of Deployment d, or Absent
    applied,     \* applied[k][d]: the version of k that this process last
                 \* merged into d, or 0
    late         \* requests of processes that have died

syncVars == <<history, deployment, applied, late>>

Statuses == {"gone", "live", "deleting"}

Versions == [status : Statuses, labels : LabelMaps]

Requests == [labeler : LabelerKeys, version : Nat, target : DeploymentKeys]

Published(k, i) == i \in DOMAIN history[k] /\ history[k][i].status = "live"

Current(k) == history[k][Len(history[k])]

Nothing == [k \in LabelerKeys |-> [d \in DeploymentKeys |-> 0]]

SyncTypeOK ==
    /\ history \in [LabelerKeys -> Seq(Versions) \ {<<>>}]
    /\ deployment \in [DeploymentKeys -> LabelMaps \cup {Absent}]
    /\ applied \in [LabelerKeys -> [DeploymentKeys -> Nat]]
    /\ late \in SUBSET Requests

SyncInit ==
    /\ history \in [LabelerKeys -> {<<v>> : v \in Versions}]
    /\ deployment \in [DeploymentKeys -> LabelMaps \cup {Absent}]
    /\ applied = Nothing
    /\ late = {}

WriteLabeler(k) ==
    /\ UNCHANGED <<deployment, applied, late>>
    /\ \E v \in Versions : history' = [history EXCEPT ![k] = Append(@, v)]

WriteDeployment(d) ==
    /\ UNCHANGED <<history, applied, late>>
    /\ \E labels \in LabelMaps \cup {Absent} :
           deployment' = [deployment EXCEPT ![d] = labels]

MergeInto(k, i, d) ==
    /\ Published(k, i)
    /\ deployment[d] # Absent
    /\ deployment' = [deployment EXCEPT ![d] = Merge(@, history[k][i].labels)]

Apply(k, i, d) ==
    /\ i >= applied[k][d]
    /\ MergeInto(k, i, d)
    /\ applied' = [applied EXCEPT ![k][d] = i]
    /\ UNCHANGED <<history, late>>

(* A process dies with requests on their way; each lands later or never.   *)
Die ==
    /\ late \subseteq late'
    /\ \A r \in late' \ late : r \in Requests /\ Published(r.labeler, r.version)
    /\ applied' = Nothing
    /\ UNCHANGED <<history, deployment>>

Land(r) ==
    /\ r \in late
    /\ MergeInto(r.labeler, r.version, r.target)
    /\ late' = late \ {r}
    /\ UNCHANGED <<history, applied>>

Vanish(r) ==
    /\ r \in late
    /\ late' = late \ {r}
    /\ UNCHANGED <<history, deployment, applied>>

SyncNext ==
    \/ \E k \in LabelerKeys : WriteLabeler(k)
    \/ \E d \in DeploymentKeys : WriteDeployment(d)
    \/ \E k \in LabelerKeys, d \in DeploymentKeys :
           \E i \in DOMAIN history[k] : Apply(k, i, d)
    \/ Die
    \/ \E r \in late : Land(r) \/ Vanish(r)

SyncSpec == SyncInit /\ [][SyncNext]_syncVars

=============================================================================
