------------------------------ MODULE MCLabeler ----------------------------
(* Small instances of LabelerController for TLC: constants for the cfgs.   *)
EXTENDS LabelerProperties, TLC

CONSTANTS a, b,              \* label names
          v1, v2, v3, bad,   \* label values; the API server refuses bad
          l1, l2, d1         \* names of Labelers and Deployments

LA(v) == [NoLabels EXCEPT ![a] = v]
LB(v) == [NoLabels EXCEPT ![b] = v]

(* Labeler l1 may change its mind on label a; l2 sets label b.             *)
OneLabelerSpecs == l1 :> {LA(v1), LA(v2)}
TwoLabelerSpecs == (l1 :> {LA(v1), LA(v2)}) @@ (l2 :> {LB(v1)})
FixedSpecs == (l1 :> {LA(v1)}) @@ (l2 :> {LB(v1), LB(bad)})
CorrectedSpecs == l1 :> {LA(v1), LA(bad)}

(* Users create Deployments with a label of their own, or with none.       *)
OwnLabel == {LB(v3)}
Unlabelled == {NoLabels}

OneNamespace == [k \in Keys |-> "ns"]
TwoNamespaces == [k \in Keys |-> IF k \in LabelerKeys THEN "ns" ELSE "other"]

Bound(labeler, dep, crash, failure, demotion) ==
    ("labeler" :> labeler) @@ ("deployment" :> dep) @@ ("crash" :> crash)
        @@ ("failure" :> failure) @@ ("demotion" :> demotion)

(* What may disturb one behaviour.  Users that edit Deployments, crashes,  *)
(* demotions and so on are combined with an update of the Labeler, and     *)
(* not all with one another.                                               *)
NoLimits == {Bound(0, 0, 0, 0, 0)}
OneUpdate == {Bound(1, 0, 0, 0, 0)}
OneEdit == {Bound(0, 1, 0, 0, 0)}
MixedLimits == {Bound(2, 0, 0, 0, 0), Bound(1, 2, 0, 0, 0), Bound(1, 0, 0, 1, 0),
                Bound(0, 1, 0, 1, 0), Bound(1, 0, 1, 0, 0), Bound(1, 0, 0, 0, 1)}
ConvergeLimits == {Bound(0, 1, 1, 1, 0), Bound(1, 0, 0, 0, 0)}

Symmetry == Permutations(Workers)

(* Where l1 is alone, its two values are alike too.                        *)
ValueSymmetry == Symmetry \cup Permutations({v1, v2})

=============================================================================
