------------------------------- MODULE Labels ------------------------------
(***************************************************************************)
(* Label maps and what a patch of the Labeler controller does to them.     *)
(* A label map is total: NoLabel stands for a key that the map lacks.      *)
(*                                                                         *)
(* ReconcileKind sends {"metadata": {"labels": spec.customLabels}} as a    *)
(* JSON merge patch.  The API server applies it: a key of the patch is     *)
(* added or overwritten, a key it lacks is left alone.  (A JSON null would *)
(* delete a key; the schema of the CRD allows only strings, so spec.custom *)
(* Labels holds none.)                                                     *)
(***************************************************************************)
CONSTANTS
    LabelKeys,   \* the label names in use
    Values,      \* the label values in use
    NoLabel      \* the absence of a label

ASSUME NoLabelAssumption == NoLabel \notin Values

LabelMaps == [LabelKeys -> Values \cup {NoLabel}]

NoLabels == [x \in LabelKeys |-> NoLabel]

(* The keys that a label map has.                                          *)
Sets(labels) == {x \in LabelKeys : labels[x] # NoLabel}

(* Mutant of Merge: the patch replaces all labels.                         *)
MergeReplaces(labels, patch) == patch

Merge(labels, patch) ==
    [x \in LabelKeys |-> IF x \in Sets(patch) THEN patch[x] ELSE labels[x]]

(* labels has all that patch asks for.                                     *)
Carries(labels, patch) == \A x \in Sets(patch) : labels[x] = patch[x]

=============================================================================
