------------------------- MODULE MCInformerFactory -------------------------
(* InformerFactory for TLC: two types of which one has accessors, and a   *)
(* list of options in which later ones overrule earlier ones, or Filtered. *)
EXTENDS InformerFactory, TLC

CONSTANTS labelers, others, u1, u2, c1, c2

(* Each thread has a context of its own, and one knows the other's as well.*)
OwnContext == (u1 :> {c1}) @@ (u2 :> {c1, c2})

Lists ==
    {<<WithCustomResyncConfig(labelers :> "short"), WithNamespace("ns"),
       WithTransform("strip"), WithCustomResyncConfig(labelers :> "long"),
       WithTweakListOptions("filter"), WithNamespace("other")>>,
     Filtered("ns", "filter")}

=============================================================================
