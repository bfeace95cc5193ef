---------------------------- MODULE FactoryOptions --------------------------
(***************************************************************************)
(* The options of the shared informer factory, and what the informers that *)
(* it makes for Labelers watch with them (informers/externalversions).     *)
(***************************************************************************)
EXTENDS Naturals, Sequences

(* Options are applied in order: the last one of each setting counts, and  *)
(* for the resync periods the last one of each type.                       *)

Settings == {"namespace", "tweak", "transform", "custom"}

NoOptions ==
    [namespace |-> "all", tweak |-> "none", transform |-> "none", custom |-> <<>>]

WithNamespace(namespace) == [sets |-> "namespace", to |-> namespace]
WithTweakListOptions(tweak) == [sets |-> "tweak", to |-> tweak]
WithTransform(transform) == [sets |-> "transform", to |-> transform]
WithCustomResyncConfig(config) == [sets |-> "custom", to |-> config]

(* What is added to a Go map, or to a context, hides what was there.       *)
Overlay(values, added) ==
    [key \in DOMAIN values \cup DOMAIN added |->
        IF key \in DOMAIN added THEN added[key] ELSE values[key]]

(* Mutant of Apply: a resync period once given to a type stays.            *)
ApplyFirst(f, option) ==
    [f EXCEPT ![option.sets] = IF option.sets = "custom" THEN Overlay(option.to, @)
                                                          ELSE option.to]

Apply(f, option) ==
    [f EXCEPT ![option.sets] = IF option.sets = "custom" THEN Overlay(@, option.to)
                                                          ELSE option.to]

(* after[n]: the factory as the first n options leave it.                  *)
NewSharedInformerFactoryWithOptions(opts) ==
    LET after[n \in 0 .. Len(opts)] ==
            IF n = 0 THEN NoOptions ELSE Apply(after[n - 1], opts[n])
    IN  after[Len(opts)]

(* The last of some places in a list of options.                           *)
LastIn(places) == CHOOSE i \in places : \A j \in places : j <= i

(* The options that NewFilteredSharedInformerFactory gives.                *)
Filtered(namespace, tweak) == <<WithNamespace(namespace), WithTweakListOptions(tweak)>>

(* Lists and watches one namespace or all of them, through the tweak.      *)
NewFilteredLabelerInformer(namespace, tweak) == <<namespace, tweak>>

=============================================================================
