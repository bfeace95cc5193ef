------------------------------- MODULE Startup -----------------------------
(***************************************************************************)
(* The process from main to its end: sharedmain.Main("custom-labeler",     *)
(* NewController).  The injection packages that a program is linked with   *)
(* register injectors; SetupInformers calls them kind by kind, and each    *)
(* finds what it needs in the context that the ones before it made.  Then  *)
(* NewController adds its handlers, the informers are run and waited for,  *)
(* and the controllers serve until a signal stops them.                    *)
(*                                                                         *)
(* The Labeler side of this is the generated code of this repository, the  *)
(* Deployment side the same code generated for knative.dev/pkg; a program  *)
(* may also be linked with the filtered informers, or, a test, with the    *)
(* fakes.  sharedmain, the signal handler, the server goroutines and the   *)
(* informers' Run are vendored.                                            *)
(***************************************************************************)
EXTENDS Integers, FiniteSets, Sequences, Functions, FactoryOptions

CONSTANTS
    Programs,   \* what a program is linked with and told, see below
    Configs,    \* the rest.Configs that it may find
    MaxQueued   \* bound: keys in the work queue

Types == {"labeler", "deployment"}

(* A factory, and the informer that it makes, goes by its key in the       *)
(* context: the type it serves and the selector, if it is a filtered one.  *)
Plain == "no selector"
NotGiven == <<"no selectors">>

ConfigStates ==
    [qps : Int, burst : Int, limiter : {"none", "given"} \cup Types,
     userAgent : {"", "given", "default"}]

ASSUME ProgramsAssumption ==
    \A p \in Programs :
        /\ {"fake", "filtered", "electable"} \subseteq DOMAIN p
        /\ p.fake \in BOOLEAN        \* linked with the fakes: a test
        /\ p.filtered \in BOOLEAN    \* linked with the filtered informers
        /\ p.electable \in BOOLEAN   \* an elector can be built from its config
        /\ {"selectors", "scope"} \subseteq DOMAIN p
        /\ p.selectors \in Seq(Range(p.selectors))
        /\ Plain \notin Range(p.selectors)  \* Key{} and Key{Selector} differ in type
ASSUME ConfigsAssumption ==
    Configs \subseteq {c \in ConfigStates : c.limiter \in {"none", "given"}}
ASSUME QueuedAssumption == MaxQueued \in Nat

VARIABLES
    program, config,
    phase,      \* where main is
    todo,       \* the injectors of this phase that have not been called
    clients,    \* clients[t]: the config of the client of type t
    factories,  \* factories[key]
    accessors,  \* the keys of the typed informers in the context
    list,       \* the informers that startInformers will run
    handled,    \* the informers that have the controller's handler
    run,        \* run[i]: the goroutine of list[i]
    synced,     \* the informers that HasSynced
    at,         \* the informer that StartInformers waits for
    stopped,    \* the first signal has come
    member,     \* member[m]: a goroutine of main's errgroup
    queued, busy \* keys in the work queue, and with its workers

context == <<clients, factories, accessors>>
running == <<run, synced, at>>
serving == <<member, queued, busy>>
vars == <<program, config, phase, todo, context, list, handled, running, stopped, serving>>

Members == {"controllers", "probes", "pprof"}
Ends == {"handed over", "panicked", "fatal", "killed", "exited"}
Phases == {"start", "clients", "factories", "informers", "filtered", "configure",
           "construct", "launch", "sync", "serve", "drain"}

PlainKeys == Types \X {Plain}
FilteredOne == <<"labeler", "filtered">>
Keys == Types \X ({Plain} \cup UNION {Range(p.selectors) : p \in Programs})

TypeOK ==
    /\ program \in Programs /\ config \in ConfigStates
    /\ phase \in Phases \cup Ends
    /\ todo \subseteq PlainKeys \cup {FilteredOne}
    /\ \A t \in DOMAIN clients : t \in Types /\ clients[t] \in ConfigStates
    /\ DOMAIN factories \subseteq Keys /\ accessors \subseteq Keys
    /\ list \in Seq(accessors) /\ handled \subseteq Range(list)
    /\ run \in [DOMAIN list -> {"none", "go", "running", "returned"}]
    /\ synced \subseteq Range(list)
    /\ at \in Nat /\ stopped \in BOOLEAN
    /\ member \in [Members -> {"none", "running", "draining", "stuck", "failed", "returned"}]
    /\ queued \in 0 .. MaxQueued /\ busy \in BOOLEAN

Init ==
    /\ program \in Programs /\ config \in Configs
    /\ phase = "start" /\ todo = {}
    /\ clients = <<>> /\ factories = <<>> /\ accessors = {}
    /\ list = <<>> /\ handled = {}
    /\ run = <<>> /\ synced = {} /\ at = 1
    /\ stopped = FALSE
    /\ member = [m \in Members |-> "none"]
    /\ queued = 0 /\ busy = FALSE

-----------------------------------------------------------------------------
(* Injectors.  Those of one kind are called in the order in which their    *)
(* packages were initialised, which the linker chooses.                    *)

Linked(kind) ==
    CASE kind \in {"clients", "informers"} -> PlainKeys
      [] kind = "factories" -> PlainKeys \cup (IF program.filtered THEN {FilteredOne} ELSE {})
      [] kind = "filtered" -> IF program.filtered THEN {FilteredOne} ELSE {}

(* MainWithConfig and EnableInjectionOrDie fill in what is not set.        *)
Default ==
    /\ phase = "start"
    /\ config' = [config EXCEPT !.qps = IF @ = 0 THEN 5 ELSE @,
                                !.burst = IF @ = 0 THEN 10 ELSE @]
    /\ phase' = "clients"
    /\ todo' = Linked("clients")
    /\ UNCHANGED <<program, context, list, handled, running, stopped, serving>>

After(kind) ==
    CASE kind = "clients" -> "factories" [] kind = "factories" -> "informers"
      [] kind = "informers" -> "filtered"
      [] kind = "filtered" -> IF program.fake THEN "handed over" ELSE "configure"

NextKind(kind) ==
    /\ phase = kind
    /\ todo = {}
    /\ phase' = After(kind)
    /\ todo' = IF kind = "filtered" THEN {} ELSE Linked(After(kind))
    /\ UNCHANGED <<program, config, context, list, handled, running, stopped, serving>>

Panics ==
    /\ phase' = "panicked"
    /\ UNCHANGED <<program, config, todo, context, list, handled, running, stopped, serving>>

Injects(kind, injector) ==
    /\ phase = kind
    /\ injector \in todo
    /\ todo' = todo \ {injector}
    /\ UNCHANGED <<program, phase, handled, synced, at, stopped, serving>>

(* A client set works with a copy of the config, with a rate limiter of    *)
(* its own for all its parts unless the user gave one.                     *)
NewForConfigAndClient(c, t) ==
    IF c.limiter = "none" /\ c.qps > 0 THEN [c EXCEPT !.limiter = t] ELSE c

SetConfigDefaults(c) == [c EXCEPT !.userAgent = IF @ = "" THEN "default" ELSE @]

NewForConfig(c, t) == NewForConfigAndClient(SetConfigDefaults(c), t)

(* Mutant of BurstRefused: a limiter that the user gave is no excuse.      *)
BurstRefusedAnyway(c) == c.qps > 0 /\ c.burst <= 0

(* The error that NewForConfigOrDie makes a panic of.                      *)
BurstRefused(c) == c.limiter = "none" /\ c.qps > 0 /\ c.burst <= 0

(* A fake client has no config, nor a limit.                               *)
Client(t) ==
    IF program.fake THEN [qps |-> 0, burst |-> 0, limiter |-> "none", userAgent |-> ""]
                    ELSE NewForConfig(config, t)

(* Mutant of WithClientFromConfig: the config is not copied.               *)
WithClientInPlace(t) ==
    IF ~program.fake /\ BurstRefused(config)
      THEN phase = "clients" /\ <<t, Plain>> \in todo /\ Panics
      ELSE /\ Injects("clients", <<t, Plain>>)
           /\ clients' = Overlay(clients, [x \in {t} |-> Client(x)])
           /\ config' = Client(t)
           /\ UNCHANGED <<factories, accessors, list, run>>

WithClientFromConfig(t) ==
    IF ~program.fake /\ BurstRefused(config)
      THEN phase = "clients" /\ <<t, Plain>> \in todo /\ Panics
      ELSE /\ Injects("clients", <<t, Plain>>)
           /\ clients' = Overlay(clients, [x \in {t} |-> Client(x)])
           /\ UNCHANGED <<config, factories, accessors, list, run>>

(* The three Gets, which panic when there is nothing to get.               *)
HasClient(t) == t \in DOMAIN clients
HasFactory(t) == <<t, Plain>> \in DOMAIN factories
HasInformer(t) == <<t, Plain>> \in accessors

HasFilteredFactory(selector) == <<"labeler", selector>> \in DOMAIN factories

Scope == IF program.scope = "all" THEN <<>> ELSE <<WithNamespace(program.scope)>>

WithInformerFactory(t) ==
    IF ~HasClient(t)
      THEN phase = "factories" /\ <<t, Plain>> \in todo /\ Panics
      ELSE /\ Injects("factories", <<t, Plain>>)
           /\ factories' = Overlay(factories,
                  [key \in {<<t, Plain>>} |-> NewSharedInformerFactoryWithOptions(Scope)])
           /\ UNCHANGED <<config, clients, accessors, list, run>>

(* Mutant of SelectorOf: the closure captures the loop's variable.         *)
SelectorOfLast(i) == program.selectors[Len(program.selectors)]

(* selectorVal := selector                                                 *)
SelectorOf(i) == program.selectors[i]

(* One factory per selector; the factory of a selector that is given again *)
(* takes the place of the one before.                                      *)
WithFilteredFactories ==
    IF ~HasClient("labeler") \/ program.selectors = NotGiven
      THEN phase = "factories" /\ FilteredOne \in todo /\ Panics
      ELSE /\ Injects("factories", FilteredOne)
           /\ factories' = Overlay(factories,
                  [key \in {"labeler"} \X Range(program.selectors) |->
                      LET i == CHOOSE i \in DOMAIN program.selectors :
                                   program.selectors[i] = key[2]
                      IN  NewSharedInformerFactoryWithOptions(
                              Scope \o <<WithTweakListOptions(SelectorOf(i))>>)])
           /\ UNCHANGED <<config, clients, accessors, list, run>>

(* Mutant of Lists: the context with the accessor is not passed on.        *)
ListsOnly(keys) ==
    /\ list' = list \o keys
    /\ run' = [i \in DOMAIN list' |-> "none"]
    /\ UNCHANGED <<config, context>>

(* The accessor goes into the context, its informer is made now and listed.*)
Lists(keys) ==
    /\ accessors' = accessors \cup Range(keys)
    /\ list' = list \o keys
    /\ run' = [i \in DOMAIN list' |-> "none"]
    /\ UNCHANGED <<config, clients, factories>>

WithInformer(t) ==
    IF ~HasFactory(t)
      THEN phase = "informers" /\ <<t, Plain>> \in todo /\ Panics
      ELSE Injects("informers", <<t, Plain>>) /\ Lists(<< <<t, Plain>> >>)

WithFilteredInformers ==
    LET selectors == program.selectors
        keys == [i \in DOMAIN selectors |-> <<"labeler", selectors[i]>>]
    IN  IF \/ selectors = NotGiven
           \/ \E selector \in Range(selectors) : ~HasFilteredFactory(selector)
          THEN phase = "filtered" /\ FilteredOne \in todo /\ Panics
          ELSE Injects("filtered", FilteredOne) /\ Lists(keys)

Inject ==
    \/ \E t \in Types : WithClientFromConfig(t) \/ WithInformerFactory(t) \/ WithInformer(t)
    \/ WithFilteredFactories \/ WithFilteredInformers
    \/ \E kind \in {"clients", "factories", "informers", "filtered"} : NextKind(kind)

-----------------------------------------------------------------------------
(* The rest of MainWithConfig.                                             *)

Goes(from, to) ==
    /\ phase = from
    /\ phase' = to
    /\ UNCHANGED <<program, config, todo, context, stopped>>

(* ConfigMaps, versions, loggers: any of it may end in logger.Fatal.       *)
Configure ==
    /\ \E to \in {"construct", "fatal"} : Goes("configure", to)
    /\ UNCHANGED <<list, handled, running, serving>>

(* Gets informers and clients, and adds one handler to each informer.      *)
NewController ==
    IF \A t \in Types : HasInformer(t) /\ HasClient(t)
      THEN /\ Goes("construct", "launch")
           /\ handled' = PlainKeys
           /\ UNCHANGED <<list, running, serving>>
      ELSE phase = "construct" /\ Panics

(* pprof serves; cmw.Start may fail; then every informer is run.           *)
Launch ==
    \/ /\ Goes("launch", "fatal")
       /\ UNCHANGED <<list, handled, running, serving>>
    \/ /\ Goes("launch", "sync")
       /\ run' = [i \in DOMAIN list |-> "go"]
       /\ member' = [member EXCEPT !["pprof"] = "running"]
       /\ UNCHANGED <<list, handled, synced, at, queued, busy>>

(* Mutant of WaitForSync: nobody waits.                                    *)
WaitForNothing ==
    /\ Goes("sync", "serve")
    /\ member' = [member EXCEPT !["controllers"] = "running", !["probes"] = "running"]
    /\ UNCHANGED <<list, handled, running, queued, busy>>

(* One informer after the other; who is stopped before it has synced ends  *)
(* the process.                                                            *)
WaitForSync ==
    \/ /\ at \in DOMAIN list /\ list[at] \in synced
       /\ Goes("sync", "sync")
       /\ at' = at + 1
       /\ UNCHANGED <<list, handled, run, synced, serving>>
    \/ /\ at \in DOMAIN list /\ list[at] \notin synced /\ stopped
       /\ Goes("sync", "fatal")
       /\ UNCHANGED <<list, handled, running, serving>>
    \/ /\ at \notin DOMAIN list
       /\ Goes("sync", "serve")
       /\ member' = [member EXCEPT !["controllers"] = "running", !["probes"] = "running"]
       /\ UNCHANGED <<list, handled, running, queued, busy>>

Failed == \E m \in Members : member[m] = "failed"

(* <-egCtx.Done(), then pprof.Shutdown.                                    *)
Drain ==
    /\ stopped \/ Failed
    /\ Goes("serve", "drain")
    /\ member' = [member EXCEPT !["pprof"] = IF @ = "running" THEN "returned" ELSE @]
    /\ UNCHANGED <<list, handled, running, queued, busy>>

(* eg.Wait.  The other members look at ctx, not at egCtx: if one has       *)
(* failed and no signal has come, the rest go on and main waits.           *)
Exit ==
    /\ \A m \in Members : member[m] \in {"failed", "returned"}
    /\ Goes("drain", "exited")
    /\ UNCHANGED <<list, handled, running, serving>>

Main ==
    \/ Default \/ Inject \/ Configure \/ NewController \/ Launch \/ WaitForSync
    \/ Drain \/ Exit

-----------------------------------------------------------------------------
(* The goroutines of the process, as long as main runs.                    *)

Alive == phase \notin Ends

InformerMoves(i, from, to) ==
    /\ Alive
    /\ i \in DOMAIN list /\ run[i] = from
    /\ run' = [run EXCEPT ![i] = to]
    /\ UNCHANGED <<program, config, phase, todo, context, list, handled, at, stopped, serving>>

(* An informer that runs already is not run again.                         *)
Run(i) ==
    /\ InformerMoves(i, "go",
           IF \E j \in DOMAIN list : list[j] = list[i] /\ run[j] = "running"
             THEN "returned" ELSE "running")
    /\ UNCHANGED synced

Sync(i) ==
    /\ list[i] \notin synced
    /\ InformerMoves(i, "running", "running")
    /\ synced' = synced \cup {list[i]}

RunReturns(i) ==
    /\ stopped
    /\ InformerMoves(i, "running", "returned")
    /\ UNCHANGED synced

(* A handler adds keys, until the work queue is shut down; workers take    *)
(* them, and go on until it is empty.                                      *)
Works(q, b) ==
    /\ Alive
    /\ queued' = q /\ busy' = b
    /\ UNCHANGED <<program, config, phase, todo, context, list, handled, running, stopped,
                   member>>

Enqueue(i) ==
    /\ i \in DOMAIN list /\ run[i] = "running" /\ list[i] \in handled
    /\ queued < MaxQueued /\ member["controllers"] \in {"none", "running"}
    /\ Works(queued + 1, busy)

Take ==
    /\ member["controllers"] \in {"running", "draining"} /\ program.electable
    /\ queued > 0 /\ ~busy
    /\ Works(queued - 1, TRUE)

Done == busy /\ Works(queued, FALSE)

Becomes(m, from, to) ==
    /\ Alive
    /\ member[m] = from
    /\ member' = [member EXCEPT ![m] = to]
    /\ UNCHANGED <<program, config, phase, todo, context, list, handled, running, stopped,
                   queued, busy>>

(* Mutant of RunContext: it does not wait for its workers.                 *)
RunContextLeaves ==
    \/ program.electable /\ stopped /\ Becomes("controllers", "running", "draining")
    \/ queued = 0 /\ Becomes("controllers", "draining", "returned")
    \/ /\ ~program.electable
       /\ Becomes("controllers", "running", IF queued = 0 THEN "failed" ELSE "stuck")

(* It shuts the queue down and waits until it is empty and the workers     *)
(* have returned.  If no elector can be built it starts no worker, and the *)
(* wait for the queue to be empty never ends if it is not empty already.   *)
RunContext ==
    \/ program.electable /\ stopped /\ Becomes("controllers", "running", "draining")
    \/ queued = 0 /\ ~busy /\ Becomes("controllers", "draining", "returned")
    \/ /\ ~program.electable
       /\ Becomes("controllers", "running", IF queued = 0 THEN "failed" ELSE "stuck")

(* Mutant of ServeHealthProbes: nobody shuts the server down.              *)
ServeForever == Becomes("probes", "running", "failed")

(* Either server may find its port taken; the probes stop with ctx.        *)
ServeHealthProbes ==
    \/ Becomes("probes", "running", "failed")
    \/ stopped /\ Becomes("probes", "running", "returned")

ListenAndServe == Becomes("pprof", "running", "failed")

(* The first signal closes the stop channel, the second one exits.         *)
Signal ==
    /\ Alive /\ ~program.fake
    /\ IF stopped THEN phase' = "killed" /\ UNCHANGED stopped
                  ELSE stopped' = TRUE /\ UNCHANGED phase
    /\ UNCHANGED <<program, config, todo, context, list, handled, running, serving>>

Next ==
    \/ Main
    \/ \E i \in DOMAIN list : Run(i) \/ Sync(i) \/ RunReturns(i) \/ Enqueue(i)
    \/ Take \/ Done \/ RunContext \/ ServeHealthProbes \/ ListenAndServe
    \/ Signal

Spec == Init /\ [][Next]_vars

(* Goroutines that can go on do, informers sync, and a server that is shut *)
(* down returns.  Nobody has to send a signal, no server has to fail.      *)
FairSpec ==
    /\ Spec
    /\ WF_vars(Main)
    /\ WF_vars(\E i \in DOMAIN list : Run(i)) /\ WF_vars(\E i \in DOMAIN list : Sync(i))
    /\ WF_vars(Take) /\ WF_vars(Done) /\ WF_vars(RunContext)
    /\ WF_vars(ServeHealthProbes /\ member'["probes"] = "returned")

-----------------------------------------------------------------------------
(* When the controllers start, both informers run with the handler on them *)
(* and have listed: no lister that a reconciler asks is empty for want of  *)
(* a list, and no event is missed (controller.go:20-21, 50-51).            *)
ControllersSeeAll ==
    member["controllers"] = "running" =>
        /\ PlainKeys \subseteq handled \cap synced
        /\ \A key \in PlainKeys : \E i \in DOMAIN list :
               list[i] = key /\ (run[i] = "running" \/ stopped)

(* Whatever order the linker chose, a program only panics if it is linked  *)
(* with filtered informers and given no selectors, or configured with a    *)
(* rate and no burst (filtered_factory.go:49-53, clientset.go:82-85).      *)
PanicsForCause ==
    phase = "panicked" =>
        \/ program.filtered /\ program.selectors = NotGiven
        \/ ~program.fake /\ config.limiter = "none" /\ config.qps > 0 /\ config.burst < 0

(* Client sets do not share a rate limiter that one of them made, and use  *)
(* the one that the user gave (clientset.go:60-87).                        *)
OwnLimiters ==
    /\ config.limiter \in {"none", "given"}
    /\ ~program.fake => \A t \in DOMAIN clients :
           clients[t].limiter \in
               IF config.limiter = "given" THEN {"given"} ELSE {"none", t}

(* An informer that is found in the context under a selector watches with  *)
(* that selector, any other with none, and each of them in the namespace   *)
(* of the process (filtered_factory.go:55-66).                             *)
WatchesAsNamed ==
    \A key \in accessors :
        NewFilteredLabelerInformer(factories[key].namespace, factories[key].tweak)
            = <<program.scope, IF key[2] = Plain THEN "none" ELSE key[2]>>

(* A process that exits has finished all that was in its queue when it was *)
(* told to stop (vendored controller.go:443-450).                          *)
ExitsDrained == phase = "exited" => queued = 0 /\ ~busy

(* A process that is told to stop ends, unless it could not build an       *)
(* elector and keys were queued before it tried.                           *)
StopsWhenTold == stopped ~> (~Alive \/ member["controllers"] = "stuck")

=============================================================================
