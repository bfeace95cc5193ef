--------------------------- MODULE InformerFactory -------------------------
(***************************************************************************)
(* The shared informer factory (informers/externalversions/factory.go) and *)
(* the typed and generic accessors in front of it.  Any number of threads  *)
(* call its methods at once; each section between Lock and Unlock is one   *)
(* step.  The informers' goroutines and caches are client-go's, the stop   *)
(* channels the callers'.                                                  *)
(*                                                                         *)
(* The controller itself reaches InformerFor only, by way of Startup;      *)
(* Start, Shutdown and WaitForCacheSync are what other users of this       *)
(* client library call.                                                    *)
(***************************************************************************)
EXTENDS Naturals, FiniteSets, Sequences, FactoryOptions

CONSTANTS
    Types,       \* object types (reflect.Type)
    Resources,   \* the types that ForResource and a typed accessor serve
    Users,       \* threads that call the factory
    Channels,    \* stop channels
    NoChannel,
    Passes,      \* Passes[u]: the stop channels that thread u passes
    OptionLists  \* the lists of options that a factory may be made with

ASSUME TypesAreFinite == IsFiniteSet(Types)
ASSUME ResourcesAssumption == Resources \subseteq Types
ASSUME NoChannelAssumption == NoChannel \notin Channels
ASSUME PassesAssumption == Passes \in [Users -> SUBSET Channels]
ASSUME OptionListsAssumption ==
    \A opts \in OptionLists :
        /\ opts \in Seq({opts[i] : i \in DOMAIN opts})
        /\ \A i \in DOMAIN opts : opts[i].sets \in Settings

VARIABLES
    options,     \* the options that the factory was made with
    informers,   \* informers[t]: index in made of the informer of type t, or 0
    made,        \* history: all informers ever made, in order
    handed,      \* history: <<t, i>>: a caller was given made[i] for t
    started,     \* startedInformers
    wg,          \* the counter of the WaitGroup
    shuttingDown,
    run,         \* run[t]: the goroutine that runs an informer of type t
    synced,      \* types whose informer HasSynced
    closed,      \* stop channels that are closed
    caller,      \* caller[u]: where thread u is
    down         \* history: some Shutdown has returned

table == <<options, informers, made, handed>>
goroutines == <<started, wg, run>>
environment == <<synced, closed>>
vars == <<table, goroutines, environment, shuttingDown, caller, down>>

-----------------------------------------------------------------------------
factory == NewSharedInformerFactoryWithOptions(options)

ResyncPeriod(t) ==
    IF t \in DOMAIN factory.custom THEN factory.custom[t] ELSE "default"

(* A type without an accessor has an informer of its caller's making, for  *)
(* which the factory has a say in the period and the transform only.       *)
NewInformer(t) ==
    [of |-> t,
     watches |-> IF t \in Resources
                   THEN NewFilteredLabelerInformer(factory.namespace, factory.tweak)
                   ELSE NewFilteredLabelerInformer("all", "none"),
     resync |-> ResyncPeriod(t),
     transform |-> factory.transform]

-----------------------------------------------------------------------------
Idle == [pc |-> "idle", chan |-> NoChannel, left |-> {}, needs |-> {}]

CallerStates ==
    [pc : {"idle", "drain", "sync"}, chan : Channels \cup {NoChannel},
     left : SUBSET Types, needs : SUBSET Types]

RunStates == [pc : {"none", "running", "done"}, informer : Nat,
              chan : Channels \cup {NoChannel}]

Running == {t \in Types : run[t].pc = "running"}

TypeOK ==
    /\ options \in OptionLists
    /\ informers \in [Types -> Nat]
    /\ \A t \in Types : informers[t] \in {0} \cup DOMAIN made
    /\ made \in Seq({made[i] : i \in DOMAIN made})
    /\ handed \in SUBSET (Types \X Nat)
    /\ started \in SUBSET Types
    /\ wg \in Nat
    /\ shuttingDown \in BOOLEAN /\ down \in BOOLEAN
    /\ run \in [Types -> RunStates]
    /\ synced \in SUBSET Types /\ closed \in SUBSET Channels
    /\ caller \in [Users -> CallerStates]

Init ==
    /\ options \in OptionLists
    /\ informers = [t \in Types |-> 0]
    /\ made = <<>>
    /\ handed = {}
    /\ started = {}
    /\ wg = 0
    /\ shuttingDown = FALSE
    /\ run = [t \in Types |-> [pc |-> "none", informer |-> 0, chan |-> NoChannel]]
    /\ synced = {}
    /\ closed = {}
    /\ caller = [u \in Users |-> Idle]
    /\ down = FALSE

-----------------------------------------------------------------------------
(* Making informers.                                                       *)

(* Mutant of InformerFor: it does not look whether there is one.           *)
InformerForNew(u, t) ==
    /\ caller[u].pc = "idle"
    /\ made' = Append(made, NewInformer(t))
    /\ informers' = [informers EXCEPT ![t] = Len(made')]
    /\ handed' = handed \cup {<<t, informers'[t]>>}
    /\ UNCHANGED <<options, goroutines, environment, shuttingDown, caller, down>>

InformerFor(u, t) ==
    /\ caller[u].pc = "idle"
    /\ IF informers[t] # 0
         THEN UNCHANGED <<informers, made>>
         ELSE /\ made' = Append(made, NewInformer(t))
              /\ informers' = [informers EXCEPT ![t] = Len(made')]
    /\ handed' = handed \cup {<<t, informers'[t]>>}
    /\ UNCHANGED <<options, goroutines, environment, shuttingDown, caller, down>>

(* Clusterops().V1alpha1().Labelers() touches nothing; its Informer() and  *)
(* its Lister() do.                                                        *)
Informer(u, t) == t \in Resources /\ InformerFor(u, t)

(* Unlike the typed accessor, this one makes the informer at once.  For an *)
(* unknown resource it returns an error.                                   *)
ForResource(u, t) ==
    IF t \in Resources THEN Informer(u, t)
                       ELSE caller[u].pc = "idle" /\ UNCHANGED vars

-----------------------------------------------------------------------------
(* Running them.                                                           *)

Made == {t \in Types : informers[t] # 0}

ToStart == Made \ started

(* Mutant of Launch: Add(1), whatever the number of informers.             *)
LaunchAddsOne(u, ts, c) ==
    /\ wg' = IF ts = {} THEN wg ELSE wg + 1
    /\ run' = [t \in Types |-> IF t \in ts
           THEN [pc |-> "running", informer |-> informers[t], chan |-> c]
           ELSE run[t]]
    /\ started' = started \cup ts
    /\ caller' = [caller EXCEPT ![u] = [Idle EXCEPT !.needs = Made]]

Launch(u, ts, c) ==
    /\ wg' = wg + Cardinality(ts)
    /\ run' = [t \in Types |-> IF t \in ts
           THEN [pc |-> "running", informer |-> informers[t], chan |-> c]
           ELSE run[t]]
    /\ started' = started \cup ts
    /\ caller' = [caller EXCEPT ![u] = [Idle EXCEPT !.needs = Made]]

(* Mutants of Start: it does not look whether the factory shuts down; it   *)
(* starts nothing when anything has been started; it does not look what    *)
(* has been started.                                                       *)
StartAnyway(u, c) ==
    /\ caller[u].pc = "idle"
    /\ Launch(u, ToStart, c)
    /\ UNCHANGED <<table, environment, shuttingDown, down>>

StartOnce(u, c) ==
    /\ caller[u].pc = "idle"
    /\ ~shuttingDown
    /\ Launch(u, IF started = {} THEN Made ELSE {}, c)
    /\ UNCHANGED <<table, environment, shuttingDown, down>>

StartAll(u, c) ==
    /\ caller[u].pc = "idle"
    /\ ~shuttingDown
    /\ Launch(u, Made, c)
    /\ UNCHANGED <<table, environment, shuttingDown, down>>

(* Every informer made so far and not started yet is started, whoever made *)
(* it, with the channel of this call.  needs is a history: what the caller *)
(* may count on from now on.                                               *)
Start(u, c) ==
    /\ caller[u].pc = "idle"
    /\ IF shuttingDown
         THEN UNCHANGED <<goroutines, caller>>
         ELSE Launch(u, ToStart, c)
    /\ UNCHANGED <<table, environment, shuttingDown, down>>

(* External: an informer lists, then watches until its channel is closed.  *)
Sync(t) ==
    /\ t \in Running \ synced
    /\ synced' = synced \cup {t}
    /\ UNCHANGED <<table, goroutines, closed, shuttingDown, caller, down>>

CloseChannel(c) ==
    /\ c \in Channels \ closed
    /\ closed' = closed \cup {c}
    /\ UNCHANGED <<table, goroutines, synced, shuttingDown, caller, down>>

(* Mutant of Finish: Done is not deferred.                                 *)
FinishForgets(t) ==
    /\ t \in Running
    /\ run[t].chan \in closed
    /\ run' = [run EXCEPT ![t].pc = "done"]
    /\ UNCHANGED <<table, started, wg, environment, shuttingDown, caller, down>>

(* Run returns, and with it the goroutine: defer f.wg.Done().              *)
Finish(t) ==
    /\ t \in Running
    /\ run[t].chan \in closed
    /\ run' = [run EXCEPT ![t].pc = "done"]
    /\ wg' = wg - 1
    /\ UNCHANGED <<table, started, environment, shuttingDown, caller, down>>

-----------------------------------------------------------------------------
(* Shutdown marks the factory, and then waits without the lock.            *)

(* Mutant of Shutdown: it waits first, and marks the factory then.         *)
ShutdownUnmarked(u) ==
    /\ caller[u].pc = "idle"
    /\ caller' = [caller EXCEPT ![u] = [Idle EXCEPT !.pc = "drain"]]
    /\ UNCHANGED <<table, goroutines, environment, shuttingDown, down>>

Shutdown(u) ==
    /\ caller[u].pc = "idle"
    /\ shuttingDown' = TRUE
    /\ caller' = [caller EXCEPT ![u] = [Idle EXCEPT !.pc = "drain"]]
    /\ UNCHANGED <<table, goroutines, environment, down>>

ShutdownReturns(u) ==
    /\ caller[u].pc = "drain"
    /\ wg = 0
    /\ caller' = [caller EXCEPT ![u] = Idle]
    /\ down' = TRUE
    /\ UNCHANGED <<table, goroutines, environment, shuttingDown>>

-----------------------------------------------------------------------------
(* WaitForCacheSync takes a snapshot under the lock and polls it without.  *)

WaitForCacheSync(u, c) ==
    /\ caller[u].pc = "idle"
    /\ caller' = [caller EXCEPT ![u].pc = "sync", ![u].chan = c,
                      ![u].left = Made \cap started]
    /\ UNCHANGED <<table, goroutines, environment, shuttingDown, down>>

(* One informer after the other, in no order: its answer is whether it has *)
(* synced, and no only if the channel is closed.                           *)
Poll(u, t) ==
    /\ caller[u].pc = "sync"
    /\ t \in caller[u].left
    /\ \/ /\ t \in synced
          /\ caller' = [caller EXCEPT ![u].left = @ \ {t}]
       \/ /\ caller[u].chan \in closed
          /\ caller' = [caller EXCEPT ![u].left = @ \ {t}, ![u].needs = {}]
    /\ UNCHANGED <<table, goroutines, environment, shuttingDown, down>>

WaitReturns(u) ==
    /\ caller[u].pc = "sync"
    /\ caller[u].left = {}
    /\ caller' = [caller EXCEPT ![u] = Idle]
    /\ UNCHANGED <<table, goroutines, environment, shuttingDown, down>>

-----------------------------------------------------------------------------
Call(u) ==
    \/ \E t \in Types : InformerFor(u, t) \/ Informer(u, t) \/ ForResource(u, t)
    \/ \E c \in Passes[u] : Start(u, c) \/ WaitForCacheSync(u, c)
    \/ Shutdown(u)

Return(u) ==
    \/ ShutdownReturns(u) \/ WaitReturns(u)
    \/ \E t \in Types : Poll(u, t)

Next ==
    \/ \E u \in Users : Call(u) \/ Return(u)
    \/ \E t \in Types : Sync(t) \/ Finish(t)
    \/ \E c \in Channels : CloseChannel(c)

Spec == Init /\ [][Next]_vars

(* A goroutine whose channel is closed ends, an informer that runs lists,  *)
(* and a caller that can go on does.  Nobody has to close a channel.  (A   *)
(* goroutine does either once, so fairness to all of them is fairness to   *)
(* each.)                                                                  *)
FairSpec ==
    /\ Spec
    /\ WF_vars(\E t \in Types : Sync(t) \/ Finish(t))
    /\ \A u \in Users : WF_vars(Return(u))

-----------------------------------------------------------------------------
(* Everyone who asked for a type got one and the same informer, and it is  *)
(* that one that runs: a handler added to it is called (InformerFor looks  *)
(* and makes under one lock, factory.go:180-200).                          *)
OneInformerPerType ==
    /\ \A h, g \in handed : h[1] = g[1] => h[2] = g[2]
    /\ \A h \in handed : run[h[1]].pc # "none" => run[h[1]].informer = h[2]

LastOf(setting, default) ==
    LET given == {i \in DOMAIN options : options[i].sets = setting}
    IN  IF given = {} THEN default
        ELSE options[LastIn(given)].to

LastPeriod(t) ==
    LET given == {i \in DOMAIN options :
                     options[i].sets = "custom" /\ t \in DOMAIN options[i].to}
    IN  IF given = {} THEN "default"
        ELSE options[LastIn(given)].to[t]

(* An informer has what the last option about it said, whichever call made *)
(* it (factory.go:58-90, 117-120, 186-199).                                *)
MadeAsConfigured ==
    \A i \in DOMAIN made :
        /\ made[i].resync = LastPeriod(made[i].of)
        /\ made[i].transform = LastOf("transform", "none")
        /\ made[i].of \in Resources =>
               made[i].watches = <<LastOf("namespace", "all"), LastOf("tweak", "none")>>

(* Once a Shutdown has returned no informer runs, and none ever will       *)
(* (factory.go:228-239).                                                   *)
ShutdownComplete == down => Running = {}

(* The WaitGroup counts the goroutines that run: nobody adds to it while a *)
(* Shutdown waits, which sync.WaitGroup forbids when it may be at zero.    *)
WaitGroupRespected ==
    [][(\E u \in Users : caller[u].pc = "drain") => wg' <= wg]_vars

(* An informer is run once at most, with the channel it was started with,  *)
(* whoever calls Start again and with what (factory.go:46-48).             *)
RunsOnce ==
    [][\A t \in Types : run[t].pc # "none" =>
           /\ run'[t].chan = run[t].chan
           /\ run[t].pc = "done" => run'[t].pc = "done"]_vars

(* Who called Start before the factory shut down, and then gets nothing    *)
(* but yes from WaitForCacheSync, finds the caches of all informers filled *)
(* that were made before that Start, whichever Start started them: the     *)
(* protocol of factory.go:205-225.                                         *)
ReadyMeansSynced ==
    \A u \in Users :
        (caller[u].pc = "sync" /\ caller[u].left = {})
            => caller[u].needs \subseteq synced

(* A Shutdown waits for goroutines whose channel is not closed, and for    *)
(* nothing else; a WaitForCacheSync, unless its own channel is closed, for *)
(* informers that were stopped before they had synced.                     *)
HeldUp(u) ==
    \/ caller[u].pc = "drain" /\ \E t \in Running : run[t].chan \notin closed
    \/ /\ caller[u].pc = "sync" /\ caller[u].chan \notin closed
       /\ \E t \in caller[u].left \ synced : run[t].chan \in closed

(* No call hangs for another reason than these (factory.go:228-243).       *)
CallsEnd ==
    \A u \in Users : caller[u].pc # "idle" ~> (caller[u].pc = "idle" \/ HeldUp(u))

=============================================================================
