--------------------------- MODULE TwoLaneQueue ----------------------------
(***************************************************************************)
(* The work queue of the Labeler controller: knative's two-lane queue      *)
(* (vendor/knative.dev/pkg/controller/two_lane_queue.go) together with the *)
(* goroutines of Impl.RunContext that drain and close it.                  *)
(*                                                                         *)
(*   Add / AddSlow --> lane "fast" / "slow"   (two client-go queues)       *)
(*                        |  a pump goroutine per lane: process()          *)
(*                        v                                                *)
(*                     fastChan / slowChan    (unbuffered)                 *)
(*                        |  the consumer goroutine: runConsumer()         *)
(*                        v                                                *)
(*                     consumerQueue          (a client-go queue)          *)
(*                        |                                                *)
(*                        v                                                *)
(*                     the worker goroutines  processNextWorkItem()        *)
(*                                                                         *)
(* Each queue method is one step (it holds that queue's mutex); a send and *)
(* the matching receive on an unbuffered channel are one step.             *)
(***************************************************************************)
EXTENDS TypedQueue, FiniteSets

CONSTANTS
    Keys,        \* the namespaced names that are enqueued
    Workers,     \* the worker goroutines of RunContext
    None         \* "no key in hand"

ASSUME NoneAssumption == None \notin Keys

(* RunContext is called with DefaultThreadsPerController (2) workers.      *)
ASSUME WorkersAssumption == IsFiniteSet(Workers) /\ Workers # {}

Lanes == {"fast", "slow"}

VARIABLES
    lane,        \* lane[l]: the client-go queue behind lane l
    pump,        \* pump[l]: the goroutine process(lane, chan): where it is
                 \* and the item it has in hand
    consumer,    \* the goroutine runConsumer: where it is, the item it has
                 \* in hand, and the lanes it still looks at
    ready,       \* consumerQueue
    active,      \* active[w]: the key that worker w is processing, or None
    exited,      \* the workers that have been told to stop
    control,     \* where RunContext is
    counted      \* whether Len() has met an item so far

vars == <<lane, pump, consumer, ready, active, exited, control, counted>>

ControlPoints ==
    {"running", "shutSlow", "lenFast", "lenSlow", "lenReady", "wait", "finished"}

TypeOK ==
    /\ lane \in [Lanes -> TypedQueues(Keys)]
    /\ pump \in [Lanes -> [pc : {"get", "done", "send", "closed"},
                           item : Keys \cup {None}]]
    /\ consumer \in [pc : {"poll", "select", "add", "exited"},
                     item : Keys \cup {None},
                     watching : SUBSET Lanes]
    /\ ready \in TypedQueues(Keys)
    /\ active \in [Workers -> Keys \cup {None}]
    /\ exited \in SUBSET Workers
    /\ control \in ControlPoints
    /\ counted \in BOOLEAN

Init ==
    /\ lane = [l \in Lanes |-> EmptyTyped]
    /\ pump = [l \in Lanes |-> [pc |-> "get", item |-> None]]
    /\ consumer = [pc |-> "poll", item |-> None, watching |-> Lanes]
    /\ ready = EmptyTyped
    /\ active = [w \in Workers |-> None]
    /\ exited = {}
    /\ control = "running"
    /\ counted = FALSE

-----------------------------------------------------------------------------
(* Producers: informer handlers call Impl.EnqueueKey (the fast lane),      *)
(* promotion calls Impl.EnqueueSlowKey.                                    *)

AddTo(l, k) ==
    /\ lane' = [lane EXCEPT ![l] = TypedAdd(@, k)]
    /\ UNCHANGED <<pump, consumer, ready, active, exited, control, counted>>

-----------------------------------------------------------------------------
(* process(): Get, Done at once, then hand the item over on the channel.   *)

PumpGet(l) ==
    /\ pump[l].pc = "get"
    /\ TypedCanGet(lane[l])
    /\ pump' = [pump EXCEPT ![l] = [pc |-> "done", item |-> Head(lane[l].queue)]]
    /\ lane' = [lane EXCEPT ![l] = TypedGet(@)]
    /\ UNCHANGED <<consumer, ready, active, exited, control, counted>>

(* Mutant of PumpDone: a pump whose lane is being shut down stops at once. *)
PumpDoneDrops(l) ==
    /\ pump[l].pc = "done"
    /\ pump' = IF lane[l].shuttingDown
                 THEN [pump EXCEPT ![l] = [pc |-> "get", item |-> None]]
                 ELSE [pump EXCEPT ![l].pc = "send"]
    /\ lane' = [lane EXCEPT ![l] = TypedDone(@, pump[l].item)]
    /\ UNCHANGED <<consumer, ready, active, exited, control, counted>>

PumpDone(l) ==
    /\ pump[l].pc = "done"
    /\ pump' = [pump EXCEPT ![l].pc = "send"]
    /\ lane' = [lane EXCEPT ![l] = TypedDone(@, pump[l].item)]
    /\ UNCHANGED <<consumer, ready, active, exited, control, counted>>

PumpClose(l) ==
    /\ pump[l].pc = "get"
    /\ TypedIsClosed(lane[l])
    /\ pump' = [pump EXCEPT ![l].pc = "closed"]
    /\ UNCHANGED <<lane, consumer, ready, active, exited, control, counted>>

-----------------------------------------------------------------------------
(* runConsumer(): a select of the fast lane alone, then one of both.       *)

(* Receive l's item: the rendezvous lets the pump go on.                   *)
Receive(l) ==
    /\ pump[l].pc = "send"
    /\ pump' = [pump EXCEPT ![l] = [pc |-> "get", item |-> None]]
    /\ consumer' = [consumer EXCEPT !.pc = "add", !.item = pump[l].item]
    /\ UNCHANGED <<lane, ready, active, exited, control, counted>>

(* Mutant of Forsake: the zero value of a closed channel taken for an item.*)
ForsakeUnchecked(l) ==
    /\ pump[l].pc = "closed"
    /\ consumer' = [consumer EXCEPT !.pc = "add"]
    /\ UNCHANGED <<lane, pump, ready, active, exited, control, counted>>

(* A receive from a closed channel returns at once: forget the lane.       *)
Forsake(l) ==
    /\ pump[l].pc = "closed"
    /\ consumer' = [consumer EXCEPT !.pc = "poll", !.watching = @ \ {l}]
    /\ UNCHANGED <<lane, pump, ready, active, exited, control, counted>>

PollFast ==
    /\ consumer.pc = "poll"
    /\ "fast" \in consumer.watching
    /\ Receive("fast") \/ Forsake("fast")

(* The default case of the first select, or no first select.               *)
PollNothing ==
    /\ consumer.pc = "poll"
    /\ consumer.watching # {}
    /\ "fast" \in consumer.watching => pump["fast"].pc \in {"get", "done"}
    /\ consumer' = [consumer EXCEPT !.pc = "select"]
    /\ UNCHANGED <<lane, pump, ready, active, exited, control, counted>>

(* Mutant of Select: the second select looks at the fast lane again.       *)
SelectFast(l) ==
    /\ consumer.pc = "select"
    /\ l = "fast"
    /\ Receive(l) \/ Forsake(l)

(* The second select looks at both channels, also at one it has found      *)
(* closed, and picks any that is ready.                                    *)
Select(l) ==
    /\ consumer.pc = "select"
    /\ Receive(l) \/ Forsake(l)

ConsumerAdd ==
    /\ consumer.pc = "add"
    /\ ready' = TypedAdd(ready, consumer.item)
    /\ consumer' = [consumer EXCEPT !.pc = "poll", !.item = None]
    /\ UNCHANGED <<lane, pump, active, exited, control, counted>>

(* Mutant of ConsumerExit: the consumer queue is not shut down.            *)
ConsumerExitOpen ==
    /\ consumer.pc = "poll"
    /\ consumer.watching = {}
    /\ consumer' = [consumer EXCEPT !.pc = "exited"]
    /\ UNCHANGED <<lane, pump, ready, active, exited, control, counted>>

ConsumerExit ==
    /\ consumer.pc = "poll"
    /\ consumer.watching = {}
    /\ ready' = TypedShutDown(ready)
    /\ consumer' = [consumer EXCEPT !.pc = "exited"]
    /\ UNCHANGED <<lane, pump, active, exited, control, counted>>

-----------------------------------------------------------------------------
(* The workers: for c.processNextWorkItem() {}.                            *)

GetItem(w) ==
    /\ active[w] = None
    /\ w \notin exited
    /\ TypedCanGet(ready)
    /\ active' = [active EXCEPT ![w] = Head(ready.queue)]
    /\ ready' = TypedGet(ready)
    /\ UNCHANGED <<lane, pump, consumer, exited, control, counted>>

DoneItem(w) ==
    /\ active[w] # None
    /\ active' = [active EXCEPT ![w] = None]
    /\ ready' = TypedDone(ready, active[w])
    /\ UNCHANGED <<lane, pump, consumer, exited, control, counted>>

WorkerExit(w) ==
    /\ active[w] = None
    /\ w \notin exited
    /\ TypedIsClosed(ready)
    /\ exited' = exited \cup {w}
    /\ UNCHANGED <<lane, pump, consumer, ready, active, control, counted>>

-----------------------------------------------------------------------------
(* RunContext once its context is cancelled: shut both lanes down, wait    *)
(* until Len() is zero (three reads, each under its own mutex), then wait  *)
(* for the workers.                                                        *)

ShutDownFast ==
    /\ control = "running"
    /\ lane' = [lane EXCEPT !["fast"] = TypedShutDown(@)]
    /\ control' = "shutSlow"
    /\ UNCHANGED <<pump, consumer, ready, active, exited, counted>>

ShutDownSlow ==
    /\ control = "shutSlow"
    /\ lane' = [lane EXCEPT !["slow"] = TypedShutDown(@)]
    /\ control' = "lenFast"
    /\ UNCHANGED <<pump, consumer, ready, active, exited, counted>>

LenOfFast ==
    /\ control = "lenFast"
    /\ counted' = (lane["fast"].queue # <<>>)
    /\ control' = "lenSlow"
    /\ UNCHANGED <<lane, pump, consumer, ready, active, exited>>

LenOfSlow ==
    /\ control = "lenSlow"
    /\ counted' = (counted \/ lane["slow"].queue # <<>>)
    /\ control' = "lenReady"
    /\ UNCHANGED <<lane, pump, consumer, ready, active, exited>>

LenOfReady ==
    /\ control = "lenReady"
    /\ control' = IF counted \/ ready.queue # <<>> THEN "lenFast" ELSE "wait"
    /\ counted' = FALSE
    /\ UNCHANGED <<lane, pump, consumer, ready, active, exited>>

(* Mutant of Finish: RunContext does not wait for the workers.             *)
FinishEarly ==
    /\ control = "wait"
    /\ control' = "finished"
    /\ UNCHANGED <<lane, pump, consumer, ready, active, exited, counted>>

Finish ==
    /\ control = "wait"
    /\ exited = Workers
    /\ control' = "finished"
    /\ UNCHANGED <<lane, pump, consumer, ready, active, exited, counted>>

-----------------------------------------------------------------------------
Pump(l) == PumpGet(l) \/ PumpDone(l) \/ PumpClose(l)

Consumer ==
    PollFast \/ PollNothing \/ ConsumerAdd \/ ConsumerExit \/ \E l \in Lanes : Select(l)

Worker(w) == GetItem(w) \/ DoneItem(w) \/ WorkerExit(w)

Drain == ShutDownSlow \/ LenOfFast \/ LenOfSlow \/ LenOfReady \/ Finish

Next ==
    \/ \E l \in Lanes : Pump(l) \/ \E k \in Keys : AddTo(l, k)
    \/ Consumer
    \/ \E w \in Workers : Worker(w)
    \/ ShutDownFast \/ Drain

Spec == Init /\ [][Next]_vars

(***************************************************************************)
(* Every goroutine runs when it can; ShutDownFast and the additions come   *)
(* from outside and are never forced.  Two choices are strongly fair: the  *)
(* select is random, so it does not pass over a channel for ever that is   *)
(* ready again and again, and a worker waiting on the condition variable   *)
(* is woken by one of infinitely many signals.                             *)
(***************************************************************************)
Fairness ==
    /\ \A l \in Lanes : WF_vars(Pump(l)) /\ SF_vars(Select(l))
    /\ WF_vars(Consumer)
    /\ \A w \in Workers :
           WF_vars(WorkerExit(w)) /\ WF_vars(DoneItem(w)) /\ SF_vars(GetItem(w))
    /\ WF_vars(Drain)

FairSpec == Spec /\ Fairness

-----------------------------------------------------------------------------
(* Places in which a key can be on its way to a worker.                    *)

InHand(k) == {l \in Lanes : pump[l].item = k}
Dirty(k) == {l \in Lanes : k \in lane[l].dirty}

Copies(k) ==
      Cardinality(InHand(k)) + Cardinality(Dirty(k))
    + (IF consumer.item = k THEN 1 ELSE 0)
    + (IF k \in ready.dirty THEN 1 ELSE 0)

(***************************************************************************)
(* The queue keeps the promise of WorkQueue: what is pending is what is on *)
(* its way.  A key that an accepted Add put in a lane leaves it only by    *)
(* being merged with another copy or by being handed to a worker that      *)
(* nobody else shares it with: nothing is lost in the pumps' and the       *)
(* consumer's hands, none of which Len() counts.                           *)
(***************************************************************************)
WQ == INSTANCE WorkQueue WITH
        pending <- [k \in Keys |-> Copies(k)],
        MaxCopies <- 6

KeepsQueuePromise == WQ!QueueSpec

(***************************************************************************)
(* The keys the consumer queue counts as being processed are exactly those *)
(* the workers hold, and no two workers hold one key: "never processing    *)
(* the same item simultaneously in two different workers" (controller.go   *)
(* 195-202), also when it sits in both lanes.                              *)
(***************************************************************************)
ProcessingIsActive ==
    /\ ready.processing = {active[w] : w \in Workers} \ {None}
    /\ \A v, w \in Workers : active[v] = active[w] /\ active[v] # None => v = w

(***************************************************************************)
(* The comment on the fields of Typed, for the three queues: an element is *)
(* queued once, is dirty and is not being processed.                       *)
(***************************************************************************)
QueuesWellFormed == TypedOK(ready) /\ \A l \in Lanes : TypedOK(lane[l])

(***************************************************************************)
(* RunContext returns only when nothing that was accepted is left: "waits  *)
(* for workers to finish processing their current work items"              *)
(* (controller.go:438-440), although Len() == 0 does not count the keys    *)
(* that the pumps and the consumer have in hand.                           *)
(***************************************************************************)
DrainedOnReturn ==
    control = "finished" =>
        /\ \A k \in Keys : Copies(k) = 0
        /\ \A w \in Workers : active[w] = None

(***************************************************************************)
(* Once both lanes are shut down every step of a goroutine leaves less to  *)
(* do, in steps that are left to it, to the others and to the keys, or it  *)
(* only polls a channel or reads a length: no key that became dirty while  *)
(* it was processed, or was added late, keeps the drain busy for ever      *)
(* (two_lane_queue.go:145-206, queue.go:216-240).                          *)
(***************************************************************************)
PumpLeft(pc) ==
    CASE pc = "done" -> 6 [] pc = "send" -> 5 [] pc = "get" -> 1 [] pc = "closed" -> 0

ConsumerLeft(pc) ==
    CASE pc = "add" -> 4 [] pc \in {"poll", "select"} -> 1 [] pc = "exited" -> 0

LaneLeft(l) == 6 * Cardinality(lane[l].dirty) + PumpLeft(pump[l].pc)

BehindLanes ==
    ConsumerLeft(consumer.pc) + Cardinality(consumer.watching)
    + 2 * Cardinality(ready.dirty) + Cardinality(ready.processing)
    + Cardinality(Workers \ exited)

StepsLeft == LaneLeft("fast") + LaneLeft("slow") + BehindLanes

ShutdownAdvances ==
    [][control \notin {"running", "shutSlow"} =>
           \/ StepsLeft' < StepsLeft
           \/ /\ UNCHANGED <<lane, pump, ready, active, exited>>
              /\ UNCHANGED <<consumer.item, consumer.watching>>]_vars

(***************************************************************************)
(* Once the context is cancelled RunContext returns: the wait for an empty *)
(* queue, the pumps' closing of their channels, the consumer's exit and    *)
(* the workers' do not wait for each other in a circle.                    *)
(***************************************************************************)
ShutdownTerminates == control # "running" ~> control = "finished"

(***************************************************************************)
(* A key added by an informer's handler reaches a worker, however many     *)
(* keys keep being added to either lane.                                   *)
(***************************************************************************)
PastTheLanes(k) == consumer.item = k \/ k \in ready.dirty

FastLaneServed ==
    \A k \in Keys :
        "fast" \in InHand(k) \cup Dirty(k) \/ PastTheLanes(k)
            ~> \E w \in Workers : active[w] = k

(***************************************************************************)
(* The slow lane may starve: the consumer only looks at it after a poll of *)
(* the fast lane found nothing.  When it does so again and again, the      *)
(* queue is as fair as WorkQueue says: no key of either lane is forgotten. *)
(***************************************************************************)
Unsaturated == []<>(consumer.pc \in {"select", "exited"})

KeepsFairPromise == Unsaturated => WQ!QueueFairness

=============================================================================
