----------------------- MODULE TwoLanePromise_proofs -----------------------
(***************************************************************************)
(* The two-lane queue implements WorkQueue, for any keys and workers: each *)
(* step of its goroutines is an Add, a Coalesce, a Get or a Done of        *)
(* WorkQueue, or moves a key from one place to the next without changing   *)
(* the number of hand-overs that it owes.                                  *)
(***************************************************************************)
EXTENDS TwoLaneQueue_proofs

(* The six places in which a copy of a key can be.                         *)
InPump(l, k) == IF pump[l].item = k THEN 1 ELSE 0
InLane(l, k) == IF k \in lane[l].dirty THEN 1 ELSE 0
InConsumer(k) == IF consumer.item = k THEN 1 ELSE 0
InReady(k) == IF k \in ready.dirty THEN 1 ELSE 0

LEMMA LaneCount ==
    ASSUME NEW S \in SUBSET Lanes
    PROVE  Cardinality(S) = (IF "fast" \in S THEN 1 ELSE 0) + (IF "slow" \in S THEN 1 ELSE 0)
<1>. DEFINE F == S \cap {"fast"}
<1>1. IsFiniteSet(F) /\ Cardinality(F) = IF "fast" \in S THEN 1 ELSE 0
  <2>1. CASE "fast" \in S
    BY <2>1, F = {"fast"}, FS_Singleton
  <2>2. CASE "fast" \notin S
    BY <2>2, F = {}, FS_EmptySet
  <2>. QED BY <2>1, <2>2
<1>2. CASE "slow" \in S
  <2>1. S = F \cup {"slow"} /\ "slow" \notin F
    BY <1>2 DEF Lanes
  <2>2. Cardinality(S) = Cardinality(F) + 1
    BY <1>1, <2>1, FS_AddElement
  <2>. QED BY <1>1, <1>2, <2>2
<1>3. CASE "slow" \notin S
  <2>1. S = F
    BY <1>3 DEF Lanes
  <2>. QED BY <1>1, <1>3, <2>1
<1>. QED BY <1>2, <1>3

LEMMA CopiesSum ==
    ASSUME NEW k
    PROVE  /\ Copies(k) = InPump("fast", k) + InPump("slow", k)
                        + InLane("fast", k) + InLane("slow", k)
                        + InConsumer(k) + InReady(k)
           /\ Copies(k)' = InPump("fast", k)' + InPump("slow", k)'
                         + InLane("fast", k)' + InLane("slow", k)'
                         + InConsumer(k)' + InReady(k)'
<1>1. /\ Cardinality(InHand(k)) = InPump("fast", k) + InPump("slow", k)
      /\ Cardinality(InHand(k)') = InPump("fast", k)' + InPump("slow", k)'
  BY LaneCount DEF InHand, InPump, Lanes
<1>2. /\ Cardinality(Dirty(k)) = InLane("fast", k) + InLane("slow", k)
      /\ Cardinality(Dirty(k)') = InLane("fast", k)' + InLane("slow", k)'
  BY LaneCount DEF Dirty, InLane, Lanes
<1>. QED BY <1>1, <1>2 DEF Copies, InPump, InLane, InConsumer, InReady

LEMMA CopiesBound ==
    ASSUME NEW k
    PROVE  Copies(k) \in 0 .. 6 /\ Copies(k)' \in 0 .. 6
BY CopiesSum DEF InPump, InLane, InConsumer, InReady

(* A step touches one lane at most: what it does to a key's copies.        *)
LEMMA CopiesChange ==
    ASSUME NEW k, NEW l \in Lanes,
           \A m \in Lanes \ {l} : InPump(m, k)' = InPump(m, k) /\ InLane(m, k)' = InLane(m, k)
    PROVE  Copies(k)' = Copies(k) + (InPump(l, k)' - InPump(l, k))
                                  + (InLane(l, k)' - InLane(l, k))
                                  + (InConsumer(k)' - InConsumer(k))
                                  + (InReady(k)' - InReady(k))
<1>1. CASE l = "fast"
  <2>1. InPump("slow", k)' = InPump("slow", k) /\ InLane("slow", k)' = InLane("slow", k)
    BY <1>1 DEF Lanes
  <2>. QED BY <1>1, <2>1, CopiesSum DEF InPump, InLane, InConsumer, InReady
<1>2. CASE l = "slow"
  <2>1. InPump("fast", k)' = InPump("fast", k) /\ InLane("fast", k)' = InLane("fast", k)
    BY <1>2 DEF Lanes
  <2>. QED BY <1>2, <2>1, CopiesSum DEF InPump, InLane, InConsumer, InReady
<1>. QED BY <1>1, <1>2 DEF Lanes

(***************************************************************************)
(* What a step must do to the copies to be a step of WorkQueue.            *)
(***************************************************************************)
LEMMA SameCopies ==
    ASSUME \A k \in Keys : Copies(k)' = Copies(k), active' = active
    PROVE  UNCHANGED WQ!queueVars
BY DEF WQ!queueVars

LEMMA OneMore ==
    ASSUME NEW k \in Keys, Copies(k) < 6, Copies(k)' = Copies(k) + 1,
           \A j \in Keys \ {k} : Copies(j)' = Copies(j), active' = active
    PROVE  WQ!QueueNext
<1>1. WQ!Add(k)
  BY DEF WQ!Add
<1>. QED BY <1>1 DEF WQ!QueueNext

LEMMA OneLess ==
    ASSUME NEW k \in Keys, Copies(k) > 1, Copies(k)' = Copies(k) - 1,
           \A j \in Keys \ {k} : Copies(j)' = Copies(j), active' = active
    PROVE  WQ!QueueNext
<1>1. WQ!Coalesce(k)
  BY DEF WQ!Coalesce
<1>. QED BY <1>1 DEF WQ!QueueNext

LEMMA OneTaken ==
    ASSUME NEW k \in Keys, Copies(k) > 0, Copies(k)' = Copies(k) - 1,
           \A j \in Keys \ {k} : Copies(j)' = Copies(j),
           NEW w \in Workers, active[w] = None, \A v \in Workers : active[v] # k,
           active' = [active EXCEPT ![w] = k]
    PROVE  WQ!QueueNext
<1>1. WQ!Get(w, k)
  BY DEF WQ!Get
<1>. QED BY <1>1 DEF WQ!QueueNext

(***************************************************************************)
(* The steps.  An addition that the lane accepts is one more hand-over.    *)
(***************************************************************************)
LEMMA AddToStep ==
    ASSUME QueueInv, NEW l \in Lanes, NEW k \in Keys, AddTo(l, k)
    PROVE  WQ!QueueNext \/ UNCHANGED WQ!queueVars
<1>1. /\ lane[l] \in TypedQueues(Keys) /\ TypedOK(lane[l])
      /\ \A m \in Lanes : lane'[m] = IF m = l THEN TypedAdd(lane[l], k) ELSE lane[m]
      /\ UNCHANGED <<pump, consumer, ready, active>>
  BY DEF AddTo, QueueInv, TypeOK, QueuesWellFormed
<1>2. \A j \in Keys : Copies(j)' = Copies(j) + (InLane(l, j)' - InLane(l, j))
  BY <1>1, CopiesChange, CopiesBound DEF InPump, InLane, InConsumer, InReady
<1>3. CASE lane[l].shuttingDown \/ k \in lane[l].dirty
  <2>1. \A j \in Keys : InLane(l, j)' = InLane(l, j)
    BY <1>1, <1>3 DEF InLane, TypedAdd
  <2>2. \A j \in Keys : Copies(j)' = Copies(j)
    BY <1>2, <2>1, CopiesBound DEF InLane
  <2>. QED BY <1>1, <2>2, SameCopies
<1>4. CASE ~lane[l].shuttingDown /\ k \notin lane[l].dirty
  <2>1. lane'[l].dirty = lane[l].dirty \cup {k}
    BY <1>1, <1>4, TypedAddOK
  <2>2. /\ InLane(l, k) = 0 /\ InLane(l, k)' = 1
        /\ \A j \in Keys \ {k} : InLane(l, j)' = InLane(l, j)
    BY <1>4, <2>1 DEF InLane
  <2>3. /\ Copies(k)' = Copies(k) + 1
        /\ \A j \in Keys \ {k} : Copies(j)' = Copies(j)
    BY <1>2, <2>2, CopiesBound DEF InLane
  <2>4. Copies(k) < 6
    BY <2>3, CopiesBound
  <2>. QED BY <1>1, <2>3, <2>4, OneMore
<1>. QED BY <1>3, <1>4

(* Get moves a key from the lane into the pump's hand.                     *)
LEMMA PumpGetStep ==
    ASSUME QueueInv, NEW l \in Lanes, PumpGet(l)
    PROVE  UNCHANGED WQ!queueVars
<1>. DEFINE i == Head(lane[l].queue)
<1>1. /\ lane[l] \in TypedQueues(Keys) /\ TypedOK(lane[l]) /\ TypedCanGet(lane[l])
      /\ pump[l].item = None
      /\ \A m \in Lanes : /\ lane'[m] = IF m = l THEN TypedGet(lane[l]) ELSE lane[m]
                          /\ pump'[m].item = IF m = l THEN i ELSE pump[m].item
      /\ UNCHANGED <<consumer, ready, active>>
  BY DEF PumpGet, QueueInv, TypeOK, QueuesWellFormed, PumpOK
<1>2. i \in lane[l].dirty /\ lane'[l].dirty = lane[l].dirty \ {i}
  BY <1>1, TypedGetOK
<1>3. ASSUME NEW k \in Keys
      PROVE  Copies(k)' = Copies(k)
  <2>1. Copies(k)' = Copies(k) + (InPump(l, k)' - InPump(l, k))
                               + (InLane(l, k)' - InLane(l, k))
    BY <1>1, CopiesChange, CopiesBound DEF InPump, InLane, InConsumer, InReady
  <2>2. InPump(l, k)' - InPump(l, k) = InLane(l, k) - InLane(l, k)'
    BY <1>1, <1>2, NoneAssumption DEF InPump, InLane
  <2>. QED BY <2>1, <2>2, CopiesBound DEF InPump, InLane
<1>. QED BY <1>1, <1>3, SameCopies

(* Done and the closing of the channel move nothing.                       *)
LEMMA PumpRestStep ==
    ASSUME QueueInv, NEW l \in Lanes, PumpDone(l) \/ PumpClose(l)
    PROVE  UNCHANGED WQ!queueVars
<1>1. /\ \A m \in Lanes : /\ lane'[m].dirty = lane[m].dirty
                          /\ pump'[m].item = pump[m].item
      /\ UNCHANGED <<consumer, ready, active>>
  <2>1. CASE PumpDone(l)
    <3>1. /\ lane[l] \in TypedQueues(Keys) /\ TypedOK(lane[l])
          /\ pump[l].item \in lane[l].processing
      BY <2>1 DEF PumpDone, QueueInv, TypeOK, QueuesWellFormed, PumpOK
    <3>2. TypedDone(lane[l], pump[l].item).dirty = lane[l].dirty
      BY <3>1, TypedDoneOK
    <3>. QED BY <2>1, <3>2 DEF PumpDone, QueueInv, TypeOK
  <2>2. CASE PumpClose(l)
    BY <2>2 DEF PumpClose, QueueInv, TypeOK
  <2>. QED BY <2>1, <2>2
<1>2. ASSUME NEW k \in Keys
      PROVE  Copies(k)' = Copies(k)
  BY <1>1, CopiesChange, CopiesBound DEF InPump, InLane, InConsumer, InReady
<1>. QED BY <1>1, <1>2, SameCopies

(* The rendezvous moves a key from the pump's hand to the consumer's.      *)
LEMMA ReceiveStep ==
    ASSUME QueueInv, NEW l \in Lanes, Receive(l), consumer.pc # "add"
    PROVE  UNCHANGED WQ!queueVars
<1>1. /\ consumer.item = None
      /\ consumer'.item = pump[l].item
      /\ \A m \in Lanes : pump'[m].item = IF m = l THEN None ELSE pump[m].item
      /\ UNCHANGED <<lane, ready, active>>
  BY DEF Receive, QueueInv, TypeOK, ConsumerOK
<1>2. ASSUME NEW k \in Keys
      PROVE  Copies(k)' = Copies(k)
  <2>1. Copies(k)' = Copies(k) + (InPump(l, k)' - InPump(l, k))
                               + (InConsumer(k)' - InConsumer(k))
    BY <1>1, CopiesChange, CopiesBound DEF InPump, InLane, InConsumer, InReady
  <2>2. InConsumer(k)' - InConsumer(k) = InPump(l, k) - InPump(l, k)'
    BY <1>1, NoneAssumption DEF InPump, InConsumer
  <2>. QED BY <2>1, <2>2, CopiesBound DEF InPump, InConsumer
<1>. QED BY <1>1, <1>2, SameCopies

(* The consumer's Add merges two copies, or moves one.                     *)
LEMMA ConsumerAddStep ==
    ASSUME QueueInv, ConsumerAdd
    PROVE  WQ!QueueNext \/ UNCHANGED WQ!queueVars
<1>0. PICK i \in Keys : i = consumer.item
  BY DEF ConsumerAdd, QueueInv, TypeOK, ConsumerOK
<1>1. /\ ready'.dirty = ready.dirty \cup {i}
      /\ consumer'.item = None
      /\ UNCHANGED <<lane, pump, active>>
  <2>1. /\ ready \in TypedQueues(Keys) /\ TypedOK(ready)
        /\ ~ready.shuttingDown
    BY DEF ConsumerAdd, QueueInv, TypeOK, QueuesWellFormed, ConsumerOK
  <2>. QED BY <1>0, <2>1, TypedAddOK DEF ConsumerAdd, QueueInv, TypeOK
<1>2. \A k \in Keys : Copies(k)' = Copies(k) + (InConsumer(k)' - InConsumer(k))
                                             + (InReady(k)' - InReady(k))
  BY <1>1, CopiesChange, CopiesBound DEF InPump, InLane, InConsumer, InReady, Lanes
<1>3. \A k \in Keys \ {i} : Copies(k)' = Copies(k)
  <2>1. \A k \in Keys \ {i} : InConsumer(k)' = InConsumer(k) /\ InReady(k)' = InReady(k)
    BY <1>0, <1>1, NoneAssumption DEF InConsumer, InReady
  <2>. QED BY <1>2, <2>1, CopiesBound DEF InConsumer, InReady
<1>4. InConsumer(i) = 1 /\ InConsumer(i)' = 0 /\ InReady(i)' = 1
  BY <1>0, <1>1, NoneAssumption DEF InConsumer, InReady
<1>5. CASE i \in ready.dirty
  <2>1. InReady(i) = 1
    BY <1>5 DEF InReady
  <2>2. Copies(i) > 1
    BY <1>4, <2>1, CopiesSum DEF InPump, InLane
  <2>3. Copies(i)' = Copies(i) - 1
    BY <1>1, <1>2, <1>4, <2>1, CopiesBound
  <2>. QED BY <1>1, <1>3, <2>2, <2>3, OneLess
<1>6. CASE i \notin ready.dirty
  <2>1. Copies(i)' = Copies(i)
    BY <1>1, <1>2, <1>4, <1>6, CopiesBound DEF InReady
  <2>. QED BY <1>1, <1>3, <2>1, SameCopies
<1>. QED BY <1>5, <1>6

(* What is left of the consumer, and RunContext, move nothing.             *)
LEMMA RestStep ==
    ASSUME QueueInv,
           \/ PollNothing \/ ConsumerExit \/ \E l \in Lanes : Forsake(l)
           \/ \E w \in Workers : WorkerExit(w)
           \/ ShutDownFast \/ Drain \/ UNCHANGED vars
    PROVE  UNCHANGED WQ!queueVars
<1>1. /\ \A m \in Lanes : lane'[m].dirty = lane[m].dirty
      /\ UNCHANGED pump
  <2>1. CASE ShutDownFast \/ ShutDownSlow
    <3>1. \A l \in Lanes : TypedShutDown(lane[l]).dirty = lane[l].dirty
      BY TypedShutDownOK DEF QueueInv, TypeOK, QueuesWellFormed
    <3>. QED BY <2>1, <3>1 DEF ShutDownFast, ShutDownSlow, QueueInv, TypeOK
  <2>2. CASE UNCHANGED <<lane, pump>>
    BY <2>2
  <2>. QED BY <2>1, <2>2 DEF PollNothing, ConsumerExit, Forsake, WorkerExit, Drain,
              LenOfFast, LenOfSlow, LenOfReady, Finish, vars
<1>2. consumer'.item = consumer.item /\ ready'.dirty = ready.dirty
  <2>1. CASE ConsumerExit
    BY <2>1, TypedShutDownOK DEF ConsumerExit, QueueInv, TypeOK, QueuesWellFormed
  <2>2. CASE ~ConsumerExit
    BY <2>2 DEF PollNothing, Forsake, WorkerExit, ShutDownFast, Drain, ShutDownSlow,
         LenOfFast, LenOfSlow, LenOfReady, Finish, vars, QueueInv, TypeOK
  <2>. QED BY <2>1, <2>2
<1>3. UNCHANGED active
  BY DEF PollNothing, ConsumerExit, Forsake, WorkerExit, ShutDownFast, Drain, ShutDownSlow,
       LenOfFast, LenOfSlow, LenOfReady, Finish, vars
<1>4. \A k \in Keys : Copies(k)' = Copies(k)
  BY <1>1, <1>2, CopiesChange, CopiesBound DEF InPump, InLane, InConsumer, InReady, Lanes
<1>. QED BY <1>3, <1>4, SameCopies

(* Get of a worker hands over a copy; Done gives the key back.             *)
LEMMA GetItemStep ==
    ASSUME QueueInv, NEW w \in Workers, GetItem(w)
    PROVE  WQ!QueueNext
<1>0. PICK i \in Keys : i = Head(ready.queue)
  BY GetItemTakes
<1>1. /\ i \in ready.dirty
      /\ \A v \in Workers : active[v] # i
      /\ ready'.dirty = ready.dirty \ {i}
  BY <1>0, GetItemTakes
<1>2. /\ active[w] = None /\ active' = [active EXCEPT ![w] = i]
      /\ UNCHANGED <<lane, pump, consumer>>
  BY <1>0 DEF GetItem
<1>3. \A k \in Keys : Copies(k)' = Copies(k) + (InReady(k)' - InReady(k))
  BY <1>2, CopiesChange, CopiesBound DEF InPump, InLane, InConsumer, InReady, Lanes
<1>4. /\ InReady(i) = 1 /\ InReady(i)' = 0
      /\ \A k \in Keys \ {i} : InReady(k)' = InReady(k)
  BY <1>1 DEF InReady
<1>5. /\ Copies(i)' = Copies(i) - 1
      /\ \A k \in Keys \ {i} : Copies(k)' = Copies(k)
  BY <1>1, <1>3, <1>4, CopiesBound DEF InReady
<1>6. Copies(i) > 0
  BY <1>5, CopiesBound
<1>. QED BY <1>1, <1>2, <1>5, <1>6, OneTaken

LEMMA DoneItemStep ==
    ASSUME QueueInv, NEW w \in Workers, DoneItem(w)
    PROVE  WQ!QueueNext
<1>1. ready'.dirty = ready.dirty /\ UNCHANGED <<lane, pump, consumer>>
  <2>1. active[w] \in ready.processing
    BY DEF DoneItem, QueueInv, ProcessingIsActive
  <2>. QED BY <2>1, TypedDoneOK DEF DoneItem, QueueInv, TypeOK, QueuesWellFormed
<1>2. \A k \in Keys : Copies(k)' = Copies(k)
  BY <1>1, CopiesChange, CopiesBound DEF InPump, InLane, InConsumer, InReady, Lanes
<1>3. WQ!Done(w)
  BY <1>2 DEF DoneItem, WQ!Done
<1>. QED BY <1>3 DEF WQ!QueueNext

LEMMA PromiseStep ==
    ASSUME QueueInv, [Next]_vars
    PROVE  [WQ!QueueNext]_(WQ!queueVars)
<1>1. ASSUME NEW l \in Lanes, Pump(l) \/ \E k \in Keys : AddTo(l, k)
      PROVE  WQ!QueueNext \/ UNCHANGED WQ!queueVars
  BY <1>1, AddToStep, PumpGetStep, PumpRestStep DEF Pump
<1>2. CASE Consumer
  BY <1>2, ReceiveStep, ConsumerAddStep, RestStep DEF Consumer, PollFast, Select, Lanes
<1>3. ASSUME NEW w \in Workers, Worker(w)
      PROVE  WQ!QueueNext \/ UNCHANGED WQ!queueVars
  BY <1>3, GetItemStep, DoneItemStep, RestStep DEF Worker
<1>4. CASE ShutDownFast \/ Drain \/ UNCHANGED vars
  BY <1>4, RestStep
<1>. QED BY <1>1, <1>2, <1>3, <1>4 DEF Next

LEMMA PromiseInit == Init => WQ!QueueInit
<1>. SUFFICES ASSUME Init PROVE WQ!QueueInit
  OBVIOUS
<1>1. ASSUME NEW k \in Keys
      PROVE  Copies(k) = 0
  <2>1. /\ InPump("fast", k) = 0 /\ InPump("slow", k) = 0
        /\ InLane("fast", k) = 0 /\ InLane("slow", k) = 0
        /\ InConsumer(k) = 0 /\ InReady(k) = 0
    BY NoneAssumption DEF Init, InPump, InLane, InConsumer, InReady, EmptyTyped, Lanes
  <2>. QED BY <2>1, CopiesSum
<1>. QED BY <1>1 DEF Init, WQ!QueueInit

(***************************************************************************)
(* The queue that the controller runs on keeps what LabelerController      *)
(* assumes of it: an accepted key is handed to a worker, once per copy, or *)
(* merged, and never shared or dropped on the way through three queues and *)
(* three goroutines' hands, also while it is being shut down.              *)
(***************************************************************************)
THEOREM KeepsPromise == Spec => KeepsQueuePromise
<1>1. QueueInv /\ [Next]_vars => [WQ!QueueNext]_(WQ!queueVars)
  BY PromiseStep
<1>. QED BY <1>1, PromiseInit, QueueInvHolds, PTL DEF Spec, WQ!QueueSpec, KeepsQueuePromise

=============================================================================
