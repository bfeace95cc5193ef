------------------------ MODULE TwoLaneQueue_proofs ------------------------
(***************************************************************************)
(* Proofs about the two-lane queue, for any keys and any number of         *)
(* workers: its three queues stay well formed, no two workers share a key, *)
(* when RunContext returns nothing that was accepted is left in it, and    *)
(* until then the drain has less and less to do.                           *)
(***************************************************************************)
EXTENDS TwoLaneQueue, SequenceTheorems, FiniteSetTheorems, TLAPS

(***************************************************************************)
(* Lemmas about client-go's queue, for any set of items: every method      *)
(* keeps the invariant that its authors wrote down on its fields, and what *)
(* each method does to the dirty and the processing items.                 *)
(***************************************************************************)

(* Appending an item that is not in a sequence without repetitions yields  *)
(* another one, with that item added.                                      *)
LEMMA AppendNew ==
    ASSUME NEW Items, NEW s \in Seq(Items), NEW i \in Items, i \notin Range(s),
           \A m, n \in DOMAIN s : s[m] = s[n] => m = n
    PROVE  LET t == Append(s, i)
           IN  /\ t \in Seq(Items)
               /\ Range(t) = Range(s) \cup {i}
               /\ \A m, n \in DOMAIN t : t[m] = t[n] => m = n
<1>. DEFINE t == Append(s, i)
<1>1. /\ t \in Seq(Items)
      /\ Len(t) = Len(s) + 1
      /\ \A n \in 1 .. Len(s) : t[n] = s[n]
      /\ t[Len(s) + 1] = i
  BY AppendProperties
<1>2. /\ Len(s) \in Nat
      /\ DOMAIN s = 1 .. Len(s)
      /\ DOMAIN t = 1 .. Len(s) + 1
      /\ \A n \in 1 .. Len(s) : s[n] # i
  BY <1>1, LenProperties DEF Range
<1>3. Range(t) = Range(s) \cup {i}
  BY <1>1, <1>2 DEF Range
<1>4. \A m, n \in DOMAIN t : t[m] = t[n] => m = n
  BY <1>1, <1>2
<1>. QED BY <1>1, <1>3, <1>4

(* Taking the head of a sequence without repetitions removes just it.      *)
LEMMA TailOfDistinct ==
    ASSUME NEW Items, NEW s \in Seq(Items), s # <<>>,
           \A m, n \in DOMAIN s : s[m] = s[n] => m = n
    PROVE  LET t == Tail(s)
           IN  /\ t \in Seq(Items)
               /\ Head(s) \in Range(s)
               /\ Range(t) = Range(s) \ {Head(s)}
               /\ \A m, n \in DOMAIN t : t[m] = t[n] => m = n
<1>. DEFINE t == Tail(s)
<1>1. /\ t \in Seq(Items)
      /\ Len(t) = Len(s) - 1
      /\ \A n \in 1 .. Len(t) : t[n] = s[n + 1]
  BY HeadTailProperties
<1>2. /\ Len(s) \in Nat \ {0}
      /\ DOMAIN s = 1 .. Len(s)
      /\ DOMAIN t = 1 .. Len(s) - 1
      /\ Head(s) = s[1]
  BY <1>1, EmptySeq, LenProperties
<1>3. \A m, n \in DOMAIN t : t[m] = t[n] => m = n
  BY <1>1, <1>2
<1>4. Head(s) \in Range(s)
  BY <1>2 DEF Range
<1>5. ASSUME NEW n \in DOMAIN t
      PROVE  t[n] \in Range(s) \ {Head(s)}
  <2>1. n + 1 \in DOMAIN s /\ n + 1 # 1 /\ 1 \in DOMAIN s
    BY <1>2
  <2>2. t[n] = s[n + 1] /\ s[n + 1] # s[1]
    BY <1>1, <1>2, <2>1
  <2>. QED BY <1>2, <2>1, <2>2 DEF Range
<1>6. ASSUME NEW n \in DOMAIN s, s[n] # Head(s)
      PROVE  n - 1 \in DOMAIN t /\ t[n - 1] = s[n]
  BY <1>1, <1>2, <1>6
<1>7. Range(t) = Range(s) \ {Head(s)}
  <2>1. Range(t) \subseteq Range(s) \ {Head(s)}
    BY <1>5 DEF Range
  <2>2. ASSUME NEW x \in Range(s) \ {Head(s)}
        PROVE  x \in Range(t)
    <3>1. PICK n \in DOMAIN s : x = s[n]
      BY DEF Range
    <3>. QED BY <1>6, <3>1 DEF Range
  <2>. QED BY <2>1, <2>2
<1>. QED BY <1>1, <1>3, <1>4, <1>7

(* Add: the item is dirty afterwards, unless the queue is shutting down.   *)
LEMMA TypedAddOK ==
    ASSUME NEW Items, NEW q \in TypedQueues(Items), TypedOK(q), NEW i \in Items
    PROVE  /\ TypedAdd(q, i) \in TypedQueues(Items)
           /\ TypedOK(TypedAdd(q, i))
           /\ ~q.shuttingDown => TypedAdd(q, i).dirty = q.dirty \cup {i}
           /\ TypedAdd(q, i).processing = q.processing
           /\ TypedAdd(q, i).shuttingDown = q.shuttingDown
           /\ q.shuttingDown => TypedAdd(q, i) = q
<1>1. CASE q.shuttingDown \/ i \in q.dirty
  BY <1>1 DEF TypedAdd, TypedQueues
<1>2. CASE ~q.shuttingDown /\ i \notin q.dirty /\ i \in q.processing
  BY <1>2 DEF TypedAdd, TypedQueues, TypedOK
<1>3. CASE ~q.shuttingDown /\ i \notin q.dirty /\ i \notin q.processing
  <2>1. /\ q.queue \in Seq(Items)
        /\ i \notin Range(q.queue)
        /\ \A m, n \in DOMAIN q.queue : q.queue[m] = q.queue[n] => m = n
    BY <1>3 DEF TypedQueues, TypedOK
  <2>2. TypedAdd(q, i) =
            [ queue |-> Append(q.queue, i), dirty |-> q.dirty \cup {i},
              processing |-> q.processing, shuttingDown |-> q.shuttingDown ]
    BY <1>3 DEF TypedAdd, TypedQueues
  <2>3. /\ Append(q.queue, i) \in Seq(Items)
        /\ Range(Append(q.queue, i)) = Range(q.queue) \cup {i}
        /\ \A m, n \in DOMAIN Append(q.queue, i) :
               Append(q.queue, i)[m] = Append(q.queue, i)[n] => m = n
    BY <2>1, AppendNew
  <2>. QED BY <1>3, <2>2, <2>3 DEF TypedQueues, TypedOK
<1>. QED BY <1>1, <1>2, <1>3 DEF TypedQueues

(* Get: the item handed out was dirty and is no longer, and it was not     *)
(* being processed: nobody else can have it.                               *)
LEMMA TypedGetOK ==
    ASSUME NEW Items, NEW q \in TypedQueues(Items), TypedOK(q), TypedCanGet(q)
    PROVE  /\ TypedGet(q) \in TypedQueues(Items)
           /\ TypedOK(TypedGet(q))
           /\ Head(q.queue) \in q.dirty \ q.processing
           /\ Head(q.queue) \in Items
           /\ TypedGet(q).dirty = q.dirty \ {Head(q.queue)}
           /\ TypedGet(q).processing = q.processing \cup {Head(q.queue)}
           /\ TypedGet(q).shuttingDown = q.shuttingDown
<1>1. /\ q.queue \in Seq(Items) /\ q.queue # <<>>
      /\ Range(q.queue) = q.dirty \ q.processing
      /\ \A m, n \in DOMAIN q.queue : q.queue[m] = q.queue[n] => m = n
  BY DEF TypedQueues, TypedOK, TypedCanGet
<1>2. /\ Tail(q.queue) \in Seq(Items)
      /\ Head(q.queue) \in Range(q.queue)
      /\ Range(Tail(q.queue)) = Range(q.queue) \ {Head(q.queue)}
      /\ \A m, n \in DOMAIN Tail(q.queue) : Tail(q.queue)[m] = Tail(q.queue)[n] => m = n
  BY <1>1, TailOfDistinct
<1>3. Head(q.queue) \in Items
  BY <1>1, HeadTailProperties
<1>. QED BY <1>1, <1>2, <1>3 DEF TypedGet, TypedQueues, TypedOK

(* Done: an item that became dirty while it was processed is queued now.   *)
LEMMA TypedDoneOK ==
    ASSUME NEW Items, NEW q \in TypedQueues(Items), TypedOK(q), NEW i \in q.processing
    PROVE  /\ TypedDone(q, i) \in TypedQueues(Items)
           /\ TypedOK(TypedDone(q, i))
           /\ TypedDone(q, i).dirty = q.dirty
           /\ TypedDone(q, i).processing = q.processing \ {i}
           /\ TypedDone(q, i).shuttingDown = q.shuttingDown
<1>1. /\ q.queue \in Seq(Items) /\ i \in Items
      /\ i \notin Range(q.queue)
      /\ \A m, n \in DOMAIN q.queue : q.queue[m] = q.queue[n] => m = n
  BY DEF TypedQueues, TypedOK
<1>2. CASE i \in q.dirty
  <2>1. TypedDone(q, i) =
            [ queue |-> Append(q.queue, i), dirty |-> q.dirty,
              processing |-> q.processing \ {i}, shuttingDown |-> q.shuttingDown ]
    <3>1. TypedDone(q, i) =
              [q EXCEPT !.processing = q.processing \ {i}, !.queue = Append(q.queue, i)]
      BY <1>2 DEF TypedDone
    <3>. QED BY <3>1 DEF TypedQueues
  <2>2. /\ Append(q.queue, i) \in Seq(Items)
        /\ Range(Append(q.queue, i)) = Range(q.queue) \cup {i}
        /\ \A m, n \in DOMAIN Append(q.queue, i) :
               Append(q.queue, i)[m] = Append(q.queue, i)[n] => m = n
    BY <1>1, AppendNew
  <2>. QED BY <1>2, <2>1, <2>2 DEF TypedQueues, TypedOK
<1>3. CASE i \notin q.dirty
  BY <1>1, <1>3 DEF TypedDone, TypedQueues, TypedOK
<1>. QED BY <1>2, <1>3

(* ShutDown: nothing that is queued or processed is touched.               *)
LEMMA TypedShutDownOK ==
    ASSUME NEW Items, NEW q \in TypedQueues(Items), TypedOK(q)
    PROVE  /\ TypedShutDown(q) \in TypedQueues(Items)
           /\ TypedOK(TypedShutDown(q))
           /\ TypedShutDown(q).queue = q.queue
           /\ TypedShutDown(q).dirty = q.dirty
           /\ TypedShutDown(q).processing = q.processing
           /\ TypedShutDown(q).shuttingDown = TRUE
BY DEF TypedShutDown, TypedQueues, TypedOK

(* A queue with nothing to hand out and nothing in process owes nothing.   *)
LEMMA TypedEmptyOK ==
    ASSUME NEW Items, NEW q \in TypedQueues(Items), TypedOK(q),
           q.queue = <<>>, q.processing = {}
    PROVE  q.dirty = {}
BY DEF TypedOK, Range

LEMMA TypedInitOK ==
    ASSUME NEW Items
    PROVE  EmptyTyped \in TypedQueues(Items) /\ TypedOK(EmptyTyped)
BY DEF EmptyTyped, TypedQueues, TypedOK, Range

-----------------------------------------------------------------------------
(***************************************************************************)
(* A pump has an item in hand between Get and the hand-over, the lane      *)
(* counts it as processed until Done, and a pump that has closed its       *)
(* channel has left an empty lane behind, which ignores additions.         *)
(***************************************************************************)
PumpOK(l) ==
    /\ pump[l].item = None <=> pump[l].pc \in {"get", "closed"}
    /\ lane[l].processing = IF pump[l].pc = "done" THEN {pump[l].item} ELSE {}
    /\ pump[l].pc = "closed" => lane[l].shuttingDown /\ lane[l].queue = <<>>

(***************************************************************************)
(* The consumer has an item in hand just before it adds it, it stops       *)
(* watching a lane only when that is closed, and only as it exits, with no *)
(* lane left to watch, does it shut the consumer queue down.               *)
(***************************************************************************)
ConsumerOK ==
    /\ consumer.item = None <=> consumer.pc # "add"
    /\ \A l \in Lanes \ consumer.watching : pump[l].pc = "closed"
    /\ consumer.pc = "exited" => consumer.watching = {}
    /\ ready.shuttingDown => consumer.pc = "exited"

(***************************************************************************)
(* A worker that exits found the consumer queue empty and shut down; but   *)
(* the others may still put back a key that became dirty in their hands.   *)
(* It is the last one that leaves the queue empty for good.                *)
(***************************************************************************)
WorkersOK ==
    /\ \A w \in exited : active[w] = None /\ ready.shuttingDown
    /\ exited = Workers => ready.queue = <<>>
    /\ control = "finished" => exited = Workers

QueueInv ==
    /\ TypeOK
    /\ QueuesWellFormed
    /\ ProcessingIsActive
    /\ \A l \in Lanes : PumpOK(l)
    /\ ConsumerOK
    /\ WorkersOK

LEMMA InitQueueInv == Init => QueueInv
<1>. SUFFICES ASSUME Init PROVE QueueInv
  OBVIOUS
<1>1. EmptyTyped \in TypedQueues(Keys) /\ TypedOK(EmptyTyped)
  BY TypedInitOK
<1>2. TypeOK /\ QueuesWellFormed
  BY <1>1 DEF Init, TypeOK, QueuesWellFormed, ControlPoints
<1>3. ProcessingIsActive
  BY DEF Init, ProcessingIsActive, EmptyTyped
<1>4. (\A l \in Lanes : PumpOK(l)) /\ ConsumerOK /\ WorkersOK
  BY WorkersAssumption DEF Init, PumpOK, ConsumerOK, WorkersOK, EmptyTyped
<1>. QED BY <1>2, <1>3, <1>4 DEF QueueInv

(***************************************************************************)
(* The steps that touch a lane: producers, pumps and the shutdown.         *)
(***************************************************************************)
LEMMA AddToInv ==
    ASSUME QueueInv, NEW l \in Lanes, NEW k \in Keys, AddTo(l, k)
    PROVE  QueueInv'
<1>. USE DEF AddTo
<1>1. /\ lane[l] \in TypedQueues(Keys) /\ TypedOK(lane[l])
      /\ lane' = [lane EXCEPT ![l] = TypedAdd(lane[l], k)]
  BY DEF QueueInv, TypeOK, QueuesWellFormed
<1>2. /\ TypedAdd(lane[l], k) \in TypedQueues(Keys)
      /\ TypedOK(TypedAdd(lane[l], k))
      /\ TypedAdd(lane[l], k).processing = lane[l].processing
      /\ TypedAdd(lane[l], k).shuttingDown = lane[l].shuttingDown
      /\ lane[l].shuttingDown => TypedAdd(lane[l], k) = lane[l]
  BY <1>1, TypedAddOK
<1>3. TypeOK' /\ QueuesWellFormed'
  BY <1>1, <1>2 DEF QueueInv, TypeOK, QueuesWellFormed
<1>4. \A m \in Lanes : PumpOK(m)'
  <2>. SUFFICES ASSUME NEW m \in Lanes PROVE PumpOK(m)'
    OBVIOUS
  <2>1. CASE m = l
    <3>1. lane'[l] = TypedAdd(lane[l], k) /\ PumpOK(l)
      BY <1>1 DEF QueueInv, TypeOK
    <3>. QED BY <1>2, <2>1, <3>1 DEF PumpOK
  <2>2. CASE m # l
    BY <1>1, <2>2 DEF QueueInv, TypeOK, PumpOK
  <2>. QED BY <2>1, <2>2
<1>5. ProcessingIsActive' /\ ConsumerOK' /\ WorkersOK'
  BY DEF QueueInv, ProcessingIsActive, ConsumerOK, WorkersOK
<1>. QED BY <1>3, <1>4, <1>5 DEF QueueInv

LEMMA PumpGetInv ==
    ASSUME QueueInv, NEW l \in Lanes, PumpGet(l)
    PROVE  QueueInv'
<1>. USE DEF PumpGet
<1>1. /\ lane[l] \in TypedQueues(Keys) /\ TypedOK(lane[l])
      /\ lane' = [lane EXCEPT ![l] = TypedGet(lane[l])]
      /\ pump[l].pc = "get"
  BY DEF QueueInv, TypeOK, QueuesWellFormed
<1>2. /\ TypedGet(lane[l]) \in TypedQueues(Keys)
      /\ TypedOK(TypedGet(lane[l]))
      /\ TypedGet(lane[l]).processing = lane[l].processing \cup {Head(lane[l].queue)}
      /\ Head(lane[l].queue) \in Keys
  BY <1>1, TypedGetOK
<1>3. TypeOK' /\ QueuesWellFormed'
  BY <1>1, <1>2 DEF QueueInv, TypeOK, QueuesWellFormed
<1>4. \A m \in Lanes : PumpOK(m)'
  <2>. SUFFICES ASSUME NEW m \in Lanes PROVE PumpOK(m)'
    OBVIOUS
  <2>1. CASE m = l
    <3>1. lane[l].processing = {}
      BY <1>1 DEF QueueInv, PumpOK
    <3>2. /\ pump'[l].pc = "done" /\ pump'[l].item = Head(lane[l].queue)
          /\ lane'[l] = TypedGet(lane[l])
      BY <1>1 DEF QueueInv, TypeOK
    <3>. QED BY <1>2, <2>1, <3>1, <3>2, NoneAssumption DEF PumpOK
  <2>2. CASE m # l
    BY <1>1, <2>2 DEF QueueInv, TypeOK, PumpOK
  <2>. QED BY <2>1, <2>2
<1>5. ConsumerOK'
  BY <1>1 DEF QueueInv, TypeOK, ConsumerOK
<1>6. ProcessingIsActive' /\ WorkersOK'
  BY DEF QueueInv, ProcessingIsActive, WorkersOK
<1>. QED BY <1>3, <1>4, <1>5, <1>6 DEF QueueInv

LEMMA PumpDoneInv ==
    ASSUME QueueInv, NEW l \in Lanes, PumpDone(l)
    PROVE  QueueInv'
<1>. USE DEF PumpDone
<1>1. /\ lane[l] \in TypedQueues(Keys) /\ TypedOK(lane[l])
      /\ lane' = [lane EXCEPT ![l] = TypedDone(lane[l], pump[l].item)]
      /\ pump[l].pc = "done"
      /\ lane[l].processing = {pump[l].item}
  BY DEF QueueInv, TypeOK, QueuesWellFormed, PumpOK
<1>2. /\ TypedDone(lane[l], pump[l].item) \in TypedQueues(Keys)
      /\ TypedOK(TypedDone(lane[l], pump[l].item))
      /\ TypedDone(lane[l], pump[l].item).processing = {}
  BY <1>1, TypedDoneOK
<1>3. TypeOK' /\ QueuesWellFormed'
  BY <1>1, <1>2 DEF QueueInv, TypeOK, QueuesWellFormed
<1>4. \A m \in Lanes : PumpOK(m)'
  <2>. SUFFICES ASSUME NEW m \in Lanes PROVE PumpOK(m)'
    OBVIOUS
  <2>1. CASE m = l
    <3>1. /\ pump'[l].pc = "send" /\ pump'[l].item = pump[l].item
          /\ lane'[l] = TypedDone(lane[l], pump[l].item)
      BY <1>1 DEF QueueInv, TypeOK
    <3>. QED BY <1>1, <1>2, <2>1, <3>1 DEF QueueInv, PumpOK
  <2>2. CASE m # l
    BY <1>1, <2>2 DEF QueueInv, TypeOK, PumpOK
  <2>. QED BY <2>1, <2>2
<1>5. ConsumerOK'
  BY <1>1 DEF QueueInv, TypeOK, ConsumerOK
<1>6. ProcessingIsActive' /\ WorkersOK'
  BY DEF QueueInv, ProcessingIsActive, WorkersOK
<1>. QED BY <1>3, <1>4, <1>5, <1>6 DEF QueueInv

LEMMA PumpCloseInv ==
    ASSUME QueueInv, NEW l \in Lanes, PumpClose(l)
    PROVE  QueueInv'
<1>. USE DEF PumpClose
<1>1. pump[l].pc = "get" /\ TypedIsClosed(lane[l])
  OBVIOUS
<1>2. TypeOK' /\ QueuesWellFormed'
  BY DEF QueueInv, TypeOK, QueuesWellFormed
<1>3. \A m \in Lanes : PumpOK(m)'
  BY <1>1 DEF QueueInv, TypeOK, PumpOK, TypedIsClosed
<1>4. ConsumerOK'
  BY <1>1 DEF QueueInv, TypeOK, ConsumerOK
<1>5. ProcessingIsActive' /\ WorkersOK'
  BY DEF QueueInv, ProcessingIsActive, WorkersOK
<1>. QED BY <1>2, <1>3, <1>4, <1>5 DEF QueueInv

LEMMA ShutDownLaneInv ==
    ASSUME QueueInv, NEW l \in Lanes, NEW c \in ControlPoints \ {"finished"},
           lane' = [lane EXCEPT ![l] = TypedShutDown(lane[l])],
           control' = c,
           UNCHANGED <<pump, consumer, ready, active, exited, counted>>
    PROVE  QueueInv'
<1>1. lane[l] \in TypedQueues(Keys) /\ TypedOK(lane[l])
  BY DEF QueueInv, TypeOK, QueuesWellFormed
<1>2. /\ TypedShutDown(lane[l]) \in TypedQueues(Keys)
      /\ TypedOK(TypedShutDown(lane[l]))
      /\ TypedShutDown(lane[l]).queue = lane[l].queue
      /\ TypedShutDown(lane[l]).processing = lane[l].processing
      /\ TypedShutDown(lane[l]).shuttingDown = TRUE
  BY <1>1, TypedShutDownOK
<1>3. TypeOK' /\ QueuesWellFormed'
  BY <1>1, <1>2 DEF QueueInv, TypeOK, QueuesWellFormed
<1>4. \A m \in Lanes : PumpOK(m)'
  <2>. SUFFICES ASSUME NEW m \in Lanes PROVE PumpOK(m)'
    OBVIOUS
  <2>1. CASE m = l
    BY <1>1, <1>2, <2>1 DEF QueueInv, TypeOK, PumpOK
  <2>2. CASE m # l
    BY <1>1, <2>2 DEF QueueInv, TypeOK, PumpOK
  <2>. QED BY <2>1, <2>2
<1>5. ProcessingIsActive' /\ ConsumerOK' /\ WorkersOK'
  BY DEF QueueInv, ProcessingIsActive, ConsumerOK, WorkersOK
<1>. QED BY <1>3, <1>4, <1>5 DEF QueueInv

(***************************************************************************)
(* The steps of the consumer.                                              *)
(***************************************************************************)
LEMMA ReceiveInv ==
    ASSUME QueueInv, NEW l \in Lanes, Receive(l), consumer.pc \in {"poll", "select"}
    PROVE  QueueInv'
<1>. USE DEF Receive
<1>1. pump[l].item \in Keys /\ pump[l].pc = "send" /\ lane[l].processing = {}
  BY DEF QueueInv, TypeOK, PumpOK
<1>2. TypeOK' /\ QueuesWellFormed'
  BY <1>1 DEF QueueInv, TypeOK, QueuesWellFormed
<1>3. \A m \in Lanes : PumpOK(m)'
  BY <1>1 DEF QueueInv, TypeOK, PumpOK
<1>4. ConsumerOK'
  BY <1>1, NoneAssumption DEF QueueInv, TypeOK, ConsumerOK
<1>5. ProcessingIsActive' /\ WorkersOK'
  BY DEF QueueInv, ProcessingIsActive, WorkersOK
<1>. QED BY <1>2, <1>3, <1>4, <1>5 DEF QueueInv

LEMMA ForsakeInv ==
    ASSUME QueueInv, NEW l \in Lanes, Forsake(l), consumer.pc \in {"poll", "select"}
    PROVE  QueueInv'
<1>. USE DEF Forsake
<1>1. TypeOK' /\ QueuesWellFormed'
  BY DEF QueueInv, TypeOK, QueuesWellFormed
<1>2. \A m \in Lanes : PumpOK(m)'
  BY DEF QueueInv, PumpOK
<1>3. ConsumerOK'
  BY DEF QueueInv, TypeOK, ConsumerOK
<1>4. ProcessingIsActive' /\ WorkersOK'
  BY DEF QueueInv, ProcessingIsActive, WorkersOK
<1>. QED BY <1>1, <1>2, <1>3, <1>4 DEF QueueInv

LEMMA PollNothingInv ==
    ASSUME QueueInv, PollNothing
    PROVE  QueueInv'
<1>. USE DEF PollNothing
<1>1. TypeOK' /\ QueuesWellFormed'
  BY DEF QueueInv, TypeOK, QueuesWellFormed
<1>2. (\A m \in Lanes : PumpOK(m)') /\ ConsumerOK'
  BY DEF QueueInv, TypeOK, PumpOK, ConsumerOK
<1>3. ProcessingIsActive' /\ WorkersOK'
  BY DEF QueueInv, ProcessingIsActive, WorkersOK
<1>. QED BY <1>1, <1>2, <1>3 DEF QueueInv

(* The consumer queue is open as long as the consumer adds to it, so no    *)
(* worker has exited.                                                      *)
LEMMA ConsumerAddInv ==
    ASSUME QueueInv, ConsumerAdd
    PROVE  QueueInv'
<1>. USE DEF ConsumerAdd
<1>1. /\ ready \in TypedQueues(Keys) /\ TypedOK(ready)
      /\ consumer.item \in Keys
      /\ ~ready.shuttingDown
  BY DEF QueueInv, TypeOK, QueuesWellFormed, ConsumerOK
<1>2. /\ ready' \in TypedQueues(Keys) /\ TypedOK(ready')
      /\ ready'.processing = ready.processing
      /\ ready'.shuttingDown = ready.shuttingDown
  BY <1>1, TypedAddOK
<1>3. TypeOK' /\ QueuesWellFormed'
  BY <1>2 DEF QueueInv, TypeOK, QueuesWellFormed
<1>4. ConsumerOK'
  BY <1>1, <1>2 DEF QueueInv, TypeOK, ConsumerOK
<1>5. ProcessingIsActive' /\ \A m \in Lanes : PumpOK(m)'
  BY <1>2 DEF QueueInv, ProcessingIsActive, PumpOK
<1>6. WorkersOK'
  <2>1. exited = {}
    BY <1>1 DEF QueueInv, WorkersOK
  <2>. QED BY <2>1, WorkersAssumption DEF QueueInv, WorkersOK
<1>. QED BY <1>3, <1>4, <1>5, <1>6 DEF QueueInv

LEMMA ConsumerExitInv ==
    ASSUME QueueInv, ConsumerExit
    PROVE  QueueInv'
<1>. USE DEF ConsumerExit
<1>1. /\ ready' \in TypedQueues(Keys) /\ TypedOK(ready')
      /\ ready'.queue = ready.queue
      /\ ready'.processing = ready.processing
      /\ ready'.shuttingDown = TRUE
  BY TypedShutDownOK DEF QueueInv, TypeOK, QueuesWellFormed
<1>2. TypeOK' /\ QueuesWellFormed'
  BY <1>1 DEF QueueInv, TypeOK, QueuesWellFormed
<1>3. ConsumerOK'
  BY <1>1 DEF QueueInv, TypeOK, ConsumerOK
<1>4. ProcessingIsActive' /\ WorkersOK' /\ \A m \in Lanes : PumpOK(m)'
  BY <1>1 DEF QueueInv, ProcessingIsActive, WorkersOK, PumpOK
<1>. QED BY <1>2, <1>3, <1>4 DEF QueueInv

LEMMA ConsumerInv ==
    ASSUME QueueInv, Consumer
    PROVE  QueueInv'
BY ReceiveInv, ForsakeInv, PollNothingInv, ConsumerAddInv, ConsumerExitInv
   DEF Consumer, PollFast, Select, Lanes

(***************************************************************************)
(* The steps of the workers.                                               *)
(***************************************************************************)
(* The key that Get hands out is not being processed, so nobody holds it.  *)
LEMMA GetItemTakes ==
    ASSUME QueueInv, NEW w \in Workers, GetItem(w)
    PROVE  /\ Head(ready.queue) \in Keys
           /\ Head(ready.queue) \in ready.dirty
           /\ \A v \in Workers : active[v] # Head(ready.queue)
           /\ ready' \in TypedQueues(Keys) /\ TypedOK(ready')
           /\ ready'.dirty = ready.dirty \ {Head(ready.queue)}
           /\ ready'.processing = ready.processing \cup {Head(ready.queue)}
           /\ ready'.shuttingDown = ready.shuttingDown
<1>1. /\ ready \in TypedQueues(Keys) /\ TypedOK(ready) /\ TypedCanGet(ready)
      /\ ready' = TypedGet(ready)
  BY DEF GetItem, QueueInv, TypeOK, QueuesWellFormed
<1>2. /\ Head(ready.queue) \in ready.dirty \ ready.processing
      /\ Head(ready.queue) \in Keys
      /\ ready' \in TypedQueues(Keys) /\ TypedOK(ready')
      /\ ready'.dirty = ready.dirty \ {Head(ready.queue)}
      /\ ready'.processing = ready.processing \cup {Head(ready.queue)}
      /\ ready'.shuttingDown = ready.shuttingDown
  BY <1>1, TypedGetOK
<1>3. \A v \in Workers : active[v] # Head(ready.queue)
  BY <1>2, NoneAssumption DEF QueueInv, ProcessingIsActive
<1>. QED BY <1>2, <1>3

LEMMA GetItemInv ==
    ASSUME QueueInv, NEW w \in Workers, GetItem(w)
    PROVE  QueueInv'
<1>. DEFINE k == Head(ready.queue)
<1>1. /\ k \in Keys /\ k # None
      /\ \A v \in Workers : active[v] # k
      /\ ready' \in TypedQueues(Keys) /\ TypedOK(ready')
      /\ ready'.processing = ready.processing \cup {k}
      /\ ready'.shuttingDown = ready.shuttingDown
  BY GetItemTakes, NoneAssumption
<1>2. /\ active[w] = None /\ w \notin exited
      /\ \A v \in Workers : active'[v] = IF v = w THEN k ELSE active[v]
  BY DEF GetItem, QueueInv, TypeOK
<1>3. TypeOK' /\ QueuesWellFormed'
  BY <1>1 DEF GetItem, QueueInv, TypeOK, QueuesWellFormed
<1>4. ProcessingIsActive'
  <2>1. ready'.processing = {active'[v] : v \in Workers} \ {None}
    BY <1>1, <1>2 DEF QueueInv, ProcessingIsActive
  <2>2. \A u, v \in Workers : active'[u] = active'[v] /\ active'[u] # None => u = v
    BY <1>1, <1>2 DEF QueueInv, ProcessingIsActive
  <2>. QED BY <2>1, <2>2 DEF ProcessingIsActive
<1>5. WorkersOK'
  <2>1. exited # Workers
    BY <1>2
  <2>2. \A v \in exited : active'[v] = None /\ ready'.shuttingDown
    BY <1>1, <1>2 DEF QueueInv, TypeOK, WorkersOK
  <2>. QED BY <2>1, <2>2 DEF GetItem, QueueInv, WorkersOK
<1>6. ConsumerOK' /\ \A m \in Lanes : PumpOK(m)'
  BY <1>1 DEF GetItem, QueueInv, ConsumerOK, PumpOK
<1>. QED BY <1>3, <1>4, <1>5, <1>6 DEF QueueInv

LEMMA DoneItemInv ==
    ASSUME QueueInv, NEW w \in Workers, DoneItem(w)
    PROVE  QueueInv'
<1>. USE DEF DoneItem
<1>1. /\ active[w] \in ready.processing /\ active[w] # None
      /\ \A v \in Workers : active'[v] = IF v = w THEN None ELSE active[v]
  BY DEF QueueInv, TypeOK, ProcessingIsActive
<1>2. /\ ready' \in TypedQueues(Keys) /\ TypedOK(ready')
      /\ ready'.processing = ready.processing \ {active[w]}
      /\ ready'.shuttingDown = ready.shuttingDown
  BY <1>1, TypedDoneOK DEF QueueInv, TypeOK, QueuesWellFormed
<1>3. TypeOK' /\ QueuesWellFormed'
  BY <1>2 DEF QueueInv, TypeOK, QueuesWellFormed
<1>4. ProcessingIsActive'
  <2>1. ready'.processing = {active'[v] : v \in Workers} \ {None}
    BY <1>1, <1>2 DEF QueueInv, ProcessingIsActive
  <2>2. \A u, v \in Workers : active'[u] = active'[v] /\ active'[u] # None => u = v
    BY <1>1 DEF QueueInv, ProcessingIsActive
  <2>. QED BY <2>1, <2>2 DEF ProcessingIsActive
<1>5. WorkersOK'
  <2>1. exited # Workers
    BY <1>1 DEF QueueInv, WorkersOK
  <2>2. \A v \in exited : active'[v] = None /\ ready'.shuttingDown
    BY <1>1, <1>2 DEF QueueInv, TypeOK, WorkersOK
  <2>. QED BY <2>1, <2>2 DEF QueueInv, WorkersOK
<1>6. ConsumerOK' /\ \A m \in Lanes : PumpOK(m)'
  BY <1>2 DEF QueueInv, ConsumerOK, PumpOK
<1>. QED BY <1>3, <1>4, <1>5, <1>6 DEF QueueInv

LEMMA WorkerExitInv ==
    ASSUME QueueInv, NEW w \in Workers, WorkerExit(w)
    PROVE  QueueInv'
<1>. USE DEF WorkerExit
<1>1. TypeOK' /\ QueuesWellFormed'
  BY DEF QueueInv, TypeOK, QueuesWellFormed
<1>2. WorkersOK'
  BY DEF QueueInv, WorkersOK, TypedIsClosed
<1>3. ProcessingIsActive' /\ ConsumerOK' /\ \A m \in Lanes : PumpOK(m)'
  BY DEF QueueInv, ProcessingIsActive, ConsumerOK, PumpOK
<1>. QED BY <1>1, <1>2, <1>3 DEF QueueInv

(***************************************************************************)
(* The steps of RunContext, and the steps together.                        *)
(***************************************************************************)
LEMMA ControlInv ==
    ASSUME QueueInv, ShutDownFast \/ Drain
    PROVE  QueueInv'
<1>1. CASE ShutDownFast \/ ShutDownSlow
  BY <1>1, ShutDownLaneInv DEF ShutDownFast, ShutDownSlow, Lanes, ControlPoints
<1>2. CASE LenOfFast \/ LenOfSlow \/ LenOfReady \/ Finish
  <2>. USE <1>2 DEF LenOfFast, LenOfSlow, LenOfReady, Finish
  <2>1. TypeOK' /\ QueuesWellFormed'
    BY DEF QueueInv, TypeOK, QueuesWellFormed, ControlPoints
  <2>2. WorkersOK'
    BY DEF QueueInv, WorkersOK
  <2>3. ProcessingIsActive' /\ ConsumerOK' /\ \A m \in Lanes : PumpOK(m)'
    BY DEF QueueInv, ProcessingIsActive, ConsumerOK, PumpOK
  <2>. QED BY <2>1, <2>2, <2>3 DEF QueueInv
<1>. QED BY <1>1, <1>2 DEF Drain

LEMMA StepQueueInv ==
    ASSUME QueueInv, [Next]_vars
    PROVE  QueueInv'
<1>1. ASSUME NEW l \in Lanes, Pump(l) \/ \E k \in Keys : AddTo(l, k)
      PROVE  QueueInv'
  BY <1>1, AddToInv, PumpGetInv, PumpDoneInv, PumpCloseInv DEF Pump
<1>2. ASSUME NEW w \in Workers, Worker(w)
      PROVE  QueueInv'
  BY <1>2, GetItemInv, DoneItemInv, WorkerExitInv DEF Worker
<1>3. CASE UNCHANGED vars
  <2>. USE <1>3 DEF vars
  <2>1. TypeOK' /\ QueuesWellFormed' /\ ProcessingIsActive'
    BY DEF QueueInv, TypeOK, QueuesWellFormed, ProcessingIsActive
  <2>2. (\A l \in Lanes : PumpOK(l)') /\ ConsumerOK' /\ WorkersOK'
    BY DEF QueueInv, PumpOK, ConsumerOK, WorkersOK
  <2>. QED BY <2>1, <2>2 DEF QueueInv
<1>. QED BY <1>1, <1>2, <1>3, ConsumerInv, ControlInv DEF Next

THEOREM QueueInvHolds == Spec => []QueueInv
BY InitQueueInv, StepQueueInv, PTL DEF Spec

(***************************************************************************)
(* The two-lane queue is type correct: a pump or the consumer that hands   *)
(* something on hands on a key, never the zero value of a closed channel.  *)
(***************************************************************************)
THEOREM QueueTypeCorrect == Spec => []TypeOK
BY QueueInvHolds, PTL DEF QueueInv

(***************************************************************************)
(* Each of the three client-go queues keeps the invariant on its fields.   *)
(***************************************************************************)
THEOREM QueuesStayWellFormed == Spec => []QueuesWellFormed
BY QueueInvHolds, PTL DEF QueueInv

(***************************************************************************)
(* No two workers ever hold one key, whichever lanes it came through.      *)
(***************************************************************************)
THEOREM KeysWorkedOnce == Spec => []ProcessingIsActive
BY QueueInvHolds, PTL DEF QueueInv

(***************************************************************************)
(* The consumer has nothing in hand once the consumer queue ignores        *)
(* additions.                                                              *)
(***************************************************************************)
THEOREM NothingAddedTooLate == Spec => [](ready.shuttingDown => consumer.item = None)
<1>1. QueueInv => (ready.shuttingDown => consumer.item = None)
  BY DEF QueueInv, ConsumerOK
<1>. QED BY <1>1, QueueInvHolds, PTL

(***************************************************************************)
(* When RunContext returns, no accepted key is left anywhere.              *)
(***************************************************************************)
LEMMA ExitedMeansEmpty ==
    ASSUME QueueInv, control = "finished"
    PROVE  /\ \A w \in Workers : active[w] = None
           /\ ready.dirty = {}
           /\ consumer.item = None
           /\ \A l \in Lanes : lane[l].dirty = {} /\ pump[l].item = None
<1>1. /\ exited = Workers /\ Workers # {}
      /\ \A w \in Workers : active[w] = None /\ ready.shuttingDown
      /\ ready.queue = <<>>
  BY WorkersAssumption DEF QueueInv, WorkersOK
<1>2. ready.dirty = {}
  <2>1. ready.processing = {}
    BY <1>1 DEF QueueInv, ProcessingIsActive
  <2>. QED BY <1>1, <2>1, TypedEmptyOK DEF QueueInv, TypeOK, QueuesWellFormed
<1>3. consumer.item = None /\ \A l \in Lanes : pump[l].pc = "closed"
  BY <1>1 DEF QueueInv, ConsumerOK
<1>4. ASSUME NEW l \in Lanes
      PROVE  lane[l].dirty = {} /\ pump[l].item = None
  <2>1. lane[l].queue = <<>> /\ lane[l].processing = {} /\ pump[l].item = None
    BY <1>3 DEF QueueInv, PumpOK
  <2>. QED BY <2>1, TypedEmptyOK DEF QueueInv, TypeOK, QueuesWellFormed
<1>. QED BY <1>1, <1>2, <1>3, <1>4

THEOREM Drained == Spec => []DrainedOnReturn
<1>1. QueueInv => DrainedOnReturn
  <2>. SUFFICES ASSUME QueueInv, control = "finished"
                PROVE  /\ \A k \in Keys : Copies(k) = 0
                       /\ \A w \in Workers : active[w] = None
    BY DEF DrainedOnReturn
  <2>1. ASSUME NEW k \in Keys
        PROVE  Copies(k) = 0
    <3>1. InHand(k) = {} /\ Dirty(k) = {} /\ consumer.item # k /\ k \notin ready.dirty
      BY ExitedMeansEmpty, NoneAssumption DEF InHand, Dirty
    <3>. QED BY <3>1, FS_EmptySet DEF Copies
  <2>. QED BY <2>1, ExitedMeansEmpty
<1>. QED BY <1>1, QueueInvHolds, PTL

-----------------------------------------------------------------------------
(***************************************************************************)
(* The drain.  It begins with two steps, so a lane's shuttingDown follows  *)
(* control; and however many keys there are, only finitely many have been  *)
(* added, so that what is left to do can be counted.                       *)
(***************************************************************************)
LanesShut ==
    /\ control # "running" => lane["fast"].shuttingDown
    /\ control \notin {"running", "shutSlow"} => lane["slow"].shuttingDown

FiniteBacklog ==
    /\ \A l \in Lanes : IsFiniteSet(lane[l].dirty)
    /\ IsFiniteSet(ready.dirty)
    /\ IsFiniteSet(ready.processing)

DrainInv == QueueInv /\ LanesShut /\ FiniteBacklog

(* Cardinalities after one element is taken away or added.                 *)
LEMMA CountLess ==
    ASSUME NEW S, IsFiniteSet(S), NEW x \in S
    PROVE  Cardinality(S \ {x}) = Cardinality(S) - 1
BY FS_RemoveElement

LEMMA CountMore ==
    ASSUME NEW S, IsFiniteSet(S), NEW x, x \notin S
    PROVE  Cardinality(S \cup {x}) = Cardinality(S) + 1
BY FS_AddElement

(* An addition makes at most one more item dirty.                          *)
LEMMA TypedAddCounts ==
    ASSUME NEW Items, NEW q \in TypedQueues(Items), NEW i \in Items, TypedOK(q),
           IsFiniteSet(q.dirty)
    PROVE  /\ IsFiniteSet(TypedAdd(q, i).dirty)
           /\ \E m \in {0, 1} : Cardinality(TypedAdd(q, i).dirty) = Cardinality(q.dirty) + m
<1>1. TypedAdd(q, i).dirty \in {q.dirty, q.dirty \cup {i}}
  BY TypedAddOK
<1>2. /\ IsFiniteSet(q.dirty \cup {i})
      /\ Cardinality(q.dirty) + 0 = Cardinality(q.dirty)
      /\ Cardinality(q.dirty \cup {i}) \in {Cardinality(q.dirty), Cardinality(q.dirty) + 1}
  BY FS_AddElement, FS_CardinalityType
<1>. QED BY <1>1, <1>2

LEMMA InitDrainInv == Init => DrainInv
<1>. SUFFICES ASSUME Init PROVE LanesShut /\ FiniteBacklog
  BY InitQueueInv DEF DrainInv
<1>1. EmptyTyped.dirty = {} /\ EmptyTyped.processing = {}
  BY DEF EmptyTyped
<1>2. control = "running" /\ ready = EmptyTyped /\ \A l \in Lanes : lane[l] = EmptyTyped
  BY DEF Init
<1>3. IsFiniteSet(EmptyTyped.dirty) /\ IsFiniteSet(EmptyTyped.processing)
  BY <1>1, FS_EmptySet
<1>. QED BY <1>2, <1>3 DEF LanesShut, FiniteBacklog

(* A step on one lane that opens none and adds at most one item to it.     *)
LEMMA LaneDrainInv ==
    ASSUME DrainInv, NEW l \in Lanes, NEW q,
           lane' = [lane EXCEPT ![l] = q],
           IsFiniteSet(q.dirty),
           lane[l].shuttingDown => q.shuttingDown,
           UNCHANGED <<ready, control>>
    PROVE  LanesShut' /\ FiniteBacklog'
<1>1. \A m \in Lanes : lane'[m] = IF m = l THEN q ELSE lane[m]
  BY DEF DrainInv, QueueInv, TypeOK
<1>2. LanesShut'
  BY <1>1 DEF DrainInv, LanesShut, Lanes
<1>3. FiniteBacklog'
  BY <1>1 DEF DrainInv, FiniteBacklog
<1>. QED BY <1>2, <1>3

LEMMA LanesDrainInv ==
    ASSUME DrainInv, NEW l \in Lanes, Pump(l) \/ \E k \in Keys : AddTo(l, k)
    PROVE  LanesShut' /\ FiniteBacklog'
<1>1. lane[l] \in TypedQueues(Keys) /\ TypedOK(lane[l]) /\ IsFiniteSet(lane[l].dirty)
  BY DEF DrainInv, QueueInv, TypeOK, QueuesWellFormed, FiniteBacklog
<1>2. ASSUME NEW k \in Keys, AddTo(l, k)
      PROVE  LanesShut' /\ FiniteBacklog'
  <2>1. /\ lane' = [lane EXCEPT ![l] = TypedAdd(lane[l], k)]
        /\ UNCHANGED <<ready, control>>
    BY <1>2 DEF AddTo
  <2>2. /\ IsFiniteSet(TypedAdd(lane[l], k).dirty)
        /\ TypedAdd(lane[l], k).shuttingDown = lane[l].shuttingDown
    BY <1>1, TypedAddOK, TypedAddCounts
  <2>. QED BY <2>1, <2>2, LaneDrainInv
<1>3. CASE PumpGet(l)
  <2>1. /\ lane' = [lane EXCEPT ![l] = TypedGet(lane[l])]
        /\ TypedCanGet(lane[l])
        /\ UNCHANGED <<ready, control>>
    BY <1>3 DEF PumpGet
  <2>2. /\ IsFiniteSet(TypedGet(lane[l]).dirty)
        /\ TypedGet(lane[l]).shuttingDown = lane[l].shuttingDown
    <3>1. /\ TypedGet(lane[l]).dirty = lane[l].dirty \ {Head(lane[l].queue)}
          /\ TypedGet(lane[l]).shuttingDown = lane[l].shuttingDown
      BY <1>1, <2>1, TypedGetOK
    <3>. QED BY <1>1, <3>1, FS_RemoveElement
  <2>. QED BY <2>1, <2>2, LaneDrainInv
<1>4. CASE PumpDone(l)
  <2>1. /\ lane' = [lane EXCEPT ![l] = TypedDone(lane[l], pump[l].item)]
        /\ pump[l].item \in lane[l].processing
        /\ UNCHANGED <<ready, control>>
    BY <1>4 DEF PumpDone, DrainInv, QueueInv, PumpOK
  <2>2. /\ IsFiniteSet(TypedDone(lane[l], pump[l].item).dirty)
        /\ TypedDone(lane[l], pump[l].item).shuttingDown = lane[l].shuttingDown
    BY <1>1, <2>1, TypedDoneOK
  <2>. QED BY <2>1, <2>2, LaneDrainInv
<1>5. CASE PumpClose(l)
  BY <1>5 DEF PumpClose, DrainInv, LanesShut, FiniteBacklog
<1>. QED BY <1>2, <1>3, <1>4, <1>5 DEF Pump

LEMMA ReadyDrainInv ==
    ASSUME DrainInv, Consumer \/ \E w \in Workers : Worker(w)
    PROVE  LanesShut' /\ FiniteBacklog'
<1>1. /\ ready \in TypedQueues(Keys) /\ TypedOK(ready)
      /\ IsFiniteSet(ready.dirty) /\ IsFiniteSet(ready.processing)
  BY DEF DrainInv, QueueInv, TypeOK, QueuesWellFormed, FiniteBacklog
<1>2. UNCHANGED <<lane, control>>
  BY DEF Consumer, PollFast, PollNothing, ConsumerAdd, ConsumerExit, Select, Receive,
         Forsake, Worker, GetItem, DoneItem, WorkerExit
<1>3. IsFiniteSet(ready'.dirty) /\ IsFiniteSet(ready'.processing)
  <2>1. CASE ConsumerAdd
    <3>1. consumer.item \in Keys /\ ready' = TypedAdd(ready, consumer.item)
      BY <2>1 DEF ConsumerAdd, DrainInv, QueueInv, TypeOK, ConsumerOK
    <3>. QED BY <1>1, <3>1, TypedAddOK, TypedAddCounts
  <2>2. CASE ConsumerExit
    BY <1>1, <2>2, TypedShutDownOK DEF ConsumerExit
  <2>3. ASSUME NEW w \in Workers, GetItem(w)
        PROVE  IsFiniteSet(ready'.dirty) /\ IsFiniteSet(ready'.processing)
    BY <1>1, <2>3, GetItemTakes, FS_AddElement, FS_RemoveElement DEF DrainInv
  <2>4. ASSUME NEW w \in Workers, DoneItem(w)
        PROVE  IsFiniteSet(ready'.dirty) /\ IsFiniteSet(ready'.processing)
    <3>1. active[w] \in ready.processing /\ ready' = TypedDone(ready, active[w])
      BY <2>4 DEF DoneItem, DrainInv, QueueInv, TypeOK, ProcessingIsActive
    <3>. QED BY <1>1, <3>1, TypedDoneOK, FS_RemoveElement
  <2>5. CASE ready' = ready
    BY <1>1, <2>5
  <2>. QED BY <2>1, <2>2, <2>3, <2>4, <2>5
       DEF Consumer, PollFast, PollNothing, Select, Receive, Forsake, Worker, WorkerExit
<1>. QED BY <1>2, <1>3 DEF DrainInv, LanesShut, FiniteBacklog

LEMMA StepDrainInv ==
    ASSUME DrainInv, [Next]_vars
    PROVE  DrainInv'
<1>1. QueueInv'
  BY StepQueueInv DEF DrainInv
<1>2. CASE UNCHANGED vars
  BY <1>1, <1>2 DEF vars, DrainInv, LanesShut, FiniteBacklog
<1>3. CASE ShutDownFast \/ ShutDownSlow
  <2>1. PICK l \in Lanes : lane' = [lane EXCEPT ![l] = TypedShutDown(lane[l])]
    BY <1>3 DEF ShutDownFast, ShutDownSlow, Lanes
  <2>2. \A m \in Lanes : /\ lane'[m].dirty = lane[m].dirty
                         /\ lane[m].shuttingDown => lane'[m].shuttingDown
    <3>1. /\ TypedShutDown(lane[l]).dirty = lane[l].dirty
          /\ TypedShutDown(lane[l]).shuttingDown = TRUE
      BY TypedShutDownOK DEF DrainInv, QueueInv, TypeOK, QueuesWellFormed
    <3>2. \A m \in Lanes : lane'[m] = IF m = l THEN TypedShutDown(lane[l]) ELSE lane[m]
      BY <2>1 DEF DrainInv, QueueInv, TypeOK
    <3>. QED BY <3>1, <3>2
  <2>3. FiniteBacklog'
    BY <1>3, <2>2 DEF ShutDownFast, ShutDownSlow, DrainInv, FiniteBacklog
  <2>4. LanesShut'
    <3>1. \A m \in Lanes : TypedShutDown(lane[m]).shuttingDown = TRUE
      BY TypedShutDownOK DEF DrainInv, QueueInv, TypeOK, QueuesWellFormed
    <3>2. CASE ShutDownFast
      <4>1. lane'["fast"] = TypedShutDown(lane["fast"]) /\ control' = "shutSlow"
        BY <3>2 DEF ShutDownFast, DrainInv, QueueInv, TypeOK, Lanes
      <4>. QED BY <3>1, <4>1 DEF LanesShut, Lanes
    <3>3. CASE ShutDownSlow
      <4>1. /\ lane'["slow"] = TypedShutDown(lane["slow"])
            /\ control = "shutSlow" /\ control' = "lenFast"
        BY <3>3 DEF ShutDownSlow, DrainInv, QueueInv, TypeOK, Lanes
      <4>. QED BY <2>2, <3>1, <4>1 DEF DrainInv, LanesShut, Lanes
    <3>. QED BY <1>3, <3>2, <3>3
  <2>. QED BY <1>1, <2>3, <2>4 DEF DrainInv
<1>4. CASE LenOfFast \/ LenOfSlow \/ LenOfReady \/ Finish
  BY <1>1, <1>4
     DEF LenOfFast, LenOfSlow, LenOfReady, Finish, DrainInv, LanesShut, FiniteBacklog
<1>5. ASSUME NEW l \in Lanes, Pump(l) \/ \E k \in Keys : AddTo(l, k)
      PROVE  DrainInv'
  BY <1>1, <1>5, LanesDrainInv DEF DrainInv
<1>6. CASE Consumer \/ \E w \in Workers : Worker(w)
  BY <1>1, <1>6, ReadyDrainInv DEF DrainInv
<1>. QED BY <1>2, <1>3, <1>4, <1>5, <1>6 DEF Next, Drain

(***************************************************************************)
(* The steps that are left, in the lanes and behind them, are a number.    *)
(***************************************************************************)
LEMMA LeftAtEachPoint ==
    /\ PumpLeft("done") = 6 /\ PumpLeft("send") = 5
    /\ PumpLeft("get") = 1 /\ PumpLeft("closed") = 0
    /\ ConsumerLeft("add") = 4 /\ ConsumerLeft("exited") = 0
    /\ ConsumerLeft("poll") = 1 /\ ConsumerLeft("select") = 1
BY DEF PumpLeft, ConsumerLeft

LEMMA StepsAreCounted ==
    ASSUME DrainInv
    PROVE  /\ \A l \in Lanes : Cardinality(lane[l].dirty) \in Nat /\ LaneLeft(l) \in Nat
           /\ ConsumerLeft(consumer.pc) \in Nat
           /\ IsFiniteSet(consumer.watching) /\ Cardinality(consumer.watching) \in Nat
           /\ Cardinality(ready.dirty) \in Nat
           /\ Cardinality(ready.processing) \in Nat
           /\ IsFiniteSet(Workers \ exited) /\ Cardinality(Workers \ exited) \in Nat
<1>1. ASSUME NEW l \in Lanes
      PROVE  Cardinality(lane[l].dirty) \in Nat /\ LaneLeft(l) \in Nat
  <2>1. Cardinality(lane[l].dirty) \in Nat
    BY FS_CardinalityType DEF DrainInv, FiniteBacklog
  <2>2. PumpLeft(pump[l].pc) \in Nat
    BY LeftAtEachPoint DEF DrainInv, QueueInv, TypeOK
  <2>. QED BY <2>1, <2>2 DEF LaneLeft
<1>2. ConsumerLeft(consumer.pc) \in Nat
  BY LeftAtEachPoint DEF DrainInv, QueueInv, TypeOK
<1>3. IsFiniteSet(consumer.watching)
  <2>1. IsFiniteSet({"fast"} \cup {"slow"})
    BY FS_Singleton, FS_AddElement
  <2>2. consumer.watching \in SUBSET ({"fast"} \cup {"slow"})
    BY DEF DrainInv, QueueInv, TypeOK, Lanes
  <2>. QED BY <2>1, <2>2, FS_Subset
<1>4. IsFiniteSet(Workers \ exited)
  BY WorkersAssumption, FS_Difference
<1>5. IsFiniteSet(ready.dirty) /\ IsFiniteSet(ready.processing)
  BY DEF DrainInv, FiniteBacklog
<1>. QED BY <1>1, <1>2, <1>3, <1>4, <1>5, FS_CardinalityType

(* A step on one lane may leave more to do behind the lanes than there was,*)
(* if it takes more off the lane.                                          *)
LEMMA LaneStepAdvances ==
    ASSUME DrainInv, NEW l \in Lanes, NEW n \in Nat, NEW d \in Nat, d < n,
           \A m \in Lanes \ {l} : lane'[m] = lane[m] /\ pump'[m] = pump[m],
           LaneLeft(l)' = LaneLeft(l) - n,
           BehindLanes' = BehindLanes + d
    PROVE  StepsLeft' < StepsLeft
<1>1. PICK o \in Lanes : o # l
  BY DEF Lanes
<1>2. LaneLeft(o)' = LaneLeft(o)
  BY <1>1 DEF LaneLeft
<1>3. LaneLeft(l) \in Nat /\ LaneLeft(o) \in Nat /\ BehindLanes \in Nat
  BY StepsAreCounted DEF BehindLanes
<1>4. StepsLeft = LaneLeft(l) + LaneLeft(o) + BehindLanes
  BY <1>1, <1>3 DEF StepsLeft, Lanes
<1>5. StepsLeft' = LaneLeft(l)' + LaneLeft(o)' + BehindLanes'
  BY <1>1, <1>2, <1>3 DEF StepsLeft, Lanes
<1>. QED BY <1>2, <1>3, <1>4, <1>5

(* A step behind the lanes.                                                *)
LEMMA StepBehindAdvances ==
    ASSUME DrainInv, UNCHANGED <<lane, pump>>,
           NEW n \in Nat, n > 0, BehindLanes' = BehindLanes - n
    PROVE  StepsLeft' < StepsLeft
<1>1. \A l \in Lanes : LaneLeft(l)' = LaneLeft(l) /\ LaneLeft(l) \in Nat
  BY StepsAreCounted DEF LaneLeft
<1>2. BehindLanes \in Nat
  BY StepsAreCounted DEF BehindLanes
<1>. QED BY <1>1, <1>2 DEF StepsLeft, Lanes

(***************************************************************************)
(* The pumps' steps, and the consumer's when it receives.                  *)
(***************************************************************************)
LEMMA PumpAdvances ==
    ASSUME DrainInv, NEW l \in Lanes, Pump(l)
    PROVE  StepsLeft' < StepsLeft
<1>1. BehindLanes' = BehindLanes + 0
  <2>1. BehindLanes' = BehindLanes
    BY DEF Pump, PumpGet, PumpDone, PumpClose, BehindLanes
  <2>. QED BY <2>1, StepsAreCounted DEF BehindLanes
<1>2. \A m \in Lanes \ {l} : lane'[m] = lane[m] /\ pump'[m] = pump[m]
  BY DEF Pump, PumpGet, PumpDone, PumpClose, DrainInv, QueueInv, TypeOK
<1>3. /\ lane[l] \in TypedQueues(Keys) /\ TypedOK(lane[l]) /\ IsFiniteSet(lane[l].dirty)
      /\ Cardinality(lane[l].dirty) \in Nat
  BY StepsAreCounted DEF DrainInv, QueueInv, TypeOK, QueuesWellFormed, FiniteBacklog
<1>4. LaneLeft(l)' = LaneLeft(l) - 1
  <2>1. CASE PumpGet(l)
    <3>1. /\ pump[l].pc = "get" /\ pump'[l].pc = "done"
          /\ lane'[l] = TypedGet(lane[l]) /\ TypedCanGet(lane[l])
      BY <2>1 DEF PumpGet, DrainInv, QueueInv, TypeOK
    <3>2. /\ lane'[l].dirty = lane[l].dirty \ {Head(lane[l].queue)}
          /\ Head(lane[l].queue) \in lane[l].dirty
      BY <1>3, <3>1, TypedGetOK
    <3>3. Cardinality(lane'[l].dirty) = Cardinality(lane[l].dirty) - 1
      BY <1>3, <3>2, CountLess
    <3>. QED BY <1>3, <3>1, <3>3, LeftAtEachPoint DEF LaneLeft
  <2>2. CASE PumpDone(l)
    <3>1. /\ pump[l].pc = "done" /\ pump'[l].pc = "send"
          /\ lane'[l] = TypedDone(lane[l], pump[l].item)
          /\ pump[l].item \in lane[l].processing
      BY <2>2 DEF PumpDone, DrainInv, QueueInv, TypeOK, PumpOK
    <3>2. lane'[l].dirty = lane[l].dirty
      BY <1>3, <3>1, TypedDoneOK
    <3>. QED BY <1>3, <3>1, <3>2, LeftAtEachPoint DEF LaneLeft
  <2>3. CASE PumpClose(l)
    <3>1. pump[l].pc = "get" /\ pump'[l].pc = "closed" /\ lane' = lane
      BY <2>3 DEF PumpClose, DrainInv, QueueInv, TypeOK
    <3>. QED BY <1>3, <3>1, LeftAtEachPoint DEF LaneLeft
  <2>. QED BY <2>1, <2>2, <2>3 DEF Pump
<1>. QED BY <1>1, <1>2, <1>4, LaneStepAdvances

LEMMA ReceiveAdvances ==
    ASSUME DrainInv, NEW l \in Lanes, Receive(l), consumer.pc \in {"poll", "select"}
    PROVE  StepsLeft' < StepsLeft
<1>1. BehindLanes' = BehindLanes + 3
  <2>1. consumer'.pc = "add" /\ consumer'.watching = consumer.watching
    BY DEF Receive, DrainInv, QueueInv, TypeOK
  <2>2. ConsumerLeft(consumer'.pc) = ConsumerLeft(consumer.pc) + 3
    BY <2>1, LeftAtEachPoint
  <2>. QED BY <2>1, <2>2, StepsAreCounted DEF Receive, BehindLanes
<1>2. \A m \in Lanes \ {l} : lane'[m] = lane[m] /\ pump'[m] = pump[m]
  BY DEF Receive, DrainInv, QueueInv, TypeOK
<1>3. LaneLeft(l)' = LaneLeft(l) - 4
  <2>1. pump[l].pc = "send" /\ pump'[l].pc = "get" /\ lane' = lane
    BY DEF Receive, DrainInv, QueueInv, TypeOK
  <2>. QED BY <2>1, LeftAtEachPoint, StepsAreCounted DEF LaneLeft
<1>. QED BY <1>1, <1>2, <1>3, LaneStepAdvances

(* A lane that the consumer no longer watches is closed, and may be found  *)
(* closed again: that is a poll.                                           *)
LEMMA ForsakeAdvances ==
    ASSUME DrainInv, NEW l \in Lanes, Forsake(l), consumer.pc \in {"poll", "select"}
    PROVE  \/ StepsLeft' < StepsLeft
           \/ /\ UNCHANGED <<lane, pump, ready, active, exited>>
              /\ UNCHANGED <<consumer.item, consumer.watching>>
<1>1. /\ UNCHANGED <<lane, pump, ready, active, exited>>
      /\ consumer'.pc = "poll"
      /\ consumer'.item = consumer.item
      /\ consumer'.watching = consumer.watching \ {l}
  BY DEF Forsake, DrainInv, QueueInv, TypeOK
<1>2. CASE l \in consumer.watching
  <2>1. ConsumerLeft(consumer'.pc) = ConsumerLeft(consumer.pc)
    BY <1>1, LeftAtEachPoint
  <2>2. Cardinality(consumer'.watching) = Cardinality(consumer.watching) - 1
    BY <1>1, <1>2, CountLess, StepsAreCounted
  <2>3. BehindLanes' = BehindLanes - 1
    BY <1>1, <2>1, <2>2, StepsAreCounted DEF BehindLanes
  <2>. QED BY <1>1, <2>3, StepBehindAdvances
<1>3. CASE l \notin consumer.watching
  BY <1>1, <1>3
<1>. QED BY <1>2, <1>3

(***************************************************************************)
(* The steps on the consumer queue.                                        *)
(***************************************************************************)
LEMMA ConsumerAddAdvances ==
    ASSUME DrainInv, ConsumerAdd
    PROVE  StepsLeft' < StepsLeft
<1>1. /\ UNCHANGED <<lane, pump, exited>>
      /\ consumer'.watching = consumer.watching
      /\ consumer.pc = "add" /\ consumer'.pc = "poll"
      /\ consumer.item \in Keys
      /\ ready' = TypedAdd(ready, consumer.item)
      /\ ready \in TypedQueues(Keys) /\ TypedOK(ready)
  BY DEF ConsumerAdd, DrainInv, QueueInv, TypeOK, ConsumerOK, QueuesWellFormed
<1>2. ConsumerLeft(consumer'.pc) = ConsumerLeft(consumer.pc) - 3
  BY <1>1, LeftAtEachPoint
<1>3. ready'.processing = ready.processing
  BY <1>1, TypedAddOK
<1>4. PICK m \in {0, 1} : Cardinality(ready'.dirty) = Cardinality(ready.dirty) + m
  BY <1>1, TypedAddCounts DEF DrainInv, FiniteBacklog
<1>5. BehindLanes' = BehindLanes - (3 - 2 * m)
  BY <1>1, <1>2, <1>3, <1>4, StepsAreCounted DEF BehindLanes
<1>. QED BY <1>1, <1>5, StepBehindAdvances

LEMMA ConsumerExitAdvances ==
    ASSUME DrainInv, ConsumerExit
    PROVE  StepsLeft' < StepsLeft
<1>1. /\ UNCHANGED <<lane, pump, exited>>
      /\ consumer'.watching = consumer.watching
      /\ consumer.pc = "poll" /\ consumer'.pc = "exited"
  BY DEF ConsumerExit, DrainInv, QueueInv, TypeOK
<1>2. ready'.dirty = ready.dirty /\ ready'.processing = ready.processing
  BY TypedShutDownOK DEF ConsumerExit, DrainInv, QueueInv, TypeOK, QueuesWellFormed
<1>3. ConsumerLeft(consumer'.pc) = ConsumerLeft(consumer.pc) - 1
  BY <1>1, LeftAtEachPoint
<1>4. BehindLanes' = BehindLanes - 1
  BY <1>1, <1>2, <1>3, StepsAreCounted DEF BehindLanes
<1>. QED BY <1>1, <1>4, StepBehindAdvances

LEMMA WorkerAdvances ==
    ASSUME DrainInv, NEW w \in Workers, Worker(w)
    PROVE  StepsLeft' < StepsLeft
<1>1. UNCHANGED <<lane, pump, consumer>>
  BY DEF Worker, GetItem, DoneItem, WorkerExit
<1>2. BehindLanes' = BehindLanes - 1
  <2>1. CASE GetItem(w)
    <3>. DEFINE k == Head(ready.queue)
    <3>1. /\ k \in ready.dirty /\ k \notin ready.processing
          /\ ready'.dirty = ready.dirty \ {k}
          /\ ready'.processing = ready.processing \cup {k}
          /\ exited' = exited
      BY <2>1, TypedGetOK DEF GetItem, DrainInv, QueueInv, TypeOK, QueuesWellFormed
    <3>. HIDE DEF k
    <3>2. /\ Cardinality(ready'.dirty) = Cardinality(ready.dirty) - 1
          /\ Cardinality(ready'.processing) = Cardinality(ready.processing) + 1
      BY <3>1, CountLess, CountMore DEF DrainInv, FiniteBacklog
    <3>. QED BY <1>1, <3>1, <3>2, StepsAreCounted DEF BehindLanes
  <2>2. CASE DoneItem(w)
    <3>1. /\ active[w] \in ready.processing
          /\ ready' = TypedDone(ready, active[w])
          /\ exited' = exited
      BY <2>2 DEF DoneItem, DrainInv, QueueInv, TypeOK, ProcessingIsActive
    <3>2. /\ ready'.dirty = ready.dirty
          /\ ready'.processing = ready.processing \ {active[w]}
      BY <3>1, TypedDoneOK DEF DrainInv, QueueInv, TypeOK, QueuesWellFormed
    <3>3. Cardinality(ready'.processing) = Cardinality(ready.processing) - 1
      BY <3>1, <3>2, CountLess DEF DrainInv, FiniteBacklog
    <3>. QED BY <1>1, <3>1, <3>2, <3>3, StepsAreCounted DEF BehindLanes
  <2>3. CASE WorkerExit(w)
    <3>1. /\ w \in Workers \ exited
          /\ Workers \ exited' = (Workers \ exited) \ {w}
          /\ ready' = ready
      BY <2>3 DEF WorkerExit
    <3>2. Cardinality(Workers \ exited') = Cardinality(Workers \ exited) - 1
      BY <3>1, CountLess, StepsAreCounted
    <3>. QED BY <1>1, <3>1, <3>2, StepsAreCounted DEF BehindLanes
  <2>. QED BY <2>1, <2>2, <2>3 DEF Worker
<1>. QED BY <1>1, <1>2, StepBehindAdvances

(* What is added once both lanes are shut down is ignored.                 *)
LEMMA AddIgnored ==
    ASSUME DrainInv, control \notin {"running", "shutSlow"},
           NEW l \in Lanes, NEW k \in Keys, AddTo(l, k)
    PROVE  lane' = lane
<1>1. lane[l] \in TypedQueues(Keys) /\ TypedOK(lane[l]) /\ lane[l].shuttingDown
  BY DEF DrainInv, LanesShut, Lanes, QueueInv, TypeOK, QueuesWellFormed
<1>2. TypedAdd(lane[l], k) = lane[l]
  BY <1>1, TypedAddOK
<1>. QED BY <1>2 DEF AddTo, DrainInv, QueueInv, TypeOK

(***************************************************************************)
(* Once both lanes are shut down every step leaves less to do, or polls or *)
(* reads a length: the drain cannot go on for ever for want of progress.   *)
(***************************************************************************)
THEOREM DrainAdvances == Spec => ShutdownAdvances
<1>. DEFINE Idle == /\ UNCHANGED <<lane, pump, ready, active, exited>>
                    /\ UNCHANGED <<consumer.item, consumer.watching>>
<1>1. ASSUME DrainInv, [Next]_vars, control \notin {"running", "shutSlow"}
      PROVE  StepsLeft' < StepsLeft \/ Idle
  <2>. USE <1>1
  <2>1. ASSUME NEW l \in Lanes, Pump(l)
        PROVE  StepsLeft' < StepsLeft
    BY <2>1, PumpAdvances
  <2>2. ASSUME NEW l \in Lanes, NEW k \in Keys, AddTo(l, k)
        PROVE  Idle
    BY <2>2, AddIgnored DEF AddTo
  <2>3. CASE Consumer
    <3>1. CASE PollNothing
      BY <3>1 DEF PollNothing, DrainInv, QueueInv, TypeOK
    <3>2. ASSUME NEW l \in Lanes, Receive(l) \/ Forsake(l), consumer.pc \in {"poll", "select"}
          PROVE  StepsLeft' < StepsLeft \/ Idle
      BY <3>2, ReceiveAdvances, ForsakeAdvances
    <3>. QED BY <2>3, <3>1, <3>2, ConsumerAddAdvances, ConsumerExitAdvances
             DEF Consumer, PollFast, Select, Lanes
  <2>4. ASSUME NEW w \in Workers, Worker(w)
        PROVE  StepsLeft' < StepsLeft
    BY <2>4, WorkerAdvances
  <2>5. CASE Drain \/ UNCHANGED vars
    BY <2>5 DEF Drain, ShutDownSlow, LenOfFast, LenOfSlow, LenOfReady, Finish, vars
  <2>. QED BY <2>1, <2>2, <2>3, <2>4, <2>5 DEF Next, ShutDownFast
<1>2. DrainInv /\ [Next]_vars =>
          [control \notin {"running", "shutSlow"} => StepsLeft' < StepsLeft \/ Idle]_vars
  BY <1>1
<1>. QED BY <1>2, InitDrainInv, StepDrainInv, PTL DEF Spec, ShutdownAdvances

=============================================================================
