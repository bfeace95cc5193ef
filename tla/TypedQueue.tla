---------------------------- MODULE TypedQueue -----------------------------
(***************************************************************************)
(* client-go's workqueue.Typed (k8s.io/client-go/util/workqueue/queue.go): *)
(* a FIFO queue that holds each item once.  Every method runs under the    *)
(* queue's mutex, so each is an operator from a queue to the queue it      *)
(* leaves behind; who calls them, and in which order, is the business of   *)
(* the modules that use the queue (TwoLaneQueue has three of them).        *)
(*                                                                         *)
(*   queue       the order in which items will be handed out               *)
(*   dirty       the items that need processing                            *)
(*   processing  the items handed out and not yet Done                     *)
(***************************************************************************)
EXTENDS Naturals, Sequences, Functions

TypedQueues(Items) ==
    [ queue : Seq(Items),
      dirty : SUBSET Items,
      processing : SUBSET Items,
      shuttingDown : BOOLEAN ]

EmptyTyped ==
    [ queue |-> <<>>, dirty |-> {}, processing |-> {}, shuttingDown |-> FALSE ]

(* Mutants of TypedAdd: an item is queued once more although it is dirty;  *)
(* an item is queued although it is being processed; an item is accepted   *)
(* although the queue is shutting down.                                    *)
TypedAddTwice(q, i) ==
    IF q.shuttingDown THEN q
    ELSE [q EXCEPT !.dirty = @ \cup {i},
                   !.queue = IF i \in q.processing THEN @ ELSE Append(@, i)]

TypedAddInProcess(q, i) ==
    IF q.shuttingDown \/ i \in q.dirty THEN q
    ELSE [q EXCEPT !.dirty = @ \cup {i}, !.queue = Append(@, i)]

TypedAddLate(q, i) ==
    IF i \in q.dirty THEN q
    ELSE [q EXCEPT !.dirty = @ \cup {i},
                   !.queue = IF i \in q.processing THEN @ ELSE Append(@, i)]

(* An item that is being processed becomes dirty without being queued:     *)
(* TypedDone queues it.  A queue that is shutting down ignores additions.  *)
TypedAdd(q, i) ==
    IF q.shuttingDown \/ i \in q.dirty THEN q
    ELSE [q EXCEPT !.dirty = @ \cup {i},
                   !.queue = IF i \in q.processing THEN @ ELSE Append(@, i)]

(* Get returns an item, or that the queue is shut down, or blocks.         *)
TypedCanGet(q) == q.queue # <<>>
TypedIsClosed(q) == q.queue = <<>> /\ q.shuttingDown

TypedGet(q) ==
    [q EXCEPT !.queue = Tail(@),
              !.processing = @ \cup {Head(q.queue)},
              !.dirty = @ \ {Head(q.queue)}]

(* Mutant of TypedDone: what became dirty in between is not queued.        *)
TypedDoneForgets(q, i) == [q EXCEPT !.processing = @ \ {i}]

TypedDone(q, i) ==
    [q EXCEPT !.processing = @ \ {i},
              !.queue = IF i \in q.dirty THEN Append(@, i) ELSE @]

TypedShutDown(q) == [q EXCEPT !.shuttingDown = TRUE]

(***************************************************************************)
(* "Every element of queue should be in the dirty set and not in the       *)
(* processing set" (queue.go:190-192), an item is queued at most once, and *)
(* a dirty item that nobody is processing is queued: it cannot be lost.    *)
(***************************************************************************)
TypedOK(q) ==
    /\ Range(q.queue) = q.dirty \ q.processing
    /\ \A i, j \in DOMAIN q.queue : q.queue[i] = q.queue[j] => i = j

=============================================================================
