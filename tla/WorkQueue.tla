----------------------------- MODULE WorkQueue -----------------------------
(***************************************************************************)
(* What a controller's work queue promises to those who add keys and to    *)
(* the worker goroutines that take them, whatever the queue is made of:    *)
(* knative's Impl.workQueue (vendor/knative.dev/pkg/controller).           *)
(*                                                                         *)
(*   - an added key stays pending until a worker is handed it;             *)
(*   - several additions of a key may be merged into one hand-over, and a  *)
(*     key is handed over no more often than it was added;                 *)
(*   - no key is ever held by two workers at once.                         *)
(*                                                                         *)
(* TwoLaneQueue implements this module; LabelerController is built on it.  *)
(***************************************************************************)
EXTENDS Naturals

CONSTANTS
    Keys,        \* the namespaced names that may be queued
    Workers,     \* the worker goroutines of the controller
    None,        \* "no key": the modules that use this one assume it is none
    MaxCopies    \* bound: copies of one key that the queue may hold

VARIABLES
    pending,     \* pending[k]: hand-overs of k that the queue still owes
    active       \* active[w]: the key that worker w holds, or None

queueVars == <<pending, active>>

QueueTypeOK ==
    /\ pending \in [Keys -> 0 .. MaxCopies]
    /\ active \in [Workers -> Keys \cup {None}]

QueueInit ==
    /\ pending = [k \in Keys |-> 0]
    /\ active = [w \in Workers |-> None]

(* Mutant of Add: a key that a worker holds is not added again.            *)
AddUnlessHeld(k) ==
    /\ IF \E w \in Workers : active[w] = k THEN pending' = pending
                                          ELSE pending' = [pending EXCEPT ![k] = 1]
    /\ UNCHANGED active

(* An addition is one more hand-over, unless one that is owed already will *)
(* do for both.                                                            *)
Add(k) ==
    /\ \/ /\ pending[k] < MaxCopies
          /\ pending' = [pending EXCEPT ![k] = @ + 1]
       \/ /\ pending[k] > 0
          /\ pending' = pending
    /\ UNCHANGED active

(* Two hand-overs that are owed of the same key become one.                *)
Coalesce(k) ==
    /\ pending[k] > 1
    /\ pending' = [pending EXCEPT ![k] = @ - 1]
    /\ UNCHANGED active

(* Mutant of Get: two workers may hold one key.                            *)
GetShared(w, k) ==
    /\ active[w] = None
    /\ pending[k] > 0
    /\ active' = [active EXCEPT ![w] = k]
    /\ pending' = [pending EXCEPT ![k] = @ - 1]

Get(w, k) ==
    /\ active[w] = None
    /\ pending[k] > 0
    /\ \A v \in Workers : active[v] # k
    /\ active' = [active EXCEPT ![w] = k]
    /\ pending' = [pending EXCEPT ![k] = @ - 1]

Done(w) ==
    /\ active[w] # None
    /\ active' = [active EXCEPT ![w] = None]
    /\ UNCHANGED pending

QueueNext ==
    \/ \E k \in Keys : Add(k) \/ Coalesce(k)
    \/ \E w \in Workers : Done(w) \/ \E k \in Keys : Get(w, k)

QueueSpec == QueueInit /\ [][QueueNext]_queueVars

(* Every key that is owed again and again while some worker could take it  *)
(* is taken: what the code that waits for a reconciliation relies on.      *)
QueueFairness ==
    \A k \in Keys : SF_queueVars(\E w \in Workers : Get(w, k))

(***************************************************************************)
(* No key is with two workers: "never processing the same item             *)
(* simultaneously in two different workers" (pkg/controller,               *)
(* controller.go:195-202).                                                 *)
(***************************************************************************)
OneWorkerPerKey ==
    \A v, w \in Workers : active[v] = active[w] /\ active[v] # None => v = w

=============================================================================
