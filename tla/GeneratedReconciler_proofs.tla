--------------------- MODULE GeneratedReconciler_proofs --------------------
(***************************************************************************)
(* The generated reconciler, whatever its reconciler implements and for    *)
(* any number of replicas, finalizers, writes and faults: an object that   *)
(* was ever seen with our finalizer still has it, or is finalized.         *)
(***************************************************************************)
EXTENDS GeneratedReconciler, SequenceTheorems, TLAPS

Held(uid) == Current.uid = uid /\ Own \in Current.finalizers

(* Our finalizer leaves an object only after FinalizeKind.                 *)
OwnKept ==
    \A i \in DOMAIN history :
        Own \in history[i].finalizers => Held(history[i].uid) \/ history[i].uid \in finalized

ReconciledKept ==
    "Finalizer" \in implements => \A uid \in reconciled : Held(uid) \/ uid \in finalized

(* A request, on its way or late: what it says of the version it names.    *)
Fits(q) ==
    /\ q.version \in DOMAIN history
    /\ q.finalizers \cap Foreign = history[q.version].finalizers \cap Foreign
    /\ Own \in history[q.version].finalizers \ q.finalizers
           => history[q.version].uid \in finalized

Sane(x) ==
    /\ x.shared = {}
    /\ x.pc \in {"set", "reconcile", "finalize", "clear"} => x.version \in DOMAIN history
    /\ x.pc \in {"set", "reconcile"} =>
           history[x.version] # Gone /\ ~history[x.version].deleting
    /\ x.pc = "reconcile" /\ "Finalizer" \in implements =>
           Own \in history[x.version].finalizers
    /\ x.pc = "clear" /\ Cleans(x.event) => history[x.version].uid \in finalized

IInv ==
    /\ TypeOK
    /\ OwnKept
    /\ ReconciledKept
    /\ \A q \in late : Fits(q)
    /\ \A r \in Replicas : Sane(worker[r])
    /\ \A r \in Replicas : touched[r] = {}

-----------------------------------------------------------------------------
(* A step leaves the versions there are, adds one at most, and does not    *)
(* take our finalizer off an object that is not finalized.                 *)
Keeps(v) ==
    Own \in Current.finalizers =>
        (v.uid = Current.uid /\ Own \in v.finalizers) \/ Current.uid \in finalized

Grows ==
    /\ reconciler' = reconciler
    /\ finalized \subseteq finalized'
    /\ \/ history' = history
       \/ \E v \in Objects : history' = Append(history, v) /\ Keeps(v)

LEMMA CurrentType == ASSUME TypeOK PROVE Len(history) \in DOMAIN history /\ Current \in Objects
  <1>1. history \in Seq(Objects) /\ history # <<>>
    BY DEF TypeOK
  <1>2. Len(history) \in Nat \ {0} /\ DOMAIN history = 1 .. Len(history)
    BY <1>1, LenProperties, EmptySeq
  <1>3. Len(history) \in DOMAIN history
    BY <1>2
  <1> QED BY <1>1, <1>3, ElementOfSeq DEF Current

LEMMA VersionsStay ==
    ASSUME TypeOK, Grows
    PROVE  /\ history' \in Seq(Objects) /\ history' # <<>>
           /\ DOMAIN history \subseteq DOMAIN history'
           /\ \A i \in DOMAIN history : history'[i] = history[i] /\ history[i] \in Objects
  <1>1. history \in Seq(Objects) /\ history # <<>>
    BY DEF TypeOK
  <1>2. DOMAIN history = 1 .. Len(history) /\ Len(history) \in Nat
    BY <1>1, LenProperties
  <1>3. \A i \in DOMAIN history : history[i] \in Objects
    BY <1>1, <1>2, ElementOfSeq
  <1>4. CASE history' = history
    BY <1>1, <1>3, <1>4
  <1>5. ASSUME NEW v \in Objects, history' = Append(history, v)
        PROVE  /\ history' \in Seq(Objects) /\ history' # <<>>
               /\ DOMAIN history \subseteq DOMAIN history'
               /\ \A i \in DOMAIN history : history'[i] = history[i]
    <2>1. /\ history' \in Seq(Objects)
          /\ Len(history') = Len(history) + 1
          /\ \A i \in 1 .. Len(history) : history'[i] = history[i]
      BY <1>1, <1>5, AppendProperties
    <2>2. DOMAIN history' = 1 .. Len(history')
      BY <2>1, LenProperties
    <2>3. history' # <<>>
      BY <2>1, <1>2
    <2> QED BY <1>2, <2>1, <2>2, <2>3
  <1> QED BY <1>3, <1>4, <1>5 DEF Grows

LEMMA AppendCurrent ==
    ASSUME TypeOK, NEW v \in Objects, history' = Append(history, v)
    PROVE  /\ Current' = v /\ Len(history)' = Len(history) + 1
           /\ DOMAIN history' = DOMAIN history \cup {Len(history) + 1}
           /\ history'[Len(history) + 1] = v
  <1>1. history \in Seq(Objects)
    BY DEF TypeOK
  <1>2. /\ Len(history') = Len(history) + 1 /\ history'[Len(history) + 1] = v
        /\ history' \in Seq(Objects)
    BY <1>1, AppendProperties
  <1>3. DOMAIN history' = 1 .. Len(history) + 1 /\ DOMAIN history = 1 .. Len(history)
        /\ Len(history) \in Nat
    BY <1>1, <1>2, LenProperties
  <1> QED BY <1>2, <1>3 DEF Current

LEMMA HeldStays ==
    ASSUME TypeOK, Grows, NEW uid, Held(uid)
    PROVE  Held(uid)' \/ uid \in finalized'
  <1>1. CASE history' = history
    BY <1>1 DEF Held, Current
  <1>2. ASSUME NEW v \in Objects, history' = Append(history, v), Keeps(v)
        PROVE  Held(uid)' \/ uid \in finalized'
    BY <1>2, AppendCurrent DEF Held, Keeps, Grows
  <1> QED BY <1>1, <1>2 DEF Grows

LEMMA OwnStays ==
    ASSUME TypeOK, OwnKept, Grows
    PROVE  OwnKept'
  <1>1. ASSUME NEW i \in DOMAIN history, Own \in history[i].finalizers
        PROVE  Held(history[i].uid)' \/ history[i].uid \in finalized'
    BY <1>1, HeldStays DEF OwnKept, Grows
  <1>2. CASE history' = history
    BY <1>1, <1>2 DEF OwnKept, Held, Current
  <1>3. ASSUME NEW v \in Objects, history' = Append(history, v)
        PROVE  OwnKept'
    <2>1. \A i \in DOMAIN history' :
        i \in DOMAIN history \/ (i = Len(history) + 1 /\ history'[i] = v)
      BY <1>3, AppendCurrent
    <2>2. Own \in v.finalizers => Current'.uid = v.uid /\ Own \in Current'.finalizers
      BY <1>3, AppendCurrent
    <2>3. \A i \in DOMAIN history : history'[i] = history[i]
      BY VersionsStay
    <2> QED BY <1>1, <2>1, <2>2, <2>3 DEF OwnKept, Held
  <1> QED BY <1>2, <1>3 DEF Grows

LEMMA FitsStays ==
    ASSUME TypeOK, Grows, NEW q, Fits(q)
    PROVE  Fits(q)'
  BY VersionsStay DEF Fits, Grows

LEMMA SaneStays ==
    ASSUME TypeOK, Grows, NEW x, Sane(x)
    PROVE  Sane(x)'
  BY VersionsStay DEF Sane, Grows, implements

LEMMA NothingShared == DeepCopy = {}
  BY DEF DeepCopy, DeepCopyIntoSpec, DeepCopyIntoMeta, Parts

(* What every step but a write of the API server does to the variables.    *)
LEMMA StepInv ==
    ASSUME IInv, Grows,
           late' \in SUBSET Requests, \A q \in late' \ late : Fits(q),
           worker' \in [Replicas -> WorkerStates],
           \A r \in Replicas : worker'[r] = worker[r] \/ (Sane(worker[r]))',
           cacheAt' \in [Replicas -> Nat], \A r \in Replicas : cacheAt'[r] \in DOMAIN history',
           touched' \in [Replicas -> SUBSET Parts], \A r \in Replicas : touched'[r] = {},
           leader' \in [Replicas -> BOOLEAN], queued' \in [Replicas -> BOOLEAN],
           writes' \in Nat, faults' \in Nat,
           finalized' \in SUBSET Nat, reconciled' \in SUBSET Nat,
           "Finalizer" \in implements =>
               \A uid \in reconciled' \ reconciled : Held(uid) \/ uid \in finalized
    PROVE  IInv'
  <1> USE DEF IInv
  <1>1. OwnKept'
    BY OwnStays
  <1>2. ReconciledKept'
    BY HeldStays DEF ReconciledKept, Grows, implements
  <1>3. \A q \in late' : (Fits(q))'
    BY FitsStays
  <1>4. \A r \in Replicas : (Sane(worker[r]))'
    <2>1. ASSUME NEW r \in Replicas, worker'[r] = worker[r]
          PROVE  (Sane(worker[r]))'
      <3>1. PICK x : x = worker[r]
        OBVIOUS
      <3>2. Sane(x)'
        BY <3>1, SaneStays
      <3> QED BY <2>1, <3>1, <3>2 DEF Sane
    <2> QED BY <2>1
  <1>5. TypeOK'
    <2>1. \A r \in Replicas : worker'[r].pc \in {"set", "reconcile", "finalize", "clear"} =>
               worker'[r].version \in DOMAIN history'
      BY <1>4 DEF Sane
    <2> QED BY <2>1, VersionsStay DEF TypeOK, Grows
  <1> QED BY <1>1, <1>2, <1>3, <1>4, <1>5

LEMMA InitInv == Init => IInv
  <1> SUFFICES ASSUME Init PROVE IInv
    OBVIOUS
  <1>1. history \in Seq(Objects) /\ history # <<>> /\ DOMAIN history = {1}
    BY DEF Init, Objects, Gone
  <1>2. worker \in [Replicas -> WorkerStates] /\ \A r \in Replicas : worker[r] = Idle
    BY DEF Init, WorkerStates, Idle, Events
  <1>3. TypeOK
    BY <1>1, <1>2 DEF Init, TypeOK, Idle
  <1>4. \A r \in Replicas : Sane(worker[r])
    BY <1>2 DEF Sane, Idle
  <1> QED BY <1>1, <1>3, <1>4 DEF Init, IInv, OwnKept, ReconciledKept, Gone

-----------------------------------------------------------------------------
(* What is stored keeps the finalizer if what was sent keeps it.           *)
LEMMA StoreGrows ==
    ASSUME TypeOK, NEW v \in Objects, Store(v), Keeps(v),
           reconciler' = reconciler, finalized' = finalized
    PROVE  /\ Grows /\ Settled(v) \in Objects
           /\ history' = Append(history, Settled(v))
  <1>1. Settled(v) \in Objects
    BY DEF Settled, Gone, Objects
  <1>2. Keeps(Settled(v))
    BY DEF Keeps, Settled
  <1> QED BY <1>1, <1>2 DEF Grows, Store

LEMMA LandGrows ==
    ASSUME IInv, NEW q \in Requests, Fits(q), Applies(q), Land(q),
           reconciler' = reconciler, finalized' = finalized
    PROVE  /\ Grows
           /\ Current'.finalizers \cap Foreign = Current.finalizers \cap Foreign
           /\ Current' # Gone => Current'.uid = Current.uid
           /\ history' = Append(history, Current')
           /\ Current' \in Objects
           /\ Current' = Settled([Current EXCEPT !.finalizers = q.finalizers])
  <1> DEFINE v == [Current EXCEPT !.finalizers = q.finalizers]
  <1>1. TypeOK /\ Current \in Objects /\ history[q.version] = Current
    BY CurrentType DEF IInv, Applies, Current
  <1>2. v \in Objects /\ v.uid = Current.uid /\ v.finalizers = q.finalizers
    BY <1>1 DEF Objects, Requests
  <1>3. Keeps(v)
    BY <1>1, <1>2 DEF Keeps, Fits
  <1>4. Store(v)
    BY DEF Land
  <1>5. q.finalizers \cap Foreign = Current.finalizers \cap Foreign
    BY <1>1 DEF Fits
  <1> HIDE DEF v
  <1>6. Grows /\ Settled(v) \in Objects /\ history' = Append(history, Settled(v))
    BY <1>1, <1>2, <1>3, <1>4, StoreGrows
  <1>7. Current' = Settled(v)
    BY <1>1, <1>6, AppendCurrent
  <1> QED BY <1>2, <1>5, <1>6, <1>7 DEF Settled, Gone, v

LEMMA WriteInv ==
    ASSUME IInv, NEW v \in Objects, Write(v), Keeps(v)
    PROVE  IInv'
  <1> USE DEF Write, informer, past
  <1>1. Grows
    BY StoreGrows DEF IInv
  <1>2. \A r \in Replicas : cacheAt[r] \in DOMAIN history'
    BY <1>1, VersionsStay DEF IInv, TypeOK
  <1> QED BY <1>1, <1>2, StepInv DEF IInv, TypeOK

LEMMA UsersInv == ASSUME IInv, Users PROVE IInv'
  <1>1. Current \in Objects /\ TypeOK /\ Len(history) \in Nat
    BY CurrentType, LenProperties DEF IInv, TypeOK
  <1>2. CASE Create
    <2>1. Created \in Objects /\ Keeps(Created)
      BY <1>1, <1>2 DEF Create, Created, Objects, Keeps, Gone
    <2> QED BY <1>2, <2>1, WriteInv DEF Create
  <1>3. CASE Delete
    <2> DEFINE v == [Current EXCEPT !.deleting = TRUE]
    <2>1. v \in Objects /\ Keeps(v)
      BY <1>1 DEF Objects, Keeps
    <2> QED BY <1>3, <2>1, WriteInv DEF Delete
  <1>4. ASSUME NEW f \in Foreign, AddForeign(f) PROVE IInv'
    <2> DEFINE v == [Current EXCEPT !.finalizers = @ \cup {f}]
    <2>1. v \in Objects /\ Keeps(v)
      BY <1>1 DEF Objects, Keeps, Finalizers
    <2> QED BY <1>4, <2>1, WriteInv DEF AddForeign
  <1>5. ASSUME NEW f \in Foreign, RemoveForeign(f) PROVE IInv'
    <2> DEFINE v == [Current EXCEPT !.finalizers = @ \ {f}]
    <2>1. v \in Objects /\ Keeps(v)
      BY <1>1, OwnIsNotForeign DEF Objects, Keeps, Finalizers
    <2> QED BY <1>5, <2>1, WriteInv DEF RemoveForeign
  <1> QED BY <1>2, <1>3, <1>4, <1>5 DEF Users

LEMMA LateLandsInv == ASSUME IInv, NEW q \in late, LateLands(q) PROVE IInv'
  <1> USE DEF LateLands, informer, past
  <1>1. q \in Requests /\ Fits(q) /\ TypeOK
    BY DEF IInv, TypeOK
  <1>2. Grows
    BY <1>1, LandGrows DEF Grows
  <1>3. \A r \in Replicas : cacheAt[r] \in DOMAIN history'
    BY <1>1, <1>2, VersionsStay DEF TypeOK
  <1> QED BY <1>1, <1>2, <1>3, StepInv DEF IInv, TypeOK

-----------------------------------------------------------------------------
(* Steps of a replica.                                                     *)

LEMMA MovesType ==
    ASSUME IInv, NEW r \in Replicas, NEW from, NEW to \in WorkerStates, Moves(r, from, to)
    PROVE  /\ worker' \in [Replicas -> WorkerStates]
           /\ worker[r].pc = from /\ worker'[r] = to
           /\ \A s \in Replicas \ {r} : worker'[s] = worker[s]
  BY DEF Moves, IInv, TypeOK

LEMMA IdleType == Idle \in WorkerStates /\ Idle.pc = "idle" /\ Idle.shared = {}
  BY DEF Idle, WorkerStates, Events

LEMMA QuietInv ==
    ASSUME IInv, UNCHANGED <<reconciler, api, past>>,
           worker' \in [Replicas -> WorkerStates],
           \A r \in Replicas : worker'[r] = worker[r] \/ (Sane(worker[r]))',
           cacheAt' \in [Replicas -> Nat], \A r \in Replicas : cacheAt'[r] \in DOMAIN history,
           touched' \in [Replicas -> SUBSET Parts], \A r \in Replicas : touched'[r] = {},
           leader' \in [Replicas -> BOOLEAN], queued' \in [Replicas -> BOOLEAN],
           writes' \in Nat, faults' \in Nat
    PROVE  IInv'
  BY StepInv DEF IInv, TypeOK, Grows, api, past

LEMMA ReturnsInv ==
    ASSUME IInv, NEW r \in Replicas, NEW from, NEW event, Returns(r, from, event)
    PROVE  /\ worker' \in [Replicas -> WorkerStates]
           /\ \A s \in Replicas : worker'[s] = worker[s] \/ worker'[s] = Idle
           /\ worker[r].pc = from /\ worker'[r] = Idle
           /\ queued' \in [Replicas -> BOOLEAN]
  <1>1. queued' \in [Replicas -> BOOLEAN]
    BY DEF Returns, Retried, IInv, TypeOK
  <1>2. Moves(r, from, Idle)
    BY DEF Returns
  <1> QED BY <1>1, <1>2, MovesType, IdleType

LEMMA IdleSane == \A x : x = Idle => (Sane(x))'
  BY DEF Sane, Idle

LEMMA CacheInv ==
    ASSUME IInv, NEW r \in Replicas,
           \/ CacheEvent(r) \/ Resync(r) \/ Elected(r) \/ Demoted(r) \/ Restart(r)
    PROVE  IInv'
  <1> USE DEF IInv, TypeOK, informer
  <1>1. Len(history) \in Nat /\ DOMAIN history = 1 .. Len(history)
    BY LenProperties
  <1>2. CASE CacheEvent(r)
    <2>1. cacheAt' \in [Replicas -> Nat] /\ \A s \in Replicas : cacheAt'[s] \in DOMAIN history
      BY <1>1, <1>2 DEF CacheEvent
    <2> QED BY <1>2, <2>1, QuietInv DEF CacheEvent
  <1>3. CASE Resync(r)
    BY <1>3, QuietInv DEF Resync
  <1>4. CASE Elected(r)
    BY <1>4, QuietInv DEF Elected
  <1>5. CASE Demoted(r)
    BY <1>5, QuietInv DEF Demoted, Fault
  <1>6. CASE Restart(r)
    <2>1. cacheAt' \in [Replicas -> Nat] /\ \A s \in Replicas : cacheAt'[s] \in DOMAIN history
      BY <1>1, <1>6 DEF Restart
    <2>2. queued' \in [Replicas -> BOOLEAN]
      BY <1>6 DEF Restart
    <2>3. worker' \in [Replicas -> WorkerStates]
          /\ \A s \in Replicas : worker'[s] = worker[s] \/ worker'[s] = Idle
      BY <1>6, IdleType DEF Restart
    <2>4. \A s \in Replicas : worker'[s] = worker[s] \/ (Sane(worker[s]))'
      BY <2>3 DEF Sane, Idle
    <2> QED BY <1>6, <2>1, <2>2, <2>3, <2>4, QuietInv DEF Restart, Fault
  <1> QED BY <1>2, <1>3, <1>4, <1>5, <1>6

LEMMA GoesIdle ==
    ASSUME IInv, NEW r \in Replicas, NEW from, NEW event, Returns(r, from, event),
           UNCHANGED <<reconciler, api, informer, leader, writes, faults, past>>
    PROVE  IInv'
  <1>1. \A s \in Replicas : worker'[s] = worker[s] \/ (Sane(worker[s]))'
    BY ReturnsInv DEF Sane, Idle
  <1> QED BY <1>1, ReturnsInv, QuietInv DEF IInv, TypeOK, informer

LEMMA TakeInv ==
    ASSUME IInv, NEW r \in Replicas, Take(r)
    PROVE  IInv'
  <1> DEFINE x == [Idle EXCEPT !.pc = "get", !.lead = leader[r]]
  <1>1. queued' \in [Replicas -> BOOLEAN]
    BY DEF Take, IInv, TypeOK
  <1>2. x \in WorkerStates /\ x.pc = "get" /\ x.shared = {}
    BY DEF IInv, TypeOK, Idle, WorkerStates, Events
  <1>3. \E y \in {x, Idle} : Moves(r, "idle", y)
    BY DEF Take
  <1>4. worker' \in [Replicas -> WorkerStates]
        /\ \A s \in Replicas : worker'[s] = worker[s] \/ worker'[s] \in {x, Idle}
    BY <1>2, <1>3, IdleType, MovesType
  <1>5. \A s \in Replicas : worker'[s] = worker[s] \/ (Sane(worker[s]))'
    BY <1>2, <1>4, IdleType DEF Sane
  <1> QED BY <1>1, <1>4, <1>5, QuietInv DEF Take, IInv, TypeOK, informer

LEMMA ObserveInv ==
    ASSUME IInv, NEW r \in Replicas, NEW from, Observe(r, from)
    PROVE  IInv'
  BY GoesIdle DEF Observe

LEMMA GetInv ==
    ASSUME IInv, NEW r \in Replicas, Get(r)
    PROVE  IInv'
  <1> DEFINE object == history[cacheAt[r]]
             method == ReconcileMethodFor(r, object)
             x == [worker[r] EXCEPT !.pc = method, !.version = cacheAt[r], !.shared = DeepCopy]
  <1>1. CASE Observe(r, "get") \/ NothingToDo(r)
    BY <1>1, ObserveInv, GoesIdle DEF NothingToDo
  <1>2. CASE /\ object # Gone /\ method # "unknown" /\ Moves(r, "get", x)
             /\ UNCHANGED <<reconciler, api, informer, leader, queued, writes, faults, past>>
    <2>1. /\ method \in {"set", "observe", "finalize"}
          /\ method = "set" => ~object.deleting
      BY <1>2 DEF ReconcileMethodFor
    <2>2. worker[r] \in WorkerStates /\ cacheAt[r] \in DOMAIN history /\ cacheAt[r] \in Nat
      BY DEF IInv, TypeOK
    <2>3. /\ x \in WorkerStates /\ x.pc = method /\ x.shared = {}
          /\ x.version = cacheAt[r]
      BY <2>1, <2>2, NothingShared DEF WorkerStates
    <2> HIDE DEF x, method
    <2>4. /\ worker' \in [Replicas -> WorkerStates]
          /\ worker'[r] = x
          /\ \A s \in Replicas \ {r} : worker'[s] = worker[s]
      BY <1>2, <2>3, MovesType
    <2>5. Sane(x)
      BY <1>2, <2>1, <2>2, <2>3 DEF Sane
    <2>6. (Sane(worker[r]))'
      BY <1>2, <2>4, <2>5 DEF Sane, api, past, implements
    <2>7. \A s \in Replicas : worker'[s] = worker[s] \/ (Sane(worker[s]))'
      BY <2>4, <2>6
    <2> QED BY <1>2, <2>4, <2>7, QuietInv DEF IInv, TypeOK, informer
  <1> QED BY <1>1, <1>2 DEF Get

LEMMA WorkerFacts ==
    ASSUME IInv, NEW r \in Replicas, worker[r].pc \in {"set", "reconcile", "finalize", "clear"}
    PROVE  /\ worker[r] \in WorkerStates /\ Sane(worker[r])
           /\ worker[r].version \in DOMAIN history
           /\ Resource(r) = history[worker[r].version] /\ Resource(r) \in Objects
  <1>1. worker[r] \in WorkerStates /\ Sane(worker[r]) /\ worker[r].version \in DOMAIN history
    BY DEF IInv, TypeOK, Sane
  <1>2. history \in Seq(Objects)
    BY DEF IInv, TypeOK
  <1> QED BY <1>1, <1>2, ElementOfSeq, LenProperties DEF Resource

(* The patch has failed: for sure, or so it seems.                         *)
LEMMA FailsInv ==
    ASSUME IInv, NEW r \in Replicas, NEW from, NEW q \in Requests, Fits(q),
           Returns(r, from, "error"), late' \in {late, late \cup {q}},
           UNCHANGED <<reconciler, history, informer, leader, writes, past>>,
           faults' \in Nat
    PROVE  IInv'
  <1>1. Grows
    BY DEF Grows, past
  <1>2. \A s \in Replicas : worker'[s] = worker[s] \/ (Sane(worker[s]))'
    BY ReturnsInv DEF Sane, Idle
  <1> QED BY <1>1, <1>2, ReturnsInv, StepInv DEF IInv, TypeOK, informer, past

SetRequest(r) ==
    [version |-> worker[r].version, finalizers |-> Resource(r).finalizers \cup {Own}]

ClearRequest(r) ==
    [version |-> worker[r].version, finalizers |-> Resource(r).finalizers \ {Own}]

LEMMA RequestsFit ==
    ASSUME IInv, NEW r \in Replicas
    PROVE  /\ worker[r].pc = "set" => SetRequest(r) \in Requests /\ Fits(SetRequest(r))
           /\ worker[r].pc = "clear" /\ Clears(worker[r].event) =>
                  ClearRequest(r) \in Requests /\ Fits(ClearRequest(r))
  BY WorkerFacts, OwnIsNotForeign
     DEF SetRequest, ClearRequest, Requests, Fits, Objects, Finalizers, WorkerStates, Sane,
         Clears

LEMMA SetInv ==
    ASSUME IInv, NEW r \in Replicas, SetFinalizerIfFinalizer(r)
    PROVE  IInv'
  <1> DEFINE q == [version |-> worker[r].version,
                   finalizers |-> Resource(r).finalizers \cup {Own}]
             x == [worker[r] EXCEPT !.pc = "reconcile"]
             y == [worker[r] EXCEPT !.pc = "reconcile", !.version = Len(history) + 1,
                                    !.shared = {}]
  <1>1. worker[r].pc = "set"
    BY DEF SetFinalizerIfFinalizer
  <1>2. /\ worker[r] \in WorkerStates /\ Sane(worker[r])
        /\ worker[r].version \in DOMAIN history
        /\ Resource(r) = history[worker[r].version] /\ Resource(r) \in Objects
    BY <1>1, WorkerFacts
  <1>3. Resource(r) # Gone /\ ~Resource(r).deleting
    BY <1>1, <1>2 DEF Sane
  <1>4. CASE /\ "Finalizer" \notin implements \/ Own \in Resource(r).finalizers
             /\ Moves(r, "set", x)
             /\ UNCHANGED <<reconciler, api, informer, leader, queued, writes, faults, past>>
    <2>1. x \in WorkerStates /\ Sane(x)
      BY <1>1, <1>2, <1>4 DEF WorkerStates, Sane
    <2> HIDE DEF x
    <2>2. /\ worker' \in [Replicas -> WorkerStates] /\ worker'[r] = x
          /\ \A s \in Replicas \ {r} : worker'[s] = worker[s]
      BY <1>4, <2>1, MovesType
    <2>3. \A s \in Replicas : worker'[s] = worker[s] \/ (Sane(worker[s]))'
      BY <1>4, <2>1, <2>2 DEF Sane, api, past, implements
    <2> QED BY <1>4, <2>2, <2>3, QuietInv DEF IInv, TypeOK, informer
  <1>5. q \in Requests /\ Fits(q)
    BY <1>1, RequestsFit DEF SetRequest
  <1>6. CASE Applies(q) /\ Land(q) /\ Moves(r, "set", y)
             /\ UNCHANGED <<reconciler, late, informer, leader, queued, writes, faults, past>>
    <2>1. /\ Grows /\ Current' \in Objects /\ history' = Append(history, Current')
          /\ Current' = Settled([Current EXCEPT !.finalizers = q.finalizers])
      BY <1>5, <1>6, LandGrows DEF past
    <2>2. Current = Resource(r) /\ TypeOK
      BY <1>2, <1>6 DEF Applies, Current, IInv
    <2>3. ~Current'.deleting /\ Own \in Current'.finalizers /\ Current' # Gone
      BY <1>2, <1>3, <2>1, <2>2 DEF Settled, Gone, Objects
    <2>4. /\ Len(history) + 1 \in DOMAIN history' /\ history'[Len(history) + 1] = Current'
          /\ Len(history) + 1 \in Nat
      <3>1. \A v \in Objects : history' = Append(history, v) =>
                 Len(history) + 1 \in DOMAIN history' /\ history'[Len(history) + 1] = v
        BY <2>2, AppendCurrent
      <3> QED BY <2>1, <2>2, <3>1, LenProperties DEF TypeOK
    <2>5. /\ y \in WorkerStates /\ y.pc = "reconcile" /\ y.version = Len(history) + 1
          /\ y.shared = {}
      BY <1>2, <2>4 DEF WorkerStates
    <2> HIDE DEF y, q
    <2>6. /\ worker' \in [Replicas -> WorkerStates] /\ worker'[r] = y
          /\ \A s \in Replicas \ {r} : worker'[s] = worker[s]
      BY <1>6, <2>5, MovesType
    <2>7. (Sane(worker[r]))'
      BY <2>3, <2>4, <2>5, <2>6 DEF Sane
    <2>8. \A s \in Replicas : cacheAt[s] \in DOMAIN history'
      BY <2>1, <2>2, VersionsStay DEF TypeOK
    <2>9. \A s \in Replicas : worker'[s] = worker[s] \/ (Sane(worker[s]))'
      BY <2>6, <2>7
    <2> QED BY <1>6, <2>1, <2>6, <2>8, <2>9, StepInv DEF IInv, TypeOK, informer, past
  <1>7. CASE /\ Returns(r, "set", "error")
             /\ \/ UNCHANGED <<history, late, faults>>
                \/ Fault /\ late' = late \cup {q} /\ UNCHANGED history
             /\ UNCHANGED <<reconciler, informer, leader, writes, past>>
    <2>1. faults' \in Nat /\ late' \in {late, late \cup {q}}
      BY <1>7 DEF Fault, IInv, TypeOK
    <2> HIDE DEF q
    <2> QED BY <1>5, <1>7, <2>1, FailsInv
  <1> HIDE DEF x
  <1> QED BY <1>4, <1>6, <1>7 DEF SetFinalizerIfFinalizer, UpdateFinalizers, x

LEMMA ClearInv ==
    ASSUME IInv, NEW r \in Replicas, ClearFinalizer(r)
    PROVE  IInv'
  <1> DEFINE q == [version |-> worker[r].version,
                   finalizers |-> Resource(r).finalizers \ {Own}]
             event == worker[r].event
  <1>1. worker[r].pc = "clear"
    BY DEF ClearFinalizer
  <1>2. /\ worker[r] \in WorkerStates /\ Sane(worker[r])
        /\ worker[r].version \in DOMAIN history
        /\ Resource(r) = history[worker[r].version] /\ Resource(r) \in Objects
    BY <1>1, WorkerFacts
  <1>3. CASE /\ Returns(r, "clear", event)
             /\ UNCHANGED <<reconciler, api, informer, leader, writes, faults, past>>
    BY <1>3, GoesIdle
  <1>4. Clears(event) => q \in Requests /\ Fits(q)
    BY <1>1, RequestsFit DEF ClearRequest
  <1>5. CASE /\ Clears(event) /\ Applies(q) /\ Land(q) /\ Returns(r, "clear", event)
             /\ UNCHANGED <<reconciler, late, informer, leader, writes, faults, past>>
    <2> HIDE DEF q, event
    <2>1. Grows /\ TypeOK
      BY <1>4, <1>5, LandGrows DEF past, IInv
    <2>2. \A s \in Replicas : cacheAt[s] \in DOMAIN history'
      BY <2>1, VersionsStay DEF TypeOK
    <2>3. /\ worker' \in [Replicas -> WorkerStates] /\ queued' \in [Replicas -> BOOLEAN]
          /\ \A s \in Replicas : worker'[s] = worker[s] \/ worker'[s] = Idle
      BY <1>5, ReturnsInv
    <2>4. \A s \in Replicas : worker'[s] = worker[s] \/ (Sane(worker[s]))'
      BY <2>3 DEF Sane, Idle
    <2> QED BY <1>5, <2>1, <2>2, <2>3, <2>4, StepInv DEF IInv, TypeOK, informer, past
  <1>6. CASE /\ Clears(event) /\ Returns(r, "clear", "error")
             /\ \/ UNCHANGED <<history, late, faults>>
                \/ Fault /\ late' = late \cup {q} /\ UNCHANGED history
             /\ UNCHANGED <<reconciler, informer, leader, writes, past>>
    <2>1. faults' \in Nat /\ late' \in {late, late \cup {q}}
      BY <1>6 DEF Fault, IInv, TypeOK
    <2> HIDE DEF q
    <2> QED BY <1>4, <1>6, <2>1, FailsInv
  <1> QED BY <1>3, <1>5, <1>6 DEF ClearFinalizer, UpdateFinalizers

LEMMA ReconcileKindInv ==
    ASSUME IInv, NEW r \in Replicas, ReconcileKind(r)
    PROVE  IInv'
  <1>1. PICK event \in answers : Returns(r, "reconcile", event)
    BY DEF ReconcileKind
  <1>2. /\ worker[r].pc = "reconcile"
        /\ worker' \in [Replicas -> WorkerStates] /\ queued' \in [Replicas -> BOOLEAN]
        /\ \A s \in Replicas : worker'[s] = worker[s] \/ worker'[s] = Idle
    BY <1>1, ReturnsInv
  <1>3. /\ Sane(worker[r]) /\ worker[r].version \in DOMAIN history
        /\ Resource(r) = history[worker[r].version] /\ Resource(r) \in Objects
    BY <1>2, WorkerFacts
  <1>4. "Finalizer" \in implements =>
            Held(Resource(r).uid) \/ Resource(r).uid \in finalized
    BY <1>2, <1>3 DEF Sane, IInv, OwnKept
  <1>5. \A s \in Replicas : worker'[s] = worker[s] \/ (Sane(worker[s]))'
    BY <1>2 DEF Sane, Idle
  <1>6. Resource(r).uid \in Nat /\ worker[r].shared = {}
    BY <1>3 DEF Objects, Sane
  <1>7. Grows
    BY DEF ReconcileKind, Grows, api
  <1>8. touched' = touched
    BY <1>6 DEF ReconcileKind, IInv, TypeOK
  <1> QED BY <1>2, <1>4, <1>5, <1>6, <1>7, <1>8, StepInv DEF ReconcileKind, IInv, TypeOK, api

LEMMA FinalizeKindInv ==
    ASSUME IInv, NEW r \in Replicas, FinalizeKind(r)
    PROVE  IInv'
  <1>1. PICK event \in answers :
           /\ Moves(r, "finalize", [worker[r] EXCEPT !.pc = "clear", !.event = event])
           /\ touched' = [touched EXCEPT ![r] = @ \cup worker[r].shared]
           /\ finalized' = IF Cleans(event) THEN finalized \cup {Resource(r).uid} ELSE finalized
           /\ UNCHANGED <<reconciler, api, cacheAt, leader, queued, writes, faults, reconciled>>
    BY DEF FinalizeKind
  <1> DEFINE x == [worker[r] EXCEPT !.pc = "clear", !.event = event]
  <1>2. worker[r].pc = "finalize"
    BY <1>1 DEF Moves
  <1>3. /\ worker[r] \in WorkerStates /\ Sane(worker[r])
        /\ worker[r].version \in DOMAIN history
        /\ Resource(r) = history[worker[r].version] /\ Resource(r) \in Objects
    BY <1>2, WorkerFacts
  <1>4. event \in Events
    BY ReconcilersAssumption DEF IInv, TypeOK, answers
  <1>5. /\ x \in WorkerStates /\ x.pc = "clear" /\ x.event = event
        /\ x.version = worker[r].version /\ x.shared = {}
    BY <1>3, <1>4 DEF WorkerStates, Sane
  <1> HIDE DEF x
  <1>6. /\ worker' \in [Replicas -> WorkerStates] /\ worker'[r] = x
        /\ \A s \in Replicas \ {r} : worker'[s] = worker[s]
    BY <1>1, <1>5, MovesType DEF x
  <1>7. (Sane(worker[r]))'
    BY <1>1, <1>3, <1>5, <1>6 DEF Sane, api
  <1>8. Grows
    BY <1>1 DEF Grows, api
  <1>9. Resource(r).uid \in Nat /\ touched' = touched
    BY <1>1, <1>3 DEF Objects, Sane, IInv, TypeOK
  <1>10. \A s \in Replicas : worker'[s] = worker[s] \/ (Sane(worker[s]))'
    BY <1>6, <1>7
  <1> QED BY <1>1, <1>6, <1>8, <1>9, <1>10, StepInv DEF IInv, TypeOK, api

LEMMA NextInv == IInv /\ [Next]_vars => IInv'
  <1> SUFFICES ASSUME IInv, [Next]_vars PROVE IInv'
    OBVIOUS
  <1>1. CASE UNCHANGED vars
    BY <1>1 DEF vars, api, informer, past, IInv, TypeOK, OwnKept, ReconciledKept, Held,
         Current, Fits, Sane, implements
  <1>2. ASSUME NEW r \in Replicas, Reconcile(r) PROVE IInv'
    BY <1>2, GetInv, ObserveInv, SetInv, ReconcileKindInv, FinalizeKindInv, ClearInv
       DEF Reconcile, ObserveKind
  <1>3. ASSUME NEW r \in Replicas, Replica(r) PROVE IInv'
    BY <1>2, <1>3, CacheInv, TakeInv DEF Replica
  <1> QED BY <1>1, <1>3, UsersInv, LateLandsInv DEF Next

(* In every reachable state: types, and who has or had our finalizer.      *)
THEOREM ReconcilerInvariant == Spec => []IInv
  BY InitInv, NextInv, PTL DEF Spec

(* The reconciler is type correct: versions, requests and workers, through *)
(* conflicts, lost requests, demotions and restarts.                       *)
THEOREM ReconcilerTypes == Spec => []TypeOK
  <1>1. IInv => TypeOK
    BY DEF IInv
  <1> QED BY <1>1, ReconcilerInvariant, PTL

(* ReconcileKind is called for what is not being deleted and has our       *)
(* finalizer, if there is a FinalizeKind.                                  *)
THEOREM ReconcilesWhatIsHeld == Spec => []ReconcilesHeld
  <1>1. IInv => ReconcilesHeld
    BY WorkerFacts DEF ReconcilesHeld, IInv, Sane, Resource
  <1> QED BY <1>1, ReconcilerInvariant, PTL

(* No object that ReconcileKind was called for goes before FinalizeKind    *)
(* has finished with it.                                                   *)
THEOREM NothingGoesUnfinalized == Spec => []FinalizedBeforeGone
  <1>1. IInv => FinalizedBeforeGone
    BY DEF IInv, ReconciledKept, FinalizedBeforeGone, Held
  <1> QED BY <1>1, ReconcilerInvariant, PTL

(* No reconciler can write to the informer's copy through the one it gets. *)
THEOREM CacheStaysPristine == Spec => []CachePristine
  <1>1. IInv => CachePristine
    BY DEF IInv, CachePristine
  <1> QED BY <1>1, ReconcilerInvariant, PTL

-----------------------------------------------------------------------------
(* Only a patch that fits changes the object, beside users.                *)
LEMMA ChangeCases ==
    ASSUME IInv, Next, history' # history, writes' = writes
    PROVE  \E q \in Requests :
               /\ Fits(q) /\ Applies(q) /\ Land(q)
               /\ reconciler' = reconciler /\ finalized' = finalized
  <1>1. ASSUME NEW q \in late, LateLands(q)
        PROVE  q \in Requests /\ Fits(q) /\ Applies(q) /\ Land(q)
               /\ reconciler' = reconciler /\ finalized' = finalized
    BY <1>1 DEF LateLands, IInv, TypeOK, past
  <1>2. ASSUME NEW r \in Replicas, SetFinalizerIfFinalizer(r)
        PROVE  /\ SetRequest(r) \in Requests /\ Fits(SetRequest(r))
               /\ Applies(SetRequest(r)) /\ Land(SetRequest(r))
               /\ reconciler' = reconciler /\ finalized' = finalized
    BY <1>2, RequestsFit DEF SetFinalizerIfFinalizer, UpdateFinalizers, SetRequest, api, past
  <1>3. ASSUME NEW r \in Replicas, ClearFinalizer(r)
        PROVE  /\ ClearRequest(r) \in Requests /\ Fits(ClearRequest(r))
               /\ Applies(ClearRequest(r)) /\ Land(ClearRequest(r))
               /\ reconciler' = reconciler /\ finalized' = finalized
    BY <1>3, RequestsFit DEF ClearFinalizer, UpdateFinalizers, ClearRequest, api, past
  <1>4. writes \in Nat
    BY DEF IInv, TypeOK
  <1>5. ~Users
    <2>1. ASSUME NEW object, Write(object)
          PROVE  FALSE
      BY <1>4, <2>1 DEF Write
    <2> QED BY <2>1 DEF Users, Create, Delete, AddForeign, RemoveForeign
  <1>6. ASSUME NEW r \in Replicas, Replica(r)
        PROVE  SetFinalizerIfFinalizer(r) \/ ClearFinalizer(r)
    <2>1. ~CacheEvent(r) /\ ~Resync(r) /\ ~Elected(r) /\ ~Demoted(r) /\ ~Restart(r)
      BY DEF CacheEvent, Resync, Elected, Demoted, Restart, api
    <2>2. ~Take(r)
      BY DEF Take, api
    <2>3. ~Get(r)
      BY DEF Get, Observe, NothingToDo, api
    <2>4. ~ObserveKind(r)
      BY DEF ObserveKind, Observe, api
    <2>5. ~ReconcileKind(r) /\ ~FinalizeKind(r)
      BY DEF ReconcileKind, FinalizeKind, api
    <2> QED BY <1>6, <2>1, <2>2, <2>3, <2>4, <2>5 DEF Replica, Reconcile
  <1> QED BY <1>1, <1>2, <1>3, <1>5, <1>6 DEF Next

(* The finalizers of others stay as they are, and no patch reaches another *)
(* object of the same name.                                                *)
THEOREM ForeignFinalizersStay == Spec => ForeignKept
  <1> DEFINE Kept ==
        history' # history /\ writes' = writes =>
           /\ Current'.finalizers \cap Foreign = Current.finalizers \cap Foreign
           /\ Current' # Gone => Current'.uid = Current.uid
  <1>1. ASSUME IInv, Next, history' # history, writes' = writes
        PROVE  /\ Current'.finalizers \cap Foreign = Current.finalizers \cap Foreign
               /\ Current' # Gone => Current'.uid = Current.uid
    BY <1>1, ChangeCases, LandGrows
  <1>2. IInv /\ [Next]_vars => [Kept]_vars
    BY <1>1
  <1> QED BY <1>2, ReconcilerInvariant, PTL DEF Spec, ForeignKept

=============================================================================
