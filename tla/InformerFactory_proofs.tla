----------------------- MODULE InformerFactory_proofs ----------------------
(***************************************************************************)
(* The informer factory for any number of types, threads and channels: an  *)
(* informer per type, configured as the options say, a WaitGroup that      *)
(* counts the goroutines that run, and callers of WaitForCacheSync that    *)
(* find their caches filled.                                               *)
(***************************************************************************)
EXTENDS InformerFactory, FactoryOptions_proofs, FiniteSetTheorems, TLAPS

(* The parts of the inductive invariant, beside the types.                 *)

TableInv ==
    /\ \A h \in handed : h[2] = informers[h[1]] /\ h[2] # 0
    /\ \A t \in Types : run[t].pc # "none" =>
           /\ run[t].informer = informers[t]
           /\ informers[t] # 0
    /\ started = {t \in Types : run[t].pc # "none"}

CountInv ==
    /\ wg = Cardinality(Running)
    /\ \A u \in Users : caller[u].pc = "drain" => shuttingDown
    /\ down => shuttingDown /\ Running = {}

WaitInv ==
    \A u \in Users :
        /\ caller[u].needs \subseteq started
        /\ caller[u].pc = "sync" => caller[u].needs \subseteq caller[u].left \cup synced

IInv == TypeOK /\ TableInv /\ CountInv /\ WaitInv

-----------------------------------------------------------------------------
(* The goroutines that run are finitely many.                              *)
LEMMA RunningFinite == IsFiniteSet(Running)
  BY TypesAreFinite, FS_Subset DEF Running

LEMMA IInvInit == Init => IInv
  <1> SUFFICES ASSUME Init PROVE IInv
    OBVIOUS
  <1>1. TypeOK
    <2>1. made \in Seq({made[i] : i \in DOMAIN made})
      BY DEF Init
    <2>2. caller \in [Users -> CallerStates]
      BY DEF Init, CallerStates, Idle
    <2>3. run \in [Types -> RunStates]
      BY DEF Init, RunStates
    <2> QED BY <2>1, <2>2, <2>3 DEF Init, TypeOK
  <1>2. TableInv
    BY DEF Init, TableInv
  <1>3. Running = {}
    BY DEF Init, Running
  <1>4. CountInv
    BY <1>3, FS_EmptySet DEF Init, CountInv, Idle
  <1>5. WaitInv
    BY DEF Init, WaitInv, Idle
  <1> QED BY <1>1, <1>2, <1>4, <1>5 DEF IInv

(* Launching adds to the WaitGroup what it adds to the goroutines that run.*)
LEMMA LaunchCounts ==
    ASSUME IInv, NEW u \in Users, NEW c \in Channels, Launch(u, ToStart, c)
    PROVE  wg' = Cardinality(Running') /\ Running' = Running \cup ToStart
  <1>1. IsFiniteSet(Running) /\ IsFiniteSet(ToStart)
    BY TypesAreFinite, FS_Subset, RunningFinite DEF ToStart, Made
  <1>2. Running \cap ToStart = {}
    BY DEF IInv, TableInv, ToStart, Running
  <1>3. Running' = Running \cup ToStart
    BY DEF Launch, Running, ToStart, Made
  <1>4. Cardinality(Running \cup ToStart)
            = Cardinality(Running) + Cardinality(ToStart) - Cardinality(Running \cap ToStart)
    BY <1>1, FS_Union
  <1>5. Cardinality(Running \cap ToStart) = 0
    BY <1>2, FS_EmptySet
  <1>6. Cardinality(Running) \in Nat /\ Cardinality(ToStart) \in Nat
    BY <1>1, FS_CardinalityType
  <1> QED BY <1>3, <1>4, <1>5, <1>6 DEF Launch, IInv, CountInv

(* The end of a goroutine takes one from both.                             *)
LEMMA FinishCounts ==
    ASSUME IInv, NEW t \in Types, Finish(t)
    PROVE  wg' = Cardinality(Running') /\ wg' \in Nat /\ wg' <= wg /\ Running' \subseteq Running
  <1>1. Running' = Running \ {t} /\ t \in Running
    BY DEF Finish, Running, IInv, TypeOK, RunStates
  <1>2. Cardinality(Running \ {t}) = Cardinality(Running) - 1 /\ Cardinality(Running) \in Nat
        /\ Cardinality(Running \ {t}) \in Nat
    BY <1>1, RunningFinite, FS_RemoveElement, FS_CardinalityType, FS_Subset
  <1> QED BY <1>1, <1>2 DEF Finish, IInv, CountInv

-----------------------------------------------------------------------------
(* Adding to the table.                                                    *)
LEMMA MadeGrows ==
    ASSUME made \in Seq({made[i] : i \in DOMAIN made}), NEW x, made' = Append(made, x)
    PROVE  /\ made' \in Seq({made'[i] : i \in DOMAIN made'})
           /\ Len(made') = Len(made) + 1
           /\ DOMAIN made \subseteq DOMAIN made'
           /\ Len(made') \in DOMAIN made' /\ Len(made') # 0 /\ Len(made') \in Nat
  <1> DEFINE S == {made[i] : i \in DOMAIN made}
             T == S \cup {x}
  <1>1. made \in Seq(T)
    OBVIOUS
  <1>2. Append(made, x) \in Seq(T) /\ Len(Append(made, x)) = Len(made) + 1
        /\ DOMAIN Append(made, x) = 1 .. Len(made) + 1 /\ Len(made) \in Nat
    BY <1>1
  <1>3. \A i \in DOMAIN made' : made'[i] \in {made'[j] : j \in DOMAIN made'}
    OBVIOUS
  <1>4. made' \in Seq({made'[i] : i \in DOMAIN made'})
    BY <1>2, <1>3
  <1> QED BY <1>1, <1>2, <1>4

LEMMA InformerForKeeps ==
    ASSUME IInv, NEW u \in Users, NEW t \in Types, InformerFor(u, t)
    PROVE  IInv'
  <1> USE DEF InformerFor
  <1>a. UNCHANGED <<options, started, wg, run, synced, closed, shuttingDown, caller, down>>
    BY DEF goroutines, environment
  <1>1. CASE informers[t] # 0
    <2>1. handed' = handed \cup {<<t, informers[t]>>} /\ informers' = informers /\ made' = made
      BY <1>1
    <2>2. TypeOK'
      BY <1>a, <2>1 DEF IInv, TypeOK
    <2>3. TableInv'
      BY <1>1, <1>a, <2>1 DEF IInv, TypeOK, TableInv
    <2> QED BY <1>a, <2>2, <2>3 DEF IInv, CountInv, WaitInv, Running
  <1>2. CASE informers[t] = 0
    <2>1. PICK x : made' = Append(made, x)
      BY <1>2
    <2>2. informers' = [informers EXCEPT ![t] = Len(made')]
          /\ handed' = handed \cup {<<t, informers'[t]>>}
      BY <1>2
    <2>3. /\ made' \in Seq({made'[i] : i \in DOMAIN made'})
          /\ DOMAIN made \subseteq DOMAIN made'
          /\ Len(made') \in DOMAIN made' /\ Len(made') # 0 /\ Len(made') \in Nat
      BY <2>1, MadeGrows DEF IInv, TypeOK
    <2>4. TypeOK'
      BY <1>a, <2>2, <2>3 DEF IInv, TypeOK
    <2>5. run[t].pc = "none" /\ \A h \in handed : h[1] # t
      BY <1>2 DEF IInv, TypeOK, TableInv
    <2>6. TableInv'
      BY <1>a, <2>2, <2>3, <2>5 DEF IInv, TypeOK, TableInv
    <2> QED BY <1>a, <2>4, <2>6 DEF IInv, CountInv, WaitInv, Running
  <1> QED BY <1>1, <1>2

LEMMA StartKeeps ==
    ASSUME IInv, NEW u \in Users, NEW c \in Channels, Start(u, c)
    PROVE  IInv'
  <1>a. UNCHANGED <<table, environment, shuttingDown, down>>
    BY DEF Start
  <1>1. CASE shuttingDown
    <2>1. UNCHANGED vars
      BY <1>1 DEF Start, vars
    <2> QED BY <2>1 DEF vars, table, goroutines, environment, IInv, TypeOK, TableInv,
                        CountInv, WaitInv, Running
  <1>2. CASE ~shuttingDown
    <2>1. Launch(u, ToStart, c) /\ ToStart \subseteq Types /\ caller[u].pc = "idle"
      BY <1>2 DEF Start, ToStart, Made
    <2>2. wg' = Cardinality(Running') /\ Running' = Running \cup ToStart
      BY <2>1, LaunchCounts
    <2>3. IsFiniteSet(Running')
      BY TypesAreFinite, FS_Subset DEF Running
    <2>4. wg' \in Nat
      BY <2>2, <2>3, FS_CardinalityType
    <2>5. run' \in [Types -> RunStates]
      <3>1. ASSUME NEW t \in Types
            PROVE  [pc |-> "running", informer |-> informers[t], chan |-> c] \in RunStates
        BY DEF RunStates, IInv, TypeOK
      <3> QED BY <2>1, <3>1 DEF Launch, IInv, TypeOK
    <2>6. caller' \in [Users -> CallerStates]
      <3>1. [Idle EXCEPT !.needs = Made] \in CallerStates
        BY DEF Idle, CallerStates, Made
      <3> QED BY <2>1, <3>1 DEF Launch, IInv, TypeOK
    <2>7. TypeOK'
      BY <1>a, <2>1, <2>4, <2>5, <2>6 DEF IInv, TypeOK, table, environment, Launch
    <2>8. TableInv'
      BY <1>a, <2>1 DEF IInv, TypeOK, TableInv, table, environment, Launch, ToStart, Made
    <2>9. CountInv'
      <3>1. \A v \in Users : caller'[v].pc = "drain" => caller[v].pc = "drain"
        BY <2>1 DEF Launch, Idle, IInv, TypeOK
      <3> QED BY <1>a, <1>2, <2>2, <3>1 DEF IInv, CountInv
    <2>10. WaitInv'
      <3>1. Made \subseteq started'
        BY <2>1 DEF Launch, ToStart
      <3>2. started \subseteq started'
        BY <2>1 DEF Launch
      <3>3. caller'[u].needs = Made /\ caller'[u].pc = "idle"
        BY <2>1 DEF Launch, Idle, IInv, TypeOK
      <3>4. \A v \in Users \ {u} : caller'[v] = caller[v]
        BY <2>1 DEF Launch, IInv, TypeOK
      <3> QED BY <1>a, <3>1, <3>2, <3>3, <3>4 DEF IInv, WaitInv, environment
    <2> QED BY <2>7, <2>8, <2>9, <2>10 DEF IInv
  <1> QED BY <1>1, <1>2

(* The other steps leave the table and the started informers alone.        *)
LEMMA GoroutineKeeps ==
    ASSUME IInv, NEW t \in Types, Sync(t) \/ Finish(t)
    PROVE  IInv'
  <1>1. CASE Sync(t)
    BY <1>1 DEF Sync, IInv, TypeOK, TableInv, CountInv, WaitInv, Running, table, goroutines
  <1>2. CASE Finish(t)
    <2>1. run[t].pc = "running" /\ run' = [run EXCEPT ![t].pc = "done"]
          /\ UNCHANGED <<table, started, environment, shuttingDown, caller, down>>
      BY <1>2 DEF Finish, Running
    <2>2. wg' = Cardinality(Running') /\ wg' \in Nat /\ Running' \subseteq Running
      BY <1>2, FinishCounts
    <2>3. run' \in [Types -> RunStates]
      BY <2>1 DEF IInv, TypeOK, RunStates
    <2>4. TypeOK'
      BY <2>1, <2>2, <2>3 DEF IInv, TypeOK, table, environment
    <2>5. TableInv'
      BY <2>1 DEF IInv, TypeOK, TableInv, RunStates, table
    <2>6. CountInv'
      BY <2>1, <2>2 DEF IInv, CountInv
    <2>7. WaitInv'
      BY <2>1 DEF IInv, WaitInv, environment
    <2> QED BY <2>4, <2>5, <2>6, <2>7 DEF IInv
  <1> QED BY <1>1, <1>2

LEMMA CloseKeeps ==
    ASSUME IInv, NEW c \in Channels, CloseChannel(c)
    PROVE  IInv'
  BY DEF CloseChannel, IInv, TypeOK, TableInv, CountInv, WaitInv, Running, table, goroutines

LEMMA ShutdownKeeps ==
    ASSUME IInv, NEW u \in Users, Shutdown(u) \/ ShutdownReturns(u)
    PROVE  IInv'
  <1>1. UNCHANGED <<table, goroutines, environment>> /\ shuttingDown' \in BOOLEAN
        /\ down' \in BOOLEAN
    BY DEF Shutdown, ShutdownReturns, IInv, TypeOK
  <1>2. /\ caller' \in [Users -> CallerStates]
        /\ caller'[u].needs = {} /\ caller'[u].pc \in {"drain", "idle"}
        /\ \A v \in Users \ {u} : caller'[v] = caller[v]
    <2>1. PICK e \in {Idle, [Idle EXCEPT !.pc = "drain"]} :
              caller' = [caller EXCEPT ![u] = e]
      BY DEF Shutdown, ShutdownReturns
    <2>2. e \in CallerStates /\ e.needs = {} /\ e.pc \in {"drain", "idle"}
      BY <2>1 DEF Idle, CallerStates
    <2> QED BY <2>1, <2>2 DEF IInv, TypeOK
  <1>3. TypeOK' /\ TableInv' /\ Running' = Running
    BY <1>1, <1>2 DEF IInv, TypeOK, TableInv, table, goroutines, environment, Running
  <1>4. WaitInv'
    BY <1>1, <1>2 DEF IInv, WaitInv, goroutines, environment
  <1>5. CountInv'
    <2>1. CASE Shutdown(u)
      BY <1>1, <1>3, <2>1 DEF Shutdown, IInv, CountInv, goroutines
    <2>2. CASE ShutdownReturns(u)
      <3>1. wg = 0 /\ shuttingDown /\ UNCHANGED shuttingDown /\ caller'[u].pc = "idle"
        BY <2>2 DEF ShutdownReturns, IInv, TypeOK, CountInv, Idle
      <3>2. Running = {}
        BY <3>1, RunningFinite, FS_EmptySet DEF IInv, CountInv
      <3> QED BY <1>1, <1>2, <1>3, <3>1, <3>2 DEF IInv, CountInv, goroutines
    <2> QED BY <2>1, <2>2
  <1> QED BY <1>3, <1>4, <1>5 DEF IInv

LEMMA WaitKeeps ==
    ASSUME IInv, NEW u \in Users,
           \/ \E c \in Channels : WaitForCacheSync(u, c)
           \/ \E t \in Types : Poll(u, t)
           \/ WaitReturns(u)
    PROVE  IInv'
  <1>1. UNCHANGED <<table, goroutines, environment, shuttingDown, down>>
    BY DEF WaitForCacheSync, Poll, WaitReturns
  <1>2. /\ caller' \in [Users -> CallerStates]
        /\ caller'[u].needs \subseteq caller[u].needs
        /\ caller'[u].pc \in {"idle", "sync"}
        /\ caller'[u].pc = "sync" => caller'[u].needs \subseteq caller'[u].left \cup synced
        /\ \A v \in Users \ {u} : caller'[v] = caller[v]
    <2>1. CASE \E c \in Channels : WaitForCacheSync(u, c)
      <3>1. PICK c \in Channels : WaitForCacheSync(u, c)
        BY <2>1
      <3>2. caller[u].needs \subseteq Made \cap started
        BY DEF IInv, WaitInv, TypeOK, TableInv, Made, CallerStates
      <3>3. /\ caller' = [caller EXCEPT ![u].pc = "sync", ![u].chan = c,
                                        ![u].left = Made \cap started]
            /\ caller \in [Users -> CallerStates]
            /\ Made \cap started \in SUBSET Types
        BY <3>1 DEF WaitForCacheSync, IInv, TypeOK, Made
      <3> QED BY <3>2, <3>3 DEF CallerStates
    <2>2. CASE \E t \in Types : Poll(u, t)
      <3>1. PICK t \in Types : Poll(u, t)
        BY <2>2
      <3>2. /\ caller \in [Users -> CallerStates]
            /\ caller[u].pc = "sync"
            /\ caller[u].needs \subseteq caller[u].left \cup synced
        BY <3>1 DEF Poll, IInv, TypeOK, WaitInv
      <3>3. CASE t \in synced /\ caller' = [caller EXCEPT ![u].left = @ \ {t}]
        BY <3>2, <3>3 DEF CallerStates
      <3>4. CASE caller' = [caller EXCEPT ![u].left = @ \ {t}, ![u].needs = {}]
        BY <3>2, <3>4 DEF CallerStates
      <3> QED BY <3>1, <3>3, <3>4 DEF Poll
    <2>3. CASE WaitReturns(u)
      BY <2>3 DEF WaitReturns, IInv, TypeOK, CallerStates, Idle
    <2> QED BY <2>1, <2>2, <2>3
  <1>3. TypeOK' /\ TableInv' /\ Running' = Running
    BY <1>1, <1>2 DEF IInv, TypeOK, TableInv, table, goroutines, environment, Running
  <1>4. CountInv'
    BY <1>1, <1>2, <1>3 DEF IInv, CountInv, goroutines
  <1>5. WaitInv'
    BY <1>1, <1>2 DEF IInv, WaitInv, goroutines, environment
  <1> QED BY <1>3, <1>4, <1>5 DEF IInv

LEMMA StutterKeeps == ASSUME IInv, UNCHANGED vars PROVE IInv'
  BY DEF vars, table, goroutines, environment, IInv, TypeOK, TableInv, CountInv, WaitInv,
         Running

-----------------------------------------------------------------------------
(* One case for each kind of step: what the lemmas above are about.        *)
LEMMA StepCases ==
    ASSUME [Next]_vars, NEW ACTION P,
           UNCHANGED vars => P,
           \A u \in Users, t \in Types : InformerFor(u, t) => P,
           \A u \in Users, c \in Channels : Start(u, c) => P,
           \A u \in Users : Shutdown(u) \/ ShutdownReturns(u) => P,
           \A u \in Users : (\/ \E c \in Channels : WaitForCacheSync(u, c)
                             \/ \E t \in Types : Poll(u, t)
                             \/ WaitReturns(u)) => P,
           \A t \in Types : Sync(t) \/ Finish(t) => P,
           \A c \in Channels : CloseChannel(c) => P
    PROVE  P
  <1>1. ASSUME NEW u \in Users, Call(u) PROVE P
    BY <1>1, PassesAssumption DEF Call, Informer, ForResource
  <1>2. ASSUME NEW u \in Users, Return(u) PROVE P
    BY <1>2 DEF Return
  <1> QED BY <1>1, <1>2 DEF Next

LEMMA IInvNext == IInv /\ [Next]_vars => IInv'
  <1> SUFFICES ASSUME IInv, [Next]_vars PROVE IInv'
    OBVIOUS
  <1> QED BY StepCases, StutterKeeps, InformerForKeeps, StartKeeps, ShutdownKeeps,
             WaitKeeps, GoroutineKeeps, CloseKeeps

(* The inductive invariant, beside which the types hold for every state.   *)
THEOREM FactoryInvariant == Spec => []IInv
  BY IInvInit, IInvNext, PTL DEF Spec

(* All variables keep their types: in particular the counter of the        *)
(* WaitGroup never becomes negative.                                       *)
THEOREM TypeCorrect == Spec => []TypeOK
  <1>1. IInv => TypeOK
    BY DEF IInv
  <1> QED BY <1>1, FactoryInvariant, PTL

(* Whoever asks for a type is given the one informer that Start runs.      *)
THEOREM SharedInformers == Spec => []OneInformerPerType
  <1>1. IInv => OneInformerPerType
    BY DEF IInv, TypeOK, TableInv, OneInformerPerType
  <1> QED BY <1>1, FactoryInvariant, PTL

-----------------------------------------------------------------------------
(* What the informers watch.  An informer is as NewInformer makes one of   *)
(* its type with the options of the factory, and these never change.       *)
ConfiguredInv ==
    \A i \in DOMAIN made : made[i].of \in Types /\ made[i] = NewInformer(made[i].of)

LEMMA ConfiguredNext == IInv /\ ConfiguredInv /\ [Next]_vars => ConfiguredInv'
  <1> SUFFICES ASSUME IInv, ConfiguredInv, [Next]_vars PROVE ConfiguredInv'
    OBVIOUS
  <1>1. UNCHANGED <<options, made>> => ConfiguredInv'
    BY DEF ConfiguredInv, NewInformer, ResyncPeriod, factory
  <1>2. ASSUME NEW u \in Users, NEW t \in Types, InformerFor(u, t)
        PROVE  ConfiguredInv'
    <2>1. CASE informers[t] # 0
      BY <1>1, <1>2, <2>1 DEF InformerFor
    <2>2. CASE informers[t] = 0
      <3>1. options' = options /\ made' = Append(made, NewInformer(t))
        BY <1>2, <2>2 DEF InformerFor
      <3>2. \A x : NewInformer(x)' = NewInformer(x)
        BY <3>1 DEF NewInformer, ResyncPeriod, factory
      <3>3. NewInformer(t).of = t
        BY DEF NewInformer
      <3>4. /\ Len(made) \in Nat /\ DOMAIN made = 1 .. Len(made)
            /\ DOMAIN made' = 1 .. Len(made) + 1
            /\ \A i \in 1 .. Len(made) : made'[i] = made[i]
            /\ made'[Len(made) + 1] = NewInformer(t)
        <4>. DEFINE T == {made[i] : i \in DOMAIN made} \cup {NewInformer(t)}
        <4>1. made \in Seq(T) /\ NewInformer(t) \in T
          BY DEF IInv, TypeOK
        <4> HIDE DEF T
        <4> QED BY <4>1, <3>1
      <3>5. ASSUME NEW i \in DOMAIN made'
            PROVE  made'[i].of \in Types /\ made'[i] = NewInformer(made'[i].of)
        <4>1. CASE i \in DOMAIN made
          BY <3>4, <4>1 DEF ConfiguredInv
        <4>2. CASE i \notin DOMAIN made
          <5>1. i = Len(made) + 1
            BY <3>4, <4>2
          <5> QED BY <3>3, <3>4, <5>1
        <4> QED BY <4>1, <4>2
      <3> QED BY <3>2, <3>5 DEF ConfiguredInv
    <2> QED BY <2>1, <2>2
  <1>3. \A u \in Users, c \in Channels : Start(u, c) => ConfiguredInv'
    BY <1>1 DEF Start, table
  <1>4. \A u \in Users : Shutdown(u) \/ ShutdownReturns(u) => ConfiguredInv'
    BY <1>1 DEF Shutdown, ShutdownReturns, table
  <1>5. \A u \in Users : (\/ \E c \in Channels : WaitForCacheSync(u, c)
                          \/ \E t \in Types : Poll(u, t)
                          \/ WaitReturns(u)) => ConfiguredInv'
    BY <1>1 DEF WaitForCacheSync, Poll, WaitReturns, table
  <1>6. \A t \in Types : Sync(t) \/ Finish(t) => ConfiguredInv'
    BY <1>1 DEF Sync, Finish, table
  <1>7. \A c \in Channels : CloseChannel(c) => ConfiguredInv'
    BY <1>1 DEF CloseChannel, table
  <1>8. UNCHANGED vars => ConfiguredInv'
    BY <1>1 DEF vars, table
  <1> HIDE DEF ConfiguredInv
  <1> QED BY <1>2, <1>3, <1>4, <1>5, <1>6, <1>7, <1>8, StepCases

(* The last option of each setting, in the terms of the property.          *)
LEMMA SetByLast ==
    ASSUME IInv
    PROVE  /\ factory.namespace = LastOf("namespace", "all")
           /\ factory.tweak = LastOf("tweak", "none")
           /\ factory.transform = LastOf("transform", "none")
           /\ \A t : ResyncPeriod(t) = LastPeriod(t)
  <1> DEFINE N == Len(options)
  <1>1. N \in Nat /\ DOMAIN options = 1 .. N /\ \A i \in 1 .. N : options[i].sets \in Settings
    <2>1. PICK S : options \in Seq(S)
      BY OptionListsAssumption DEF IInv, TypeOK
    <2>2. \A i \in DOMAIN options : options[i].sets \in Settings
      BY OptionListsAssumption DEF IInv, TypeOK
    <2> QED BY <2>1, <2>2
  <1>2. SetBy(factory, options, N)
    BY <1>1, LastOptionCounts DEF factory
  <1>3. \A s : About(options, N, s) = {i \in DOMAIN options : options[i].sets = s}
    BY <1>1 DEF About
  <1>4. \A t : Periods(options, N, t) = {i \in DOMAIN options :
                 options[i].sets = "custom" /\ t \in DOMAIN options[i].to}
    BY <1>3 DEF Periods
  <1> HIDE DEF N
  <1>5. /\ factory["namespace"] = LastOf("namespace", "all")
        /\ factory["tweak"] = LastOf("tweak", "none")
        /\ factory["transform"] = LastOf("transform", "none")
    <2>1. {"namespace", "tweak", "transform"} \subseteq Settings \ {"custom"}
      BY DEF Settings
    <2>2. ASSUME NEW s \in {"namespace", "tweak", "transform"}
          PROVE  factory[s] = LastOf(s, NoOptions[s])
      <3>1. factory[s] = IF About(options, N, s) = {} THEN NoOptions[s]
                          ELSE options[LastIn(About(options, N, s))].to
        BY <1>2, <2>1 DEF SetBy
      <3>2. LastOf(s, NoOptions[s]) = IF About(options, N, s) = {} THEN NoOptions[s]
                          ELSE options[LastIn(About(options, N, s))].to
        BY <1>3 DEF LastOf
      <3> QED BY <3>1, <3>2
    <2> QED BY <2>2, NoneGiven
  <1>6. \A t : ResyncPeriod(t) = LastPeriod(t)
    <2>1. /\ \A t : t \in DOMAIN factory["custom"] <=> Periods(options, N, t) # {}
          /\ \A t \in DOMAIN factory["custom"] :
                 factory["custom"][t] = options[LastIn(Periods(options, N, t))].to[t]
      BY <1>2 DEF SetBy
    <2>2. \A t : ResyncPeriod(t) = IF t \in DOMAIN factory["custom"]
                                     THEN factory["custom"][t] ELSE "default"
      BY DEF ResyncPeriod
    <2>3. \A t : LastPeriod(t) = IF Periods(options, N, t) = {} THEN "default"
                       ELSE options[LastIn(Periods(options, N, t))].to[t]
      BY <1>4 DEF LastPeriod
    <2> QED BY <2>1, <2>2, <2>3
  <1>7. /\ factory.namespace = factory["namespace"] /\ factory.tweak = factory["tweak"]
        /\ factory.transform = factory["transform"]
    OBVIOUS
  <1> QED BY <1>5, <1>6, <1>7

(* An informer has what the last option about it said, for any options and *)
(* whichever call made it (factory.go:58-90, 117-120, 186-199).            *)
THEOREM InformersAsConfigured == Spec => []MadeAsConfigured
  <1>1. Init => ConfiguredInv
    BY DEF Init, ConfiguredInv
  <1>2. IInv /\ ConfiguredInv => MadeAsConfigured
    <2> SUFFICES ASSUME IInv, ConfiguredInv, NEW i \in DOMAIN made
                 PROVE  /\ made[i].resync = LastPeriod(made[i].of)
                        /\ made[i].transform = LastOf("transform", "none")
                        /\ made[i].of \in Resources => made[i].watches =
                               <<LastOf("namespace", "all"), LastOf("tweak", "none")>>
      BY DEF MadeAsConfigured
    <2>1. PICK t \in Types : t = made[i].of /\ made[i] = NewInformer(t)
      BY DEF ConfiguredInv
    <2>2. /\ NewInformer(t).resync = ResyncPeriod(t)
          /\ NewInformer(t).transform = factory.transform
          /\ t \in Resources =>
                 NewInformer(t).watches = <<factory.namespace, factory.tweak>>
      BY DEF NewInformer, NewFilteredLabelerInformer
    <2> QED BY <2>1, <2>2, SetByLast
  <1> QED BY <1>1, <1>2, ConfiguredNext, FactoryInvariant, PTL DEF Spec

(* After a Shutdown has returned nothing runs.                             *)
THEOREM NothingRunsAfterShutdown == Spec => []ShutdownComplete
  <1>1. IInv => ShutdownComplete
    BY DEF IInv, CountInv, ShutdownComplete
  <1> QED BY <1>1, FactoryInvariant, PTL

(* Who started, waited and heard no no has filled caches.                  *)
THEOREM ReadyIsSynced == Spec => []ReadyMeansSynced
  <1>1. IInv => ReadyMeansSynced
    BY DEF IInv, WaitInv, ReadyMeansSynced
  <1> QED BY <1>1, FactoryInvariant, PTL

(* While somebody waits on the WaitGroup nobody adds to it.                *)
THEOREM WaitGroupSafe == Spec => WaitGroupRespected
  <1>1. ASSUME IInv, [Next]_vars, NEW v \in Users, caller[v].pc = "drain"
        PROVE  wg' <= wg
    <2>1. wg \in Nat /\ shuttingDown
      BY <1>1 DEF IInv, TypeOK, CountInv
    <2>2. UNCHANGED wg => wg' <= wg
      BY <2>1
    <2>3. \A u \in Users, t \in Types : InformerFor(u, t) => wg' <= wg
      BY <2>2 DEF InformerFor, goroutines
    <2>4. \A u \in Users, c \in Channels : Start(u, c) => wg' <= wg
      BY <2>1, <2>2 DEF Start, goroutines
    <2>5. \A u \in Users : Shutdown(u) \/ ShutdownReturns(u) => wg' <= wg
      BY <2>2 DEF Shutdown, ShutdownReturns, goroutines
    <2>6. \A u \in Users : (\/ \E c \in Channels : WaitForCacheSync(u, c)
                            \/ \E t \in Types : Poll(u, t)
                            \/ WaitReturns(u)) => wg' <= wg
      BY <2>2 DEF WaitForCacheSync, Poll, WaitReturns, goroutines
    <2>7. \A t \in Types : Sync(t) \/ Finish(t) => wg' <= wg
      BY <1>1, <2>2, FinishCounts DEF Sync, goroutines
    <2>8. \A c \in Channels : CloseChannel(c) => wg' <= wg
      BY <2>2 DEF CloseChannel, goroutines
    <2>9. UNCHANGED vars => wg' <= wg
      BY <2>2 DEF vars, goroutines
    <2> QED BY <1>1, <2>3, <2>4, <2>5, <2>6, <2>7, <2>8, <2>9, StepCases
  <1>2. IInv /\ [Next]_vars
            => [(\E u \in Users : caller[u].pc = "drain") => wg' <= wg]_vars
    BY <1>1
  <1> QED BY <1>2, FactoryInvariant, PTL DEF Spec, WaitGroupRespected

(* An informer is run at most once, with one channel.                      *)
THEOREM InformersRunOnce == Spec => RunsOnce
  <1>1. ASSUME IInv, [Next]_vars, NEW t \in Types, run[t].pc # "none"
        PROVE  run'[t].chan = run[t].chan /\ (run[t].pc = "done" => run'[t].pc = "done")
    <2> DEFINE Kept == run'[t].chan = run[t].chan
                       /\ (run[t].pc = "done" => run'[t].pc = "done")
    <2>1. run'[t] = run[t] => Kept
      OBVIOUS
    <2>3. \A u \in Users, s \in Types : InformerFor(u, s) => Kept
      BY <2>1 DEF InformerFor, goroutines
    <2>4. ASSUME NEW u \in Users, NEW c \in Channels, Start(u, c) PROVE Kept
      <3>1. t \notin ToStart
        BY <1>1 DEF ToStart, IInv, TableInv
      <3> QED BY <2>1, <2>4, <3>1 DEF Start, Launch, goroutines
    <2>5. \A u \in Users : Shutdown(u) \/ ShutdownReturns(u) => Kept
      BY <2>1 DEF Shutdown, ShutdownReturns, goroutines
    <2>6. \A u \in Users : (\/ \E c \in Channels : WaitForCacheSync(u, c)
                            \/ \E s \in Types : Poll(u, s)
                            \/ WaitReturns(u)) => Kept
      BY <2>1 DEF WaitForCacheSync, Poll, WaitReturns, goroutines
    <2>7. \A s \in Types : Sync(s) \/ Finish(s) => Kept
      BY <1>1, <2>1 DEF Sync, Finish, goroutines, IInv, TypeOK, RunStates
    <2>8. \A c \in Channels : CloseChannel(c) => Kept
      BY <2>1 DEF CloseChannel, goroutines
    <2>9. UNCHANGED vars => Kept
      BY <2>1 DEF vars, goroutines
    <2> HIDE DEF Kept
    <2>10. Kept
      BY <1>1, <2>3, <2>4, <2>5, <2>6, <2>7, <2>8, <2>9, StepCases
    <2> QED BY <2>10 DEF Kept
  <1>2. IInv /\ [Next]_vars => [\A t \in Types : run[t].pc # "none" =>
            /\ run'[t].chan = run[t].chan
            /\ run[t].pc = "done" => run'[t].pc = "done"]_vars
    BY <1>1
  <1> QED BY <1>2, FactoryInvariant, PTL DEF Spec, RunsOnce

=============================================================================
