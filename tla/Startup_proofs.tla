--------------------------- MODULE Startup_proofs --------------------------
(***************************************************************************)
(* The process, whatever it is linked with and however it is configured,   *)
(* for any order of the injectors and any schedule of its goroutines.      *)
(***************************************************************************)
EXTENDS Startup, FactoryOptions_proofs, SequenceTheorems, TLAPS

(* The phases before the informers are run.                                *)
Building == {"start", "clients", "factories", "informers", "filtered", "configure",
             "construct", "launch"}

FiltersGiven ==
    program.filtered =>
        /\ program.selectors # NotGiven
        /\ \A selector \in Range(program.selectors) : HasFilteredFactory(selector)

(* What the injectors that were called have left behind.                   *)
Provided ==
    /\ FilteredOne \in todo => program.filtered
    /\ phase = "clients" => \A t \in Types : HasClient(t) \/ <<t, Plain>> \in todo
    /\ phase \in {"factories", "informers", "filtered", "configure", "construct"} =>
           \A t \in Types : HasClient(t)
    /\ phase = "factories" =>
           /\ \A t \in Types : HasFactory(t) \/ <<t, Plain>> \in todo
           /\ FilteredOne \in todo \/ FiltersGiven
    /\ phase \in {"informers", "filtered"} =>
           FiltersGiven /\ \A t \in Types : HasFactory(t)
    /\ phase = "informers" => \A t \in Types : HasInformer(t) \/ <<t, Plain>> \in todo
    /\ phase \in {"filtered", "configure", "construct"} =>
           \A t \in Types : HasInformer(t)

Defaulted == phase \notin {"start", "killed"} => config.qps # 0 /\ config.burst # 0

(* What runs and has synced, before the informers are run and after.       *)
Ran ==
    /\ accessors = Range(list)
    /\ phase \in Building =>
           /\ \A i \in DOMAIN list : run[i] = "none"
           /\ synced = {} /\ at = 1
           /\ member["controllers"] = "none"
    /\ phase = "launch" => handled = PlainKeys
    /\ phase = "sync" => handled = PlainKeys /\ member["controllers"] = "none"
    /\ 0 < at /\ at <= Len(list) + 1
    /\ \A i \in DOMAIN list : i < at => list[i] \in synced
    /\ \A key \in synced : \E i \in DOMAIN list :
           list[i] = key /\ (run[i] = "running" \/ stopped)
    /\ member["controllers"] = "running" => PlainKeys \subseteq handled \cap synced

(* A controller that has returned, or that never started a worker.         *)
Returned ==
    /\ ~program.electable => ~busy
    /\ member["controllers"] \in {"failed", "returned"} => queued = 0 /\ ~busy

IInv ==
    /\ TypeOK
    /\ Provided
    /\ Defaulted
    /\ PanicsForCause
    /\ OwnLimiters
    /\ Ran
    /\ Returned
    /\ ExitsDrained

-----------------------------------------------------------------------------
(* What context.WithValue makes of a context.                              *)
LEMMA ValuesAdded ==
    ASSUME NEW values, NEW added
    PROVE  /\ DOMAIN Overlay(values, added) = DOMAIN values \cup DOMAIN added
           /\ \A key \in DOMAIN added : Overlay(values, added)[key] = added[key]
           /\ \A key \in DOMAIN values \ DOMAIN added :
                  Overlay(values, added)[key] = values[key]
  BY DEF Overlay

(* A sequence is one over any set that its elements are in.                *)
LEMMA ElementsDecide ==
    ASSUME NEW S, NEW T, NEW seq \in Seq(S), \A i \in 1 .. Len(seq) : seq[i] \in T
    PROVE  seq \in Seq(T)
  <1>1. PICK n \in Nat : seq \in [1 .. n -> S]
    BY SeqDef
  <1>2. Len(seq) = n
    BY <1>1
  <1>3. seq \in [1 .. n -> T]
    BY <1>1, <1>2
  <1> QED BY <1>3, SeqDef

(* A client set's config has a limiter of its own, or the user's, or none. *)
LEMMA ClientConfig ==
    ASSUME TypeOK, OwnLimiters, NEW t \in Types
    PROVE  /\ Client(t) \in ConfigStates
           /\ ~program.fake => Client(t).limiter \in
                  IF config.limiter = "given" THEN {"given"} ELSE {"none", t}
  <1>1. CASE program.fake
    BY <1>1 DEF Client, ConfigStates
  <1>2. CASE ~program.fake
    <2> DEFINE c == SetConfigDefaults(config)
    <2>1. c \in ConfigStates /\ c.limiter = config.limiter
      BY DEF TypeOK, ConfigStates, SetConfigDefaults
    <2>2. NewForConfig(config, t) = IF c.limiter = "none" /\ c.qps > 0
                                      THEN [c EXCEPT !.limiter = t] ELSE c
      BY DEF NewForConfig, NewForConfigAndClient
    <2> HIDE DEF c
    <2>3. [c EXCEPT !.limiter = t] \in ConfigStates /\ [c EXCEPT !.limiter = t].limiter = t
      BY <2>1 DEF ConfigStates
    <2>4. Client(t) = NewForConfig(config, t)
      BY <1>2 DEF Client
    <2> QED BY <2>1, <2>2, <2>3, <2>4 DEF OwnLimiters
  <1> QED BY <1>1, <1>2

-----------------------------------------------------------------------------
(* The injectors.                                                          *)

LEMMA PanicKeeps ==
    ASSUME IInv, Panics, phase \notin {"start", "killed"},
           \/ program.filtered /\ program.selectors = NotGiven
           \/ ~program.fake /\ config.limiter = "none" /\ config.qps > 0 /\ config.burst < 0
    PROVE  IInv'
  <1> USE DEF Panics, context, running, serving
  <1>1. TypeOK'
    BY DEF IInv, TypeOK, Ends
  <1>2. Provided' /\ Defaulted' /\ PanicsForCause'
    BY DEF IInv, Provided, Defaulted, PanicsForCause
  <1>3. OwnLimiters'
    BY DEF IInv, OwnLimiters
  <1>4. Ran' /\ Returned' /\ ExitsDrained'
    BY DEF IInv, Ran, Building, Returned, ExitsDrained
  <1> QED BY <1>1, <1>2, <1>3, <1>4 DEF IInv

(* An injector that adds a client or a factory moves nothing else.         *)
LEMMA ContextKeeps ==
    ASSUME IInv, NEW kind \in {"clients", "factories"}, NEW injector,
           Injects(kind, injector), UNCHANGED <<config, accessors, list, run>>,
           \A t \in DOMAIN clients' : t \in Types /\ clients'[t] \in ConfigStates,
           DOMAIN factories' \subseteq Keys, Provided', OwnLimiters'
    PROVE  IInv'
  <1> USE DEF Injects, serving
  <1>1. TypeOK'
    BY DEF IInv, TypeOK
  <1>2. Defaulted' /\ PanicsForCause'
    BY DEF IInv, Defaulted, PanicsForCause
  <1>3. Ran' /\ Returned' /\ ExitsDrained'
    BY DEF IInv, Ran, Building, Returned, ExitsDrained
  <1> QED BY <1>1, <1>2, <1>3 DEF IInv

(* An injector that adds informers lists them behind those there are; none *)
(* of them runs yet.                                                       *)
LEMMA ListsKeeps ==
    ASSUME IInv, NEW kind \in {"informers", "filtered"}, NEW injector,
           Injects(kind, injector), NEW keys \in Seq(Keys), Lists(keys), Provided'
    PROVE  IInv'
  <1> USE DEF Injects, serving, Lists
  <1>1. list \in Seq(accessors) /\ accessors = Range(list) /\ accessors \subseteq Keys
    BY DEF IInv, TypeOK, Ran
  <1>2. /\ Len(list) \in Nat /\ DOMAIN list = 1 .. Len(list)
        /\ Len(keys) \in Nat /\ DOMAIN keys = 1 .. Len(keys)
        /\ \A i \in DOMAIN list : list[i] \in accessors
        /\ \A i \in DOMAIN keys : keys[i] \in Keys
    BY <1>1
  <1>3. /\ Len(list') = Len(list) + Len(keys) /\ DOMAIN list' = 1 .. Len(list')
        /\ \A i \in DOMAIN list' :
               list'[i] = IF i <= Len(list) THEN list[i] ELSE keys[i - Len(list)]
    BY <1>1, <1>2
  <1>4. Range(list') = Range(list) \cup Range(keys)
    <2>1. ASSUME NEW i \in DOMAIN list' PROVE list'[i] \in Range(list) \cup Range(keys)
      <3>1. CASE i <= Len(list)
        BY <3>1, <2>1, <1>2, <1>3 DEF Range
      <3>2. CASE ~(i <= Len(list))
        <4>1. i - Len(list) \in DOMAIN keys
          BY <3>2, <2>1, <1>2, <1>3
        <4> QED BY <4>1, <3>2, <2>1, <1>3 DEF Range
      <3> QED BY <3>1, <3>2
    <2>2. ASSUME NEW i \in DOMAIN list PROVE list[i] \in Range(list')
      <3>1. i \in DOMAIN list' /\ list'[i] = list[i]
        BY <2>2, <1>2, <1>3
      <3> QED BY <3>1 DEF Range
    <2>3. ASSUME NEW i \in DOMAIN keys PROVE keys[i] \in Range(list')
      <3>1. /\ Len(list) + i \in DOMAIN list' /\ ~(Len(list) + i <= Len(list))
            /\ (Len(list) + i) - Len(list) = i
        BY <2>3, <1>2, <1>3
      <3>2. list'[Len(list) + i] = keys[i]
        BY <3>1, <1>3
      <3> QED BY <3>1, <3>2 DEF Range
    <2>4. /\ \A x \in Range(list') : \E i \in DOMAIN list' : x = list'[i]
          /\ \A x \in Range(list) : \E i \in DOMAIN list : x = list[i]
          /\ \A x \in Range(keys) : \E i \in DOMAIN keys : x = keys[i]
      BY DEF Range
    <2>5. Range(list') \subseteq Range(list) \cup Range(keys)
      BY <2>1, <2>4
    <2>6. Range(list) \subseteq Range(list') /\ Range(keys) \subseteq Range(list')
      BY <2>2, <2>3, <2>4
    <2> QED BY <2>5, <2>6
  <1>5. Range(keys) \subseteq Keys /\ accessors' = Range(list')
    BY <1>1, <1>2, <1>4 DEF Range
  <1>6. list' \in Seq(accessors')
    <2>1. \A i \in 1 .. Len(list') : list'[i] \in accessors'
      BY <1>5, <1>3 DEF Range
    <2>2. list' \in Seq(Keys)
      BY <1>1
    <2> QED BY <2>1, <2>2, ElementsDecide
  <1>7. synced = {} /\ at = 1 /\ Len(list') \in Nat
    BY <1>2, <1>3 DEF IInv, Ran, Building
  <1>8. TypeOK'
    <2>1. handled' \subseteq Range(list')
      BY <1>4 DEF IInv, TypeOK
    <2>2. synced' \subseteq Range(list') /\ at' \in Nat
      BY <1>7
    <2>3. run' \in [DOMAIN list' -> {"none", "go", "running", "returned"}]
      OBVIOUS
    <2>4. accessors' \subseteq Keys
      BY <1>1, <1>5
    <2> QED BY <2>1, <2>2, <2>3, <2>4, <1>6 DEF IInv, TypeOK
  <1>9. Defaulted' /\ PanicsForCause' /\ OwnLimiters'
    BY DEF IInv, Defaulted, PanicsForCause, OwnLimiters
  <1>10. Ran'
    <2>1. \A i \in DOMAIN list' : run'[i] = "none"
      OBVIOUS
    <2>2. synced' = {} /\ at' = 1 /\ 0 < at' /\ at' <= Len(list') + 1
      BY <1>7
    <2>3. \A i \in DOMAIN list' : ~(i < at')
      BY <1>3, <2>2, <1>7
    <2>4. member'["controllers"] = "none" /\ phase' \notin {"launch", "sync"}
      BY DEF IInv, Ran, Building
    <2> QED BY <2>1, <2>2, <2>3, <2>4, <1>5 DEF Ran
  <1>11. Returned' /\ ExitsDrained'
    BY DEF IInv, Returned, ExitsDrained
  <1> QED BY <1>8, <1>9, <1>10, <1>11 DEF IInv

LEMMA ClientKeeps ==
    ASSUME IInv, NEW t \in Types, WithClientFromConfig(t) PROVE IInv'
  <1>1. CASE ~program.fake /\ BurstRefused(config)
    <2>1. phase = "clients" /\ Panics
      BY <1>1 DEF WithClientFromConfig
    <2>2. config.burst \in Int /\ config.burst # 0
      BY <2>1 DEF IInv, TypeOK, ConfigStates, Defaulted
    <2>3. config.limiter = "none" /\ config.qps > 0 /\ config.burst < 0
      BY <1>1, <2>2 DEF BurstRefused
    <2> QED BY <1>1, <2>1, <2>3, PanicKeeps
  <1>2. CASE ~(~program.fake /\ BurstRefused(config))
    <2>1. /\ Injects("clients", <<t, Plain>>)
          /\ UNCHANGED <<config, factories, accessors, list, run>>
          /\ clients' = Overlay(clients, [x \in {t} |-> Client(x)])
      BY <1>2 DEF WithClientFromConfig
    <2>2. /\ DOMAIN clients' = DOMAIN clients \cup {t} /\ clients'[t] = Client(t)
          /\ \A u \in DOMAIN clients \ {t} : clients'[u] = clients[u]
      BY <2>1, ValuesAdded
    <2>3. /\ Client(t) \in ConfigStates
          /\ ~program.fake => Client(t).limiter \in
                IF config.limiter = "given" THEN {"given"} ELSE {"none", t}
      BY ClientConfig DEF IInv
    <2>4. \A u \in DOMAIN clients' : u \in Types /\ clients'[u] \in ConfigStates
      BY <2>2, <2>3 DEF IInv, TypeOK
    <2>5. OwnLimiters'
      BY <2>1, <2>2, <2>3 DEF IInv, OwnLimiters, Injects
    <2>6. Provided'
      BY <2>1, <2>2 DEF IInv, Provided, HasClient, Injects
    <2>7. DOMAIN factories' \subseteq Keys
      BY <2>1 DEF IInv, TypeOK
    <2> QED BY <2>1, <2>4, <2>5, <2>6, <2>7, ContextKeeps
  <1> QED BY <1>1, <1>2

LEMMA FactoryKeeps ==
    ASSUME IInv, NEW t \in Types, WithInformerFactory(t) PROVE IInv'
  <1>1. phase = "factories" /\ HasClient(t)
    BY DEF WithInformerFactory, Injects, IInv, Provided
  <1>2. /\ Injects("factories", <<t, Plain>>)
        /\ UNCHANGED <<config, clients, accessors, list, run>>
        /\ DOMAIN factories' = DOMAIN factories \cup {<<t, Plain>>}
    <2> DEFINE added == [key \in {<<t, Plain>>} |-> NewSharedInformerFactoryWithOptions(Scope)]
    <2>1. /\ Injects("factories", <<t, Plain>>)
          /\ UNCHANGED <<config, clients, accessors, list, run>>
          /\ factories' = Overlay(factories, added)
      BY <1>1 DEF WithInformerFactory
    <2>2. DOMAIN added = {<<t, Plain>>}
      OBVIOUS
    <2> HIDE DEF added
    <2> QED BY <2>1, <2>2, ValuesAdded
  <1>3. DOMAIN factories' \subseteq Keys
    BY <1>2 DEF IInv, TypeOK, Keys
  <1>4. Provided'
    <2>1. \A u \in Types : HasFactory(u)' \/ <<u, Plain>> \in todo'
      BY <1>1, <1>2 DEF IInv, Provided, HasFactory, Injects
    <2>2. (FilteredOne \in todo \/ FiltersGiven)'
      BY <1>1, <1>2 DEF IInv, Provided, FiltersGiven, HasFilteredFactory, Injects,
                         FilteredOne, Plain
    <2> QED BY <2>1, <2>2, <1>1, <1>2 DEF IInv, Provided, Injects, HasClient
  <1>5. /\ OwnLimiters'
        /\ \A u \in DOMAIN clients' : u \in Types /\ clients'[u] \in ConfigStates
    BY <1>2 DEF IInv, OwnLimiters, TypeOK, Injects
  <1> QED BY <1>2, <1>3, <1>4, <1>5, ContextKeeps

LEMMA FilteredFactoriesKeep ==
    ASSUME IInv, WithFilteredFactories PROVE IInv'
  <1>1. phase = "factories" /\ HasClient("labeler") /\ program.filtered
    BY DEF WithFilteredFactories, Injects, IInv, Provided, Types
  <1>2. CASE program.selectors = NotGiven
    <2>1. Panics
      BY <1>2 DEF WithFilteredFactories
    <2> QED BY <1>1, <1>2, <2>1, PanicKeeps
  <1>3. CASE program.selectors # NotGiven
    <2>1. /\ Injects("factories", FilteredOne)
          /\ UNCHANGED <<config, clients, accessors, list, run>>
          /\ DOMAIN factories' = DOMAIN factories \cup ({"labeler"} \X Range(program.selectors))
      <3>1. /\ Injects("factories", FilteredOne)
            /\ UNCHANGED <<config, clients, accessors, list, run>>
            /\ \E added : /\ factories' = Overlay(factories, added)
                          /\ DOMAIN added = {"labeler"} \X Range(program.selectors)
        BY <1>1, <1>3 DEF WithFilteredFactories
      <3> QED BY <3>1, ValuesAdded
    <2>2. DOMAIN factories' \subseteq Keys
      BY <2>1 DEF IInv, TypeOK, Keys, Types
    <2>3. FiltersGiven'
      BY <2>1, <1>3 DEF FiltersGiven, HasFilteredFactory, Injects
    <2>4. \A u \in Types : HasFactory(u)' \/ <<u, Plain>> \in todo'
      BY <1>1, <2>1 DEF IInv, Provided, HasFactory, Injects, FilteredOne, Plain
    <2>5. Provided'
      BY <1>1, <2>1, <2>3, <2>4 DEF IInv, Provided, Injects, HasClient
    <2>6. /\ OwnLimiters'
          /\ \A u \in DOMAIN clients' : u \in Types /\ clients'[u] \in ConfigStates
      BY <2>1 DEF IInv, OwnLimiters, TypeOK, Injects
    <2> QED BY <2>1, <2>2, <2>5, <2>6, ContextKeeps
  <1> QED BY <1>2, <1>3

LEMMA InformerKeeps ==
    ASSUME IInv, NEW t \in Types, WithInformer(t) PROVE IInv'
  <1>1. phase = "informers" /\ HasFactory(t)
    BY DEF WithInformer, Injects, IInv, Provided
  <1>2. Injects("informers", <<t, Plain>>) /\ Lists(<< <<t, Plain>> >>)
    BY <1>1 DEF WithInformer
  <1>3. << <<t, Plain>> >> \in Seq(Keys) /\ Range(<< <<t, Plain>> >>) = {<<t, Plain>>}
    <2>1. <<t, Plain>> \in Keys
      BY DEF Keys
    <2> QED BY <2>1 DEF Range
  <1>4. accessors' = accessors \cup {<<t, Plain>>}
    BY <1>2, <1>3 DEF Lists
  <1>5. Provided'
    BY <1>1, <1>2, <1>4 DEF IInv, Provided, Injects, Lists, HasClient, HasFactory, HasInformer,
                            FiltersGiven, HasFilteredFactory
  <1> QED BY <1>2, <1>3, <1>5, ListsKeeps

LEMMA FilteredInformersKeep ==
    ASSUME IInv, WithFilteredInformers PROVE IInv'
  <1> DEFINE selectors == program.selectors
             keys == [i \in DOMAIN selectors |-> <<"labeler", selectors[i]>>]
  <1>1. phase = "filtered" /\ program.filtered /\ FiltersGiven
    BY DEF WithFilteredInformers, Injects, IInv, Provided
  <1>2. Injects("filtered", FilteredOne) /\ Lists(keys)
    BY <1>1 DEF WithFilteredInformers, FiltersGiven
  <1>3. program \in Programs /\ selectors \in Seq(Range(selectors))
    BY ProgramsAssumption DEF IInv, TypeOK
  <1>4. keys \in Seq(Keys)
    <2>1. Len(selectors) \in Nat /\ DOMAIN selectors = 1 .. Len(selectors)
      BY <1>3
    <2>2. \A i \in DOMAIN selectors : <<"labeler", selectors[i]>> \in Keys
      BY <1>3 DEF Keys, Range, Types
    <2>3. keys \in [1 .. Len(selectors) -> Keys]
      BY <2>1, <2>2
    <2> QED BY <2>1, <2>3
  <1>5. accessors \subseteq accessors'
    BY <1>2 DEF Lists
  <1>6. Provided'
    BY <1>1, <1>2, <1>5 DEF IInv, Provided, Injects, Lists, HasClient, HasFactory, HasInformer,
                            FiltersGiven, HasFilteredFactory
  <1> HIDE DEF keys
  <1> QED BY <1>2, <1>4, <1>6, ListsKeeps

-----------------------------------------------------------------------------
(* The rest of main.                                                       *)

LEMMA DefaultKeeps == ASSUME IInv, Default PROVE IInv'
  <1> USE DEF Default, context, running, serving
  <1>1. config \in ConfigStates /\ phase = "start"
    BY DEF IInv, TypeOK
  <1>2. /\ config' \in ConfigStates /\ config'.qps # 0 /\ config'.burst # 0
        /\ config'.limiter = config.limiter
    <2>1. config' = [qps |-> IF config.qps = 0 THEN 5 ELSE config.qps,
                     burst |-> IF config.burst = 0 THEN 10 ELSE config.burst,
                     limiter |-> config.limiter, userAgent |-> config.userAgent]
      BY <1>1 DEF ConfigStates
    <2>2. /\ config.qps \in Int /\ config.burst \in Int
          /\ config.limiter \in {"none", "given"} \cup Types
          /\ config.userAgent \in {"", "given", "default"}
      BY <1>1 DEF ConfigStates
    <2>3. \A n, m \in Int : m # 0 =>
              (IF n = 0 THEN m ELSE n) \in Int /\ (IF n = 0 THEN m ELSE n) # 0
      OBVIOUS
    <2>4. /\ config'.qps \in Int /\ config'.qps # 0
          /\ config'.burst \in Int /\ config'.burst # 0
      <3>1. /\ config'.qps = IF config.qps = 0 THEN 5 ELSE config.qps
            /\ config'.burst = IF config.burst = 0 THEN 10 ELSE config.burst
        BY <2>1
      <3>2. 5 \in Int /\ 10 \in Int /\ 5 # 0 /\ 10 # 0
        OBVIOUS
      <3> QED BY <2>2, <2>3, <3>1, <3>2, Zenon
    <2> QED BY <2>1, <2>2, <2>4 DEF ConfigStates
  <1>3. TypeOK'
    BY <1>2 DEF IInv, TypeOK, Phases, Linked
  <1>4. Provided'
    BY DEF IInv, Provided, Linked, PlainKeys, Types, FilteredOne, Plain
  <1>5. Defaulted' /\ PanicsForCause'
    BY <1>2 DEF Defaulted, PanicsForCause
  <1>6. OwnLimiters'
    BY <1>2 DEF IInv, OwnLimiters
  <1>7. Ran' /\ Returned' /\ ExitsDrained'
    BY DEF IInv, Ran, Building, Returned, ExitsDrained
  <1> QED BY <1>3, <1>4, <1>5, <1>6, <1>7 DEF IInv

LEMMA NextKindKeeps ==
    ASSUME IInv, NEW kind \in {"clients", "factories", "informers", "filtered"}, NextKind(kind)
    PROVE  IInv'
  <1> USE DEF NextKind, context, running, serving
  <1>1. TypeOK'
    BY DEF IInv, TypeOK, After, Linked, Phases, Ends
  <1>2. Provided'
    <2>1. \A t \in Types : <<t, Plain>> \in PlainKeys
      BY DEF PlainKeys
    <2>2. FilteredOne \notin PlainKeys
      BY DEF FilteredOne, PlainKeys, Plain
    <2>3. CASE kind = "clients"
      <3>1. /\ phase = "clients" /\ todo = {} /\ phase' = "factories"
            /\ todo' = PlainKeys \cup (IF program.filtered THEN {FilteredOne} ELSE {})
        BY <2>3 DEF After, Linked
      <3>2. \A t \in Types : HasClient(t)'
        BY <3>1 DEF IInv, Provided, HasClient
      <3>3. FilteredOne \in todo' <=> program.filtered
        BY <2>2, <3>1
      <3>4. (FilteredOne \in todo \/ FiltersGiven)'
        BY <3>3 DEF FiltersGiven
      <3> QED BY <2>1, <3>1, <3>2, <3>3, <3>4 DEF Provided
    <2>4. CASE kind = "factories"
      BY <2>1, <2>2, <2>4 DEF IInv, Provided, After, Linked, HasClient, HasFactory,
                              FiltersGiven, HasFilteredFactory
    <2>5. CASE kind = "informers"
      BY <2>1, <2>2, <2>5 DEF IInv, Provided, After, Linked, HasClient, HasFactory, HasInformer,
                              FiltersGiven, HasFilteredFactory
    <2>6. CASE kind = "filtered"
      BY <2>6 DEF IInv, Provided, After, HasClient, HasInformer
    <2> QED BY <2>3, <2>4, <2>5, <2>6
  <1>3. Defaulted' /\ PanicsForCause' /\ OwnLimiters'
    BY DEF IInv, Defaulted, PanicsForCause, OwnLimiters, After
  <1>4. Ran' /\ Returned' /\ ExitsDrained'
    BY DEF IInv, Ran, Building, Returned, ExitsDrained, After
  <1> QED BY <1>1, <1>2, <1>3, <1>4 DEF IInv

LEMMA ConfigureKeeps == ASSUME IInv, Configure PROVE IInv'
  <1> USE DEF Configure, Goes, context, running, serving
  <1>1. TypeOK'
    BY DEF IInv, TypeOK, Phases, Ends
  <1>2. Provided'
    BY DEF IInv, Provided, HasClient, HasInformer
  <1>3. Defaulted' /\ PanicsForCause' /\ OwnLimiters'
    BY DEF IInv, Defaulted, PanicsForCause, OwnLimiters
  <1>4. Ran' /\ Returned' /\ ExitsDrained'
    BY DEF IInv, Ran, Building, Returned, ExitsDrained
  <1> QED BY <1>1, <1>2, <1>3, <1>4 DEF IInv

(* It finds all that it gets: it has its handler on both informers.        *)
LEMMA NewControllerKeeps == ASSUME IInv, NewController PROVE IInv'
  <1>1. phase = "construct"
    BY DEF NewController, Goes
  <1>2. \A t \in Types : HasInformer(t) /\ HasClient(t)
    BY <1>1 DEF IInv, Provided
  <1>3. /\ handled' = PlainKeys /\ phase' = "launch"
        /\ UNCHANGED <<program, config, todo, context, stopped, list, running, serving>>
    BY <1>2 DEF NewController, Goes
  <1> USE <1>3 DEF context, running, serving
  <1>4. PlainKeys \subseteq Range(list)
    BY <1>2 DEF IInv, Ran, PlainKeys, HasInformer
  <1>5. TypeOK'
    BY <1>4 DEF IInv, TypeOK, Phases
  <1>6. Provided'
    BY <1>1 DEF IInv, Provided
  <1>7. Defaulted' /\ PanicsForCause' /\ OwnLimiters'
    BY <1>1 DEF IInv, Defaulted, PanicsForCause, OwnLimiters
  <1>8. Ran' /\ Returned' /\ ExitsDrained'
    BY <1>1 DEF IInv, Ran, Building, Returned, ExitsDrained
  <1> QED BY <1>5, <1>6, <1>7, <1>8 DEF IInv

LEMMA LaunchKeeps == ASSUME IInv, Launch PROVE IInv'
  <1> USE DEF Launch, Goes, context, running, serving
  <1>1. phase = "launch" /\ phase' \in {"fatal", "sync"}
    OBVIOUS
  <1>2. TypeOK'
    <2>1. /\ run' \in [DOMAIN list -> {"none", "go", "running", "returned"}]
          /\ member' \in [Members -> {"none", "running", "draining", "stuck", "failed",
                                      "returned"}]
      BY DEF IInv, TypeOK, Members
    <2>2. /\ UNCHANGED <<program, config, todo, context, list, handled, synced, at, stopped,
                         queued, busy>>
          /\ phase' \in Phases \cup Ends
      BY <1>1 DEF Phases, Ends
    <2> HIDE DEF Launch
    <2> QED BY <2>1, <2>2 DEF IInv, TypeOK
  <1>3. Provided' /\ Defaulted' /\ PanicsForCause' /\ OwnLimiters'
    BY <1>1 DEF IInv, Provided, Defaulted, PanicsForCause, OwnLimiters
  <1>4. member'["controllers"] = "none"
    BY <1>1 DEF IInv, TypeOK, Members, Ran, Building
  <1>5. synced' = {} /\ at' = 1 /\ handled' = PlainKeys
    BY <1>1 DEF IInv, Ran, Building
  <1>6. Ran'
    BY <1>1, <1>4, <1>5 DEF IInv, Ran, Building
  <1>7. Returned' /\ ExitsDrained'
    BY <1>1, <1>4 DEF IInv, Returned, ExitsDrained
  <1> QED BY <1>2, <1>3, <1>6, <1>7 DEF IInv

(* When the last informer has been waited for, all have synced.            *)
LEMMA WaitForSyncKeeps == ASSUME IInv, WaitForSync PROVE IInv'
  <1> USE DEF Goes, context, running, serving
  <1>1. phase = "sync"
    BY DEF WaitForSync
  <1>2. Len(list) \in Nat /\ DOMAIN list = 1 .. Len(list) /\ at \in Nat /\ at <= Len(list) + 1
    BY DEF IInv, TypeOK, Ran
  <1>3. Provided' /\ Defaulted' /\ PanicsForCause' /\ OwnLimiters'
    BY <1>1 DEF WaitForSync, IInv, Provided, Defaulted, PanicsForCause, OwnLimiters
  <1>4. CASE at \in DOMAIN list /\ list[at] \in synced
    <2>1. /\ phase' = "sync" /\ at' = at + 1
          /\ UNCHANGED <<program, config, todo, context, stopped, list, handled, run, synced,
                         serving>>
      BY <1>4 DEF WaitForSync
    <2>2. TypeOK' /\ 0 < at' /\ at' <= Len(list') + 1
      BY <1>2, <1>4, <2>1 DEF IInv, TypeOK, Phases
    <2>3. \A i \in DOMAIN list' : i < at' => list'[i] \in synced'
      BY <1>2, <1>4, <2>1 DEF IInv, Ran
    <2>4. Ran'
      BY <1>1, <2>1, <2>2, <2>3 DEF IInv, Ran, Building
    <2>5. Returned' /\ ExitsDrained'
      BY <2>1 DEF IInv, Returned, ExitsDrained
    <2> QED BY <1>3, <2>2, <2>4, <2>5 DEF IInv
  <1>5. CASE at \in DOMAIN list /\ list[at] \notin synced
    <2>1. /\ phase' = "fatal"
          /\ UNCHANGED <<program, config, todo, context, stopped, list, handled, running,
                         serving>>
      BY <1>5 DEF WaitForSync
    <2>2. TypeOK'
      BY <2>1 DEF IInv, TypeOK, Ends
    <2>3. Ran'
      BY <1>1, <2>1 DEF IInv, Ran, Building
    <2>4. Returned' /\ ExitsDrained'
      BY <2>1 DEF IInv, Returned, ExitsDrained
    <2> QED BY <1>3, <2>2, <2>3, <2>4 DEF IInv
  <1>6. CASE at \notin DOMAIN list
    <2>1. /\ phase' = "serve"
          /\ member' = [member EXCEPT !["controllers"] = "running", !["probes"] = "running"]
          /\ UNCHANGED <<program, config, todo, context, stopped, list, handled, running,
                         queued, busy>>
      BY <1>6 DEF WaitForSync
    <2>2. TypeOK' /\ member'["controllers"] = "running"
      BY <2>1 DEF IInv, TypeOK, Phases, Members
    <2>3. \A i \in DOMAIN list : i < at
      <3>1. at = Len(list) + 1 \/ at = 0
        BY <1>2, <1>6
      <3>2. at # 0
        BY <1>1 DEF IInv, Ran
      <3> QED BY <1>2, <3>1, <3>2
    <2>4. Range(list) \subseteq synced
      BY <2>3 DEF IInv, Ran, Range
    <2>5. handled = PlainKeys /\ handled \subseteq Range(list)
      BY <1>1 DEF IInv, Ran, TypeOK
    <2>6. Ran'
      BY <2>1, <2>2, <2>4, <2>5 DEF IInv, Ran, Building
    <2>7. Returned' /\ ExitsDrained'
      BY <2>1, <2>2 DEF IInv, Returned, ExitsDrained
    <2> QED BY <1>3, <2>2, <2>6, <2>7 DEF IInv
  <1> QED BY <1>4, <1>5, <1>6

LEMMA DrainKeeps == ASSUME IInv, Drain PROVE IInv'
  <1> USE DEF Drain, Goes, context, running, serving
  <1>1. TypeOK' /\ member'["controllers"] = member["controllers"]
    BY DEF IInv, TypeOK, Phases, Members
  <1>2. Provided' /\ Defaulted' /\ PanicsForCause' /\ OwnLimiters'
    BY DEF IInv, Provided, Defaulted, PanicsForCause, OwnLimiters
  <1>3. Ran' /\ Returned' /\ ExitsDrained'
    BY <1>1 DEF IInv, Ran, Building, Returned, ExitsDrained
  <1> QED BY <1>1, <1>2, <1>3 DEF IInv

LEMMA ExitKeeps == ASSUME IInv, Exit PROVE IInv'
  <1> USE DEF Exit, Goes, context, running, serving
  <1>1. TypeOK'
    BY DEF IInv, TypeOK, Ends
  <1>2. Provided' /\ Defaulted' /\ PanicsForCause' /\ OwnLimiters'
    BY DEF IInv, Provided, Defaulted, PanicsForCause, OwnLimiters
  <1>3. Ran' /\ Returned'
    BY DEF IInv, Ran, Building, Returned
  <1>4. ExitsDrained'
    BY DEF IInv, Returned, ExitsDrained, Members
  <1> QED BY <1>1, <1>2, <1>3, <1>4 DEF IInv

-----------------------------------------------------------------------------
(* The goroutines.                                                         *)

(* An informer runs, syncs while it runs, and returns once it is stopped.  *)
LEMMA MovesKeep ==
    ASSUME IInv, NEW i \in DOMAIN list, NEW from, NEW to \in {"running", "returned"},
           InformerMoves(i, from, to), from = "running" => to = "running" \/ stopped,
           from \in {"go", "running"},
           synced' \subseteq Range(list), synced \subseteq synced',
           \A key \in synced' \ synced : key = list[i] /\ to = "running"
    PROVE  IInv'
  <1> USE DEF InformerMoves, context, serving
  <1>1. TypeOK'
    BY DEF IInv, TypeOK
  <1>2. phase \notin Building /\ run[i] = from /\ run'[i] = to
    BY DEF IInv, TypeOK, Ran
  <1>3. Provided' /\ Defaulted' /\ PanicsForCause' /\ OwnLimiters'
    BY <1>2 DEF IInv, Provided, Defaulted, PanicsForCause, OwnLimiters, Building
  <1>4. \A key \in synced' : \E j \in DOMAIN list' :
            list'[j] = key /\ (run'[j] = "running" \/ stopped')
    <2> SUFFICES ASSUME NEW key \in synced'
                 PROVE  \E j \in DOMAIN list : list[j] = key /\ (run'[j] = "running" \/ stopped)
      OBVIOUS
    <2>1. CASE key \notin synced
      BY <2>1, <1>2
    <2>2. CASE key \in synced
      <3>1. PICK j \in DOMAIN list : list[j] = key /\ (run[j] = "running" \/ stopped)
        BY <2>2 DEF IInv, Ran
      <3>2. run'[j] = "running" \/ stopped
        BY <3>1, <1>2 DEF IInv, TypeOK
      <3> QED BY <3>1, <3>2
    <2> QED BY <2>1, <2>2
  <1>5. Ran'
    BY <1>2, <1>4 DEF IInv, Ran
  <1>6. Returned' /\ ExitsDrained'
    BY DEF IInv, Returned, ExitsDrained
  <1> QED BY <1>1, <1>3, <1>5, <1>6 DEF IInv

LEMMA InformersKeep ==
    ASSUME IInv, NEW i \in DOMAIN list, Run(i) \/ Sync(i) \/ RunReturns(i) PROVE IInv'
  <1>1. synced \subseteq Range(list) /\ list[i] \in Range(list)
    BY DEF IInv, TypeOK, Range
  <1>2. CASE Run(i)
    <2>1. PICK to \in {"running", "returned"} : InformerMoves(i, "go", to) /\ synced' = synced
      BY <1>2 DEF Run
    <2> QED BY <1>1, <2>1, MovesKeep
  <1>3. CASE Sync(i)
    <2>1. InformerMoves(i, "running", "running") /\ synced' = synced \cup {list[i]}
      BY <1>3 DEF Sync
    <2> QED BY <1>1, <2>1, MovesKeep
  <1>4. CASE RunReturns(i)
    <2>1. InformerMoves(i, "running", "returned") /\ synced' = synced /\ stopped
      BY <1>4 DEF RunReturns
    <2> QED BY <1>1, <2>1, MovesKeep
  <1> QED BY <1>2, <1>3, <1>4

(* The work queue: nothing is added once it is shut down, and nothing is   *)
(* taken by a controller that has returned.                                *)
LEMMA QueueKeeps == ASSUME IInv, NEW i, Enqueue(i) \/ Take \/ Done PROVE IInv'
  <1> USE DEF Works, Alive, context, running
  <1>1. queued \in 0 .. MaxQueued /\ MaxQueued \in Nat
    BY QueuedAssumption DEF IInv, TypeOK
  <1>2. queued' \in 0 .. MaxQueued /\ busy' \in BOOLEAN
    <2>1. CASE Enqueue(i)
      BY <1>1, <2>1 DEF Enqueue, IInv, TypeOK
    <2>2. CASE Take
      BY <1>1, <2>2 DEF Take
    <2>3. CASE Done
      BY <1>1, <2>3 DEF Done
    <2> QED BY <2>1, <2>2, <2>3
  <1>3. /\ Alive
        /\ UNCHANGED <<program, config, phase, todo, context, list, handled, running, stopped,
                       member>>
    BY DEF Enqueue, Take, Done
  <1>4. TypeOK'
    BY <1>2, <1>3 DEF IInv, TypeOK
  <1>5. Provided' /\ Defaulted' /\ PanicsForCause' /\ OwnLimiters'
    BY <1>3 DEF IInv, Provided, Defaulted, PanicsForCause, OwnLimiters, HasClient, HasFactory,
                HasInformer, FiltersGiven, HasFilteredFactory
  <1>6. Ran'
    BY <1>3 DEF IInv, Ran
  <1>7. Returned'
    BY <1>3 DEF Enqueue, Take, Done, IInv, Returned
  <1>8. ExitsDrained'
    BY <1>3 DEF Ends, ExitsDrained
  <1> QED BY <1>4, <1>5, <1>6, <1>7, <1>8 DEF IInv

LEMMA MembersKeep ==
    ASSUME IInv, RunContext \/ ServeHealthProbes \/ ListenAndServe PROVE IInv'
  <1>1. PICK m \in Members, to \in {"draining", "stuck", "failed", "returned"} :
            /\ Becomes(m, member[m], to)
            /\ member[m] # "none"
            /\ m = "controllers" /\ to \in {"failed", "returned"} => queued = 0 /\ ~busy
    BY DEF RunContext, ServeHealthProbes, ListenAndServe, Becomes, Members, IInv, Returned
  <1> USE <1>1 DEF Becomes, Alive, context, running
  <1>2. TypeOK'
    BY DEF IInv, TypeOK
  <1>3. \A n \in Members : member'[n] = IF n = m THEN to ELSE member[n]
    BY DEF IInv, TypeOK
  <1>4. "controllers" \in Members
    BY DEF Members
  <1>5. Provided' /\ Defaulted' /\ PanicsForCause' /\ OwnLimiters'
    BY DEF IInv, Provided, Defaulted, PanicsForCause, OwnLimiters, HasClient, HasFactory,
           HasInformer, FiltersGiven, HasFilteredFactory
  <1>6. Ran'
    BY <1>3, <1>4 DEF IInv, Ran
  <1>7. Returned' /\ ExitsDrained'
    BY <1>3, <1>4 DEF IInv, Returned, ExitsDrained
  <1> QED BY <1>2, <1>5, <1>6, <1>7 DEF IInv

LEMMA SignalKeeps == ASSUME IInv, Signal PROVE IInv'
  <1> USE DEF Signal, Alive, Ends, context, running, serving
  <1>1. TypeOK'
    BY DEF IInv, TypeOK
  <1>2. Provided' /\ Defaulted' /\ PanicsForCause' /\ OwnLimiters'
    BY DEF IInv, Provided, Defaulted, PanicsForCause, OwnLimiters, HasClient, HasFactory,
           HasInformer, FiltersGiven, HasFilteredFactory
  <1>3. Ran' /\ Returned' /\ ExitsDrained'
    BY DEF IInv, Ran, Building, Returned, ExitsDrained
  <1> QED BY <1>1, <1>2, <1>3 DEF IInv

-----------------------------------------------------------------------------
LEMMA InitIInv == Init => IInv
  <1> SUFFICES ASSUME Init PROVE IInv
    OBVIOUS
  <1> USE DEF Init
  <1>1. program \in Programs /\ config \in ConfigStates /\ config.limiter \in {"none", "given"}
    BY ConfigsAssumption
  <1>2. Range(list) = {}
    BY DEF Range
  <1>3. TypeOK
    <2>1. DOMAIN list = {} /\ DOMAIN clients = {} /\ DOMAIN factories = {}
      OBVIOUS
    <2>2. /\ list \in Seq(accessors)
          /\ run \in [DOMAIN list -> {"none", "go", "running", "returned"}]
      OBVIOUS
    <2>3. member \in [Members -> {"none", "running", "draining", "stuck", "failed", "returned"}]
      OBVIOUS
    <2>4. queued \in 0 .. MaxQueued /\ at \in Nat
      <3>1. queued = 0 /\ at = 1
        OBVIOUS
      <3> HIDE DEF Init
      <3> QED BY <3>1, QueuedAssumption
    <2>5. busy \in BOOLEAN /\ stopped \in BOOLEAN
      BY Zenon
    <2> QED BY <1>1, <2>1, <2>2, <2>3, <2>4, <2>5 DEF TypeOK, Phases
  <1>4. Provided /\ Defaulted /\ PanicsForCause
    BY DEF Provided, Defaulted, PanicsForCause
  <1>5. OwnLimiters
    BY <1>1 DEF OwnLimiters
  <1>6. Ran
    BY <1>2 DEF Ran, Members
  <1>7. Returned /\ ExitsDrained
    BY DEF Returned, ExitsDrained, Members
  <1> QED BY <1>3, <1>4, <1>5, <1>6, <1>7 DEF IInv

LEMMA StepIInv == IInv /\ [Next]_vars => IInv'
  <1> SUFFICES ASSUME IInv, [Next]_vars PROVE IInv'
    OBVIOUS
  <1>1. CASE Main
    <2>1. CASE Inject
      BY <2>1, ClientKeeps, FactoryKeeps, InformerKeeps, FilteredFactoriesKeep,
         FilteredInformersKeep, NextKindKeeps DEF Inject
    <2>2. CASE Default \/ Configure \/ NewController \/ Launch
      BY <2>2, DefaultKeeps, ConfigureKeeps, NewControllerKeeps, LaunchKeeps
    <2>3. CASE WaitForSync \/ Drain \/ Exit
      BY <2>3, WaitForSyncKeeps, DrainKeeps, ExitKeeps
    <2> QED BY <1>1, <2>1, <2>2, <2>3 DEF Main
  <1>2. CASE \E i \in DOMAIN list : Run(i) \/ Sync(i) \/ RunReturns(i)
    BY <1>2, InformersKeep
  <1>3. CASE (\E i \in DOMAIN list : Enqueue(i)) \/ Take \/ Done
    BY <1>3, QueueKeeps
  <1>4. CASE RunContext \/ ServeHealthProbes \/ ListenAndServe
    BY <1>4, MembersKeep
  <1>5. CASE Signal
    BY <1>5, SignalKeeps
  <1>6. CASE UNCHANGED vars
    <2> USE <1>6 DEF vars, context, running, serving
    <2>1. TypeOK' /\ Defaulted' /\ PanicsForCause' /\ OwnLimiters'
      BY DEF IInv, TypeOK, Defaulted, PanicsForCause, OwnLimiters
    <2>2. Provided'
      BY DEF IInv, Provided, HasClient, HasFactory, HasInformer, FiltersGiven,
             HasFilteredFactory
    <2>3. Ran' /\ Returned' /\ ExitsDrained'
      BY DEF IInv, Ran, Returned, ExitsDrained
    <2> QED BY <2>1, <2>2, <2>3 DEF IInv
  <1> QED BY <1>1, <1>2, <1>3, <1>4, <1>5, <1>6 DEF Next

(* What the parts of IInv say holds throughout.                            *)
THEOREM StartupInvariant == Spec => []IInv
  <1> QED BY InitIInv, StepIInv, PTL DEF Spec

(* Every variable stays within its type.                                   *)
THEOREM SpecTypeOK == Spec => []TypeOK
  <1>1. IInv => TypeOK
    BY DEF IInv
  <1> QED BY StartupInvariant, <1>1, PTL

(* Whatever order the linker chose for the injectors of a kind, a program  *)
(* only panics for the two causes that PanicsForCause names                *)
(* (filtered_factory.go:49-53, clientset.go:82-85).                        *)
THEOREM SpecPanicsForCause == Spec => []PanicsForCause
  <1>1. IInv => PanicsForCause
    BY DEF IInv
  <1> QED BY StartupInvariant, <1>1, PTL

(* No client set shares a rate limiter that another one made               *)
(* (clientset.go:60-87).                                                   *)
THEOREM SpecOwnLimiters == Spec => []OwnLimiters
  <1>1. IInv => OwnLimiters
    BY DEF IInv
  <1> QED BY StartupInvariant, <1>1, PTL

(* When the controllers start, both informers have the handler, have       *)
(* listed, and run unless the process is being stopped (controller.go:     *)
(* 20-21, 50-51).                                                          *)
THEOREM SpecControllersSeeAll == Spec => []ControllersSeeAll
  <1>1. IInv => ControllersSeeAll
    BY DEF IInv, Ran, ControllersSeeAll
  <1> QED BY StartupInvariant, <1>1, PTL

-----------------------------------------------------------------------------
(* What the informers watch.  A factory is in the context under the key    *)
(* that names its selector, before the informers that it makes are.        *)
Named ==
    /\ accessors \subseteq DOMAIN factories
    /\ \A key \in DOMAIN factories :
           /\ factories[key].namespace = program.scope
           /\ factories[key].tweak = IF key[2] = Plain THEN "none" ELSE key[2]

(* The two lists of options that factories are made with.                  *)
SetsScopeAnd(opts, tweak) ==
    /\ NewSharedInformerFactoryWithOptions(opts).namespace = program.scope
    /\ NewSharedInformerFactoryWithOptions(opts).tweak = tweak

LEMMA ScopedFactory ==
    /\ SetsScopeAnd(Scope, "none")
    /\ \A selector : SetsScopeAnd(Scope \o <<WithTweakListOptions(selector)>>, selector)
  <1>1. ASSUME NEW option, option.sets \in {"namespace", "tweak"}, NEW f,
               f = [s \in Settings |-> f[s]]
        PROVE  LET g == Apply(f, option)
               IN  /\ g = [s \in Settings |-> g[s]]
                   /\ \A s \in Settings :
                          g[s] = IF s = option.sets THEN option.to ELSE f[s]
    <2>1. Apply(f, option) = [f EXCEPT ![option.sets] = option.to]
      BY <1>1 DEF Apply
    <2>2. DOMAIN f = Settings
      BY <1>1
    <2> QED BY <1>1, <2>1, <2>2
  <1>2. ASSUME NEW f PROVE f.namespace = f["namespace"] /\ f.tweak = f["tweak"]
    OBVIOUS
  <1>3. /\ NoOptions = [s \in Settings |-> NoOptions[s]]
        /\ NoOptions["namespace"] = "all" /\ NoOptions["tweak"] = "none"
        /\ "namespace" \in Settings /\ "tweak" \in Settings
    BY NoneGiven DEF Settings
  <1>4. NewSharedInformerFactoryWithOptions(<<>>) = NoOptions
    <2>1. Len(<<>>) = 0
      OBVIOUS
    <2>2. PICK after : /\ Steps(after, <<>>)
                       /\ NewSharedInformerFactoryWithOptions(<<>>) = after[Len(<<>>)]
      BY <2>1, OneByOne
    <2> QED BY <2>1, <2>2 DEF Steps
  <1>5. ASSUME NEW o
        PROVE  NewSharedInformerFactoryWithOptions(<<o>>) = Apply(NoOptions, o)
    <2>1. Len(<<o>>) = 1 /\ <<o>>[1] = o
      OBVIOUS
    <2>2. PICK after : /\ Steps(after, <<o>>)
                       /\ NewSharedInformerFactoryWithOptions(<<o>>) = after[Len(<<o>>)]
      BY <2>1, OneByOne
    <2>3. after[0] = NoOptions /\ after[1] = Apply(after[1 - 1], <<o>>[1])
      BY <2>1, <2>2 DEF Steps
    <2> QED BY <2>1, <2>2, <2>3
  <1>6. ASSUME NEW o, NEW p
        PROVE  NewSharedInformerFactoryWithOptions(<<o, p>>) = Apply(Apply(NoOptions, o), p)
    <2>1. Len(<<o, p>>) = 2 /\ <<o, p>>[1] = o /\ <<o, p>>[2] = p
      OBVIOUS
    <2>2. PICK after : /\ Steps(after, <<o, p>>)
                       /\ NewSharedInformerFactoryWithOptions(<<o, p>>) = after[Len(<<o, p>>)]
      BY <2>1, OneByOne
    <2>3. /\ after[0] = NoOptions
          /\ after[1] = Apply(after[1 - 1], <<o, p>>[1])
          /\ after[2] = Apply(after[2 - 1], <<o, p>>[2])
      BY <2>1, <2>2 DEF Steps
    <2> QED BY <2>1, <2>2, <2>3
  <1> DEFINE scope == WithNamespace(program.scope)
            tweak(selector) == WithTweakListOptions(selector)
  <1>7. /\ scope.sets = "namespace" /\ scope.to = program.scope
        /\ \A selector : tweak(selector).sets = "tweak" /\ tweak(selector).to = selector
    BY DEF WithNamespace, WithTweakListOptions
  <1>8. CASE program.scope = "all"
    <2>1. Scope = <<>> /\ \A o : Scope \o <<o>> = <<o>>
      BY <1>8 DEF Scope
    <2> HIDE DEF tweak
    <2>2. ASSUME NEW selector
          PROVE  /\ Apply(NoOptions, tweak(selector))["namespace"] = program.scope
                 /\ Apply(NoOptions, tweak(selector))["tweak"] = selector
      BY <1>1, <1>3, <1>7, <1>8
    <2>3. SetsScopeAnd(<<>>, "none")
      BY <1>2, <1>3, <1>4, <1>8 DEF SetsScopeAnd
    <2>4. \A selector : SetsScopeAnd(<<tweak(selector)>>, selector)
      BY <1>2, <1>5, <2>2 DEF SetsScopeAnd
    <2>5. \A selector : SetsScopeAnd(Scope \o <<tweak(selector)>>, selector)
      BY <2>1, <2>4
    <2> QED BY <2>1, <2>3, <2>5 DEF tweak
  <1>9. CASE program.scope # "all"
    <2>1. Scope = <<scope>>
      BY <1>9 DEF Scope
    <2>4. \A x, o : <<x>> \o <<o>> = <<x, o>>
      <3> TAKE x, o
      <3>1. <<x>> \in Seq({x, o}) /\ <<o>> \in Seq({x, o}) /\ Len(<<x>>) = 1 /\ Len(<<o>>) = 1
        OBVIOUS
      <3>2. /\ <<x>> \o <<o>> \in Seq({x, o}) /\ Len(<<x>> \o <<o>>) = 2
            /\ (<<x>> \o <<o>>)[1] = x /\ (<<x>> \o <<o>>)[2] = o
        BY <3>1
      <3>3. <<x, o>> \in Seq({x, o}) /\ Len(<<x, o>>) = 2 /\ <<x, o>>[1] = x /\ <<x, o>>[2] = o
        OBVIOUS
      <3>4. \A i \in 1 .. 2 : (<<x>> \o <<o>>)[i] = <<x, o>>[i]
        <4>1. \A i \in 1 .. 2 : i = 1 \/ i = 2
          OBVIOUS
        <4> QED BY <3>2, <3>3, <4>1, Zenon
      <3>5. Len(<<x>> \o <<o>>) = Len(<<x, o>>)
        BY <3>2, <3>3
      <3>6. \A i \in 1 .. Len(<<x>> \o <<o>>) : (<<x>> \o <<o>>)[i] = <<x, o>>[i]
        BY <3>2, <3>4, Zenon
      <3> QED BY <3>2, <3>3, <3>5, <3>6, SeqEqual, Zenon
    <2> HIDE DEF scope, tweak
    <2> DEFINE f == Apply(NoOptions, scope)
    <2>2. f = [s \in Settings |-> f[s]] /\ f["namespace"] = program.scope /\ f["tweak"] = "none"
      BY <1>1, <1>3, <1>7
    <2> HIDE DEF f
    <2>3. ASSUME NEW selector
          PROVE  /\ Apply(f, tweak(selector))["namespace"] = program.scope
                 /\ Apply(f, tweak(selector))["tweak"] = selector
      BY <1>1, <1>3, <1>7, <2>2
    <2>5. SetsScopeAnd(<<scope>>, "none")
      BY <1>2, <1>5, <2>2 DEF SetsScopeAnd, f
    <2>6. \A selector : SetsScopeAnd(<<scope, tweak(selector)>>, selector)
      BY <1>2, <1>6, <2>3 DEF SetsScopeAnd, f
    <2>7. \A selector : SetsScopeAnd(Scope \o <<tweak(selector)>>, selector)
      BY <2>1, <2>4, <2>6
    <2> QED BY <2>1, <2>5, <2>7 DEF tweak
  <1> QED BY <1>8, <1>9

LEMMA NamedNext == IInv /\ Named /\ [Next]_vars => Named'
  <1> SUFFICES ASSUME IInv, Named, [Next]_vars PROVE Named'
    OBVIOUS
  <1>1. UNCHANGED <<program, factories, accessors>> => Named'
    BY DEF Named
  <1>2. ASSUME NEW added, factories' = Overlay(factories, added),
               UNCHANGED <<program, accessors>>,
               \A key \in DOMAIN added :
                   /\ added[key].namespace = program.scope
                   /\ added[key].tweak = IF key[2] = Plain THEN "none" ELSE key[2]
        PROVE  Named'
    <2>1. /\ DOMAIN factories' = DOMAIN factories \cup DOMAIN added
          /\ \A key \in DOMAIN added : factories'[key] = added[key]
          /\ \A key \in DOMAIN factories \ DOMAIN added : factories'[key] = factories[key]
      <3>1. factories' = Overlay(factories, added)
        BY <1>2
      <3>2. DOMAIN Overlay(factories, added) = DOMAIN factories \cup DOMAIN added
        BY ValuesAdded
      <3>3. \A key \in DOMAIN added : Overlay(factories, added)[key] = added[key]
        BY ValuesAdded
      <3>4. \A key \in DOMAIN factories \ DOMAIN added :
                Overlay(factories, added)[key] = factories[key]
        BY ValuesAdded
      <3> QED BY <3>1, <3>2, <3>3, <3>4
    <2>2. accessors' \subseteq DOMAIN factories'
      BY <1>2, <2>1 DEF Named
    <2>3. ASSUME NEW key \in DOMAIN factories'
          PROVE  /\ factories'[key].namespace = program.scope
                 /\ factories'[key].tweak = IF key[2] = Plain THEN "none" ELSE key[2]
      BY <1>2, <2>1, <2>3 DEF Named
    <2> QED BY <1>2, <2>2, <2>3 DEF Named
  <1>3. ASSUME NEW keys, Range(keys) \subseteq DOMAIN factories, Lists(keys),
               UNCHANGED program
        PROVE  Named'
    <2>1. accessors' = accessors \cup Range(keys) /\ UNCHANGED <<factories, program>>
      BY <1>3 DEF Lists
    <2> QED BY <1>3, <2>1 DEF Named
  <1>4. CASE Inject
    <2>1. ASSUME NEW t \in Types, WithClientFromConfig(t) PROVE Named'
      BY <1>1, <2>1 DEF WithClientFromConfig, Injects, Panics, context
    <2>2. ASSUME NEW t \in Types, WithInformerFactory(t) PROVE Named'
      <3>1. CASE ~HasClient(t)
        BY <1>1, <2>2, <3>1 DEF WithInformerFactory, Panics, context
      <3>2. CASE HasClient(t)
        <4> DEFINE added == [key \in {<<t, Plain>>} |->
                                NewSharedInformerFactoryWithOptions(Scope)]
        <4>1. factories' = Overlay(factories, added) /\ UNCHANGED <<program, accessors>>
          BY <2>2, <3>2 DEF WithInformerFactory, Injects
        <4>2. \A key \in DOMAIN added :
                  /\ added[key].namespace = program.scope
                  /\ added[key].tweak = IF key[2] = Plain THEN "none" ELSE key[2]
          BY ScopedFactory DEF SetsScopeAnd
        <4> HIDE DEF added
        <4> QED BY <1>2, <4>1, <4>2
      <3> QED BY <3>1, <3>2
    <2>3. ASSUME NEW t \in Types, WithInformer(t) PROVE Named'
      <3>1. CASE ~HasFactory(t)
        BY <1>1, <2>3, <3>1 DEF WithInformer, Panics, context
      <3>2. CASE HasFactory(t)
        <4>1. Lists(<< <<t, Plain>> >>) /\ UNCHANGED program
          BY <2>3, <3>2 DEF WithInformer, Injects
        <4>2. Range(<< <<t, Plain>> >>) \subseteq DOMAIN factories
          BY <3>2 DEF Range, HasFactory
        <4> QED BY <1>3, <4>1, <4>2
      <3> QED BY <3>1, <3>2
    <2>4. ASSUME WithFilteredFactories PROVE Named'
      <3>1. CASE ~HasClient("labeler") \/ program.selectors = NotGiven
        BY <1>1, <2>4, <3>1 DEF WithFilteredFactories, Panics, context
      <3>2. CASE ~(~HasClient("labeler") \/ program.selectors = NotGiven)
        <4> DEFINE place(key) == CHOOSE i \in DOMAIN program.selectors :
                                  program.selectors[i] = key[2]
                  added == [key \in {"labeler"} \X Range(program.selectors) |->
                      NewSharedInformerFactoryWithOptions(
                          Scope \o <<WithTweakListOptions(SelectorOf(place(key)))>>)]
        <4>1. factories' = Overlay(factories, added) /\ UNCHANGED <<program, accessors>>
          BY <2>4, <3>2 DEF WithFilteredFactories, Injects
        <4>2. ASSUME NEW key \in DOMAIN added
              PROVE  /\ added[key].namespace = program.scope
                     /\ added[key].tweak = IF key[2] = Plain THEN "none" ELSE key[2]
          <5>1. key \in {"labeler"} \X Range(program.selectors)
            OBVIOUS
          <5>2. \E i \in DOMAIN program.selectors : program.selectors[i] = key[2]
            BY <5>1 DEF Range
          <5>3. SelectorOf(place(key)) = key[2]
            BY <5>2 DEF SelectorOf
          <5>4. key[2] # Plain
            BY <5>1, ProgramsAssumption DEF IInv, TypeOK
          <5>5. added[key] = NewSharedInformerFactoryWithOptions(
                                 Scope \o <<WithTweakListOptions(key[2])>>)
            BY <5>1, <5>3
          <5> HIDE DEF added
          <5> QED BY <5>4, <5>5, ScopedFactory DEF SetsScopeAnd
        <4> HIDE DEF added
        <4> QED BY <1>2, <4>1, <4>2
      <3> QED BY <3>1, <3>2
    <2>5. ASSUME WithFilteredInformers PROVE Named'
      <3> DEFINE selectors == program.selectors
                keys == [i \in DOMAIN selectors |-> <<"labeler", selectors[i]>>]
      <3>1. CASE Panics
        BY <1>1, <3>1 DEF Panics, context
      <3>2. CASE ~Panics
        <4>1. /\ Lists(keys) /\ UNCHANGED program
              /\ \A selector \in Range(selectors) : HasFilteredFactory(selector)
          BY <2>5, <3>2 DEF WithFilteredInformers, Injects
        <4>2. \A i \in DOMAIN selectors : selectors[i] \in Range(selectors)
          BY DEF Range
        <4>3. Range(keys) \subseteq DOMAIN factories
          BY <4>1, <4>2 DEF Range, HasFilteredFactory
        <4> HIDE DEF keys
        <4> QED BY <1>3, <4>1, <4>3
      <3> QED BY <3>1, <3>2
    <2>6. ASSUME NEW kind, NextKind(kind) PROVE Named'
      BY <1>1, <2>6 DEF NextKind, context
    <2> QED BY <1>4, <2>1, <2>2, <2>3, <2>4, <2>5, <2>6 DEF Inject
  <1>5. CASE \/ Default \/ Configure \/ NewController \/ Launch \/ WaitForSync
             \/ Drain \/ Exit
    BY <1>1, <1>5 DEF Default, Configure, NewController, Launch, WaitForSync, Drain, Exit,
                      Goes, Panics, context
  <1>6. CASE \/ \E i \in DOMAIN list : Run(i) \/ Sync(i) \/ RunReturns(i)
             \/ (\E i \in DOMAIN list : Enqueue(i)) \/ Take \/ Done
    BY <1>1, <1>6 DEF Run, Sync, RunReturns, InformerMoves, Enqueue, Take, Done, Works, context
  <1>7. CASE RunContext \/ ServeHealthProbes \/ ListenAndServe \/ Signal
    BY <1>1, <1>7 DEF RunContext, ServeHealthProbes, ListenAndServe, Becomes, Signal, context
  <1>8. CASE UNCHANGED vars
    BY <1>1, <1>8 DEF vars, context
  <1> QED BY <1>4, <1>5, <1>6, <1>7, <1>8 DEF Next, Main

(* An informer watches with the selector that it is found under, in the    *)
(* namespace of the process, whatever the selectors and the order of the   *)
(* injectors (filtered_factory.go:55-66).                                  *)
THEOREM SpecWatchesAsNamed == Spec => []WatchesAsNamed
  <1>1. Init => Named
    BY DEF Init, Named
  <1>2. Named => WatchesAsNamed
    BY DEF Named, WatchesAsNamed, NewFilteredLabelerInformer
  <1> QED BY <1>1, <1>2, NamedNext, StartupInvariant, PTL DEF Spec

(* A process that exits has finished what was in its queue (vendored       *)
(* controller.go:443-450).                                                 *)
THEOREM SpecExitsDrained == Spec => []ExitsDrained
  <1>1. IInv => ExitsDrained
    BY DEF IInv
  <1> QED BY StartupInvariant, <1>1, PTL

=============================================================================
