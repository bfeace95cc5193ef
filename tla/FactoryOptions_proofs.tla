----------------------- MODULE FactoryOptions_proofs -----------------------
(***************************************************************************)
(* What a factory made with any list of options is set to: for each        *)
(* setting what the last option about it says.                             *)
(*                                                                         *)
(* The options are applied by a recursion over the list.  The library's    *)
(* induction theorems are not to be had here, but its minimum principle    *)
(* is: a set of numbers that has 0, and the successor of each of its       *)
(* elements, has them all.                                                 *)
(***************************************************************************)
EXTENDS FactoryOptions, WellFoundedInduction, TLAPS

LEMMA SmallestOf ==
    ASSUME NEW T \in SUBSET Nat, T # {}
    PROVE  \E m \in T : \A n \in T : m <= n
<1>. DEFINE R == OpToRel(<, Nat)
<1>1. IsWellFoundedOn(R, Nat)
  BY NatLessThanWellFounded
<1>2. \A m, n \in Nat : m < n => <<m, n>> \in R
  BY DEF OpToRel
<1>. HIDE DEF R
<1>3. \E m \in T : \A n \in T : ~(<<n, m>> \in R)
  BY <1>1, WFMin
<1>4. PICK m \in T : \A n \in T : ~(<<n, m>> \in R)
  BY <1>3, Zenon
<1>5. \A n \in T : ~(n < m)
  BY <1>2, <1>4, Zenon
<1>6. \A n \in T : m <= n
  BY <1>5, SMT
<1>. QED BY <1>6

(* Induction up to N over a set.                                           *)
LEMMA UpTo ==
    ASSUME NEW N \in Nat, NEW T, 0 \in T, \A n \in 1 .. N : n - 1 \in T => n \in T
    PROVE  0 .. N \subseteq T
<1>. DEFINE Missing == (0 .. N) \ T
<1>. SUFFICES ASSUME Missing # {} PROVE FALSE
  OBVIOUS
<1>1. PICK m \in Missing : \A n \in Missing : m <= n
  <2>1. Missing \in SUBSET Nat
    OBVIOUS
  <2>. HIDE DEF Missing
  <2>. QED BY <2>1, SmallestOf
<1>2. m \in 1 .. N /\ m - 1 \in 0 .. N /\ m - 1 \notin Missing
  BY <1>1
<1>. QED BY <1>1, <1>2

(***************************************************************************)
(* There is a function that takes the options one by one, and what the     *)
(* factory is set to is its last value.                                    *)
(***************************************************************************)
Steps(after, opts) ==
    /\ after[0] = NoOptions
    /\ \A n \in 1 .. Len(opts) : after[n] = Apply(after[n - 1], opts[n])

LEMMA OneByOne ==
    ASSUME NEW opts, Len(opts) \in Nat
    PROVE  \E after : /\ Steps(after, opts)
                      /\ NewSharedInformerFactoryWithOptions(opts) = after[Len(opts)]
<1>. DEFINE N == Len(opts)
            Rec(g, n) == IF n = 0 THEN NoOptions ELSE Apply(g[n - 1], opts[n])
            Upto(n) == \E g : g = [i \in 0 .. n |-> Rec(g, i)]
            after == CHOOSE g : g = [n \in 0 .. N |-> Rec(g, n)]
<1>1. Upto(0)
  <2>. DEFINE g == [i \in 0 .. 0 |-> NoOptions]
  <2>1. g = [i \in 0 .. 0 |-> Rec(g, i)]
    OBVIOUS
  <2>. QED BY <2>1
<1>2. ASSUME NEW n \in 1 .. N, Upto(n - 1)
      PROVE  Upto(n)
  <2>1. PICK g : g = [i \in 0 .. n - 1 |-> Rec(g, i)]
    BY <1>2
  <2>. DEFINE h == [i \in 0 .. n |-> Rec(g, i)]
  <2>2. \A i \in 0 .. n - 1 : h[i] = g[i]
    BY <2>1
  <2>3. \A i \in 0 .. n : Rec(h, i) = Rec(g, i)
    BY <2>2
  <2>4. h = [i \in 0 .. n |-> Rec(h, i)]
    BY <2>3
  <2>. QED BY <2>4
<1>3. Upto(N)
  <2>. DEFINE T == {n \in 0 .. N : Upto(n)}
  <2>. HIDE DEF Upto
  <2>1. 0 \in 0 .. N /\ \A n \in 1 .. N : n \in 0 .. N /\ n - 1 \in 0 .. N
    OBVIOUS
  <2>2. 0 \in T /\ \A n \in 1 .. N : n - 1 \in T => n \in T
    BY <1>1, <1>2, <2>1, Zenon
  <2>. HIDE DEF T
  <2>3. 0 .. N \subseteq T
    BY <2>2, UpTo
  <2>. QED BY <2>3 DEF T
<1>4. after = [n \in 0 .. N |-> Rec(after, n)]
  BY <1>3
<1>5. NewSharedInformerFactoryWithOptions(opts) = after[N]
  BY DEF NewSharedInformerFactoryWithOptions
<1>. HIDE DEF after
<1>6. Steps(after, opts)
  BY <1>4 DEF Steps
<1>. QED BY <1>5, <1>6


LEMMA NoneGiven ==
    /\ NoOptions = [s \in Settings |-> NoOptions[s]]
    /\ NoOptions["namespace"] = "all" /\ NoOptions["tweak"] = "none"
    /\ NoOptions["transform"] = "none" /\ NoOptions["custom"] = <<>>
BY DEF NoOptions, Settings

(***************************************************************************)
(* What a factory is set to by the first n options: setting by setting,    *)
(* and for the resync periods type by type.                                *)
(***************************************************************************)
About(opts, n, s) == {i \in 1 .. n : opts[i].sets = s}

Periods(opts, n, t) == {i \in About(opts, n, "custom") : t \in DOMAIN opts[i].to}

SetBy(f, opts, n) ==
    /\ f = [s \in Settings |-> f[s]]
    /\ \A s \in Settings \ {"custom"} :
           f[s] = IF About(opts, n, s) = {} THEN NoOptions[s]
                                           ELSE opts[LastIn(About(opts, n, s))].to
    /\ \A t : t \in DOMAIN f["custom"] <=> Periods(opts, n, t) # {}
    /\ \A t \in DOMAIN f["custom"] :
           f["custom"][t] = opts[LastIn(Periods(opts, n, t))].to[t]

LEMMA NewestIsLast ==
    ASSUME NEW n \in Nat, NEW given \in SUBSET (1 .. n), n \in given
    PROVE  LastIn(given) = n
<1>1. \A j \in given : j <= n
  OBVIOUS
<1>2. \A i \in given : (\A j \in given : j <= i) => i = n
  BY <1>1
<1>3. \E i \in given : \A j \in given : j <= i
  BY <1>1
<1>4. LastIn(given) \in given /\ \A j \in given : j <= LastIn(given)
  BY <1>3 DEF LastIn
<1>. QED BY <1>2, <1>4

(* One more option.                                                        *)
LEMMA OneMore ==
    ASSUME NEW opts, NEW n \in Nat \ {0}, opts[n].sets \in Settings,
           NEW f, SetBy(f, opts, n - 1)
    PROVE  SetBy(Apply(f, opts[n]), opts, n)
<1>. DEFINE o == opts[n]
            g == Apply(f, o)
<1>1. f = [s \in Settings |-> f[s]] /\ DOMAIN f = Settings
  BY DEF SetBy
<1>2. /\ g = [s \in Settings |-> g[s]]
      /\ \A s \in Settings \ {o.sets} : g[s] = f[s]
      /\ o.sets # "custom" => g[o.sets] = o.to
      /\ o.sets = "custom" => g["custom"] = Overlay(f["custom"], o.to)
  <2>1. o.sets \in Settings
    OBVIOUS
  <2>. HIDE DEF o
  <2>. QED BY <1>1, <2>1 DEF Apply
<1>3. 1 .. n = (1 .. n - 1) \cup {n} /\ n \notin 1 .. n - 1
  OBVIOUS
<1>4. \A s : About(opts, n, s) = IF o.sets = s THEN About(opts, n - 1, s) \cup {n}
                                              ELSE About(opts, n - 1, s)
  BY <1>3 DEF About
<1>5. \A s : About(opts, n, s) \in SUBSET (1 .. n)
  BY DEF About
<1>. HIDE DEF g
<1>6. ASSUME NEW s \in Settings \ {"custom"}
      PROVE  g[s] = IF About(opts, n, s) = {} THEN NoOptions[s]
                                             ELSE opts[LastIn(About(opts, n, s))].to
  <2>1. CASE o.sets = s
    <3>1. n \in About(opts, n, s)
      BY <1>4, <2>1
    <3>2. LastIn(About(opts, n, s)) = n
      BY <1>5, <3>1, NewestIsLast
    <3>. QED BY <1>2, <2>1, <3>1, <3>2
  <2>2. CASE o.sets # s
    BY <1>2, <1>4, <2>2 DEF SetBy
  <2>. QED BY <2>1, <2>2
<1>7. /\ \A t : t \in DOMAIN g["custom"] <=> Periods(opts, n, t) # {}
      /\ \A t \in DOMAIN g["custom"] :
             g["custom"][t] = opts[LastIn(Periods(opts, n, t))].to[t]
  <2>1. CASE o.sets = "custom"
    <3>1. \A t : Periods(opts, n, t) = IF t \in DOMAIN o.to
                                         THEN Periods(opts, n - 1, t) \cup {n}
                                         ELSE Periods(opts, n - 1, t)
      BY <1>4, <2>1 DEF Periods
    <3>2. /\ DOMAIN g["custom"] = DOMAIN f["custom"] \cup DOMAIN o.to
          /\ \A t \in DOMAIN g["custom"] :
                 g["custom"][t] = IF t \in DOMAIN o.to THEN o.to[t] ELSE f["custom"][t]
      <4>. DEFINE before == f["custom"]
                  added == o.to
      <4>1. g["custom"] = Overlay(before, added)
        BY <1>2, <2>1
      <4>. HIDE DEF before, added
      <4>2. /\ DOMAIN g["custom"] = DOMAIN before \cup DOMAIN added
            /\ \A t \in DOMAIN g["custom"] :
                   g["custom"][t] = IF t \in DOMAIN added THEN added[t] ELSE before[t]
        BY <4>1 DEF Overlay
      <4>. QED BY <4>2 DEF before, added
    <3>3. \A t \in DOMAIN o.to : LastIn(Periods(opts, n, t)) = n
      <4>1. \A t : Periods(opts, n, t) \in SUBSET (1 .. n)
        BY <1>5 DEF Periods
      <4>. QED BY <3>1, <4>1, NewestIsLast
    <3>4. /\ \A t : t \in DOMAIN f["custom"] <=> Periods(opts, n - 1, t) # {}
          /\ \A t \in DOMAIN f["custom"] :
                 f["custom"][t] = opts[LastIn(Periods(opts, n - 1, t))].to[t]
      BY DEF SetBy
    <3>5. ASSUME NEW t
          PROVE  /\ t \in DOMAIN g["custom"] <=> Periods(opts, n, t) # {}
                 /\ t \in DOMAIN g["custom"] =>
                        g["custom"][t] = opts[LastIn(Periods(opts, n, t))].to[t]
      <4>1. CASE t \in DOMAIN o.to
        BY <3>1, <3>2, <3>3, <4>1
      <4>2. CASE t \notin DOMAIN o.to
        BY <3>1, <3>2, <3>4, <4>2
      <4>. QED BY <4>1, <4>2
    <3>. QED BY <3>5
  <2>2. CASE o.sets # "custom"
    <3>1. g["custom"] = f["custom"] /\ \A t : Periods(opts, n, t) = Periods(opts, n - 1, t)
      BY <1>2, <1>4, <2>2 DEF Periods, Settings
    <3>. QED BY <3>1 DEF SetBy
  <2>. QED BY <2>1, <2>2
<1>8. SetBy(g, opts, n)
  BY <1>2, <1>6, <1>7 DEF SetBy
<1>. QED BY <1>8 DEF g

(* Whatever options NewSharedInformerFactoryWithOptions is given, the last *)
(* one about each setting counts, and for the resync periods the last one  *)
(* that names the type (factory.go:58-90, 117-120).                        *)
THEOREM LastOptionCounts ==
    ASSUME NEW opts, Len(opts) \in Nat, \A i \in 1 .. Len(opts) : opts[i].sets \in Settings
    PROVE  SetBy(NewSharedInformerFactoryWithOptions(opts), opts, Len(opts))
<1>. DEFINE N == Len(opts)
<1>1. PICK after : /\ Steps(after, opts)
                   /\ NewSharedInformerFactoryWithOptions(opts) = after[N]
  BY OneByOne
<1>2. SetBy(after[0], opts, 0)
  <2>1. \A s, t : About(opts, 0, s) = {} /\ Periods(opts, 0, t) = {}
    BY DEF About, Periods
  <2>2. after[0] = NoOptions
    BY <1>1 DEF Steps
  <2>3. DOMAIN NoOptions["custom"] = {}
    <3>1. DOMAIN <<>> = {}
      OBVIOUS
    <3>2. NoOptions["custom"] = <<>>
      BY NoneGiven
    <3>. QED BY <3>1, <3>2, Zenon
  <2>. QED BY <2>1, <2>2, <2>3, NoneGiven DEF SetBy
<1>3. \A n \in 1 .. N : SetBy(after[n - 1], opts, n - 1) => SetBy(after[n], opts, n)
  BY <1>1, OneMore DEF Steps
<1>. DEFINE T == {n \in 0 .. N : SetBy(after[n], opts, n)}
<1>4. 0 \in T /\ \A n \in 1 .. N : n - 1 \in T => n \in T
  <2>1. 0 \in 0 .. N /\ \A n \in 1 .. N : n \in 0 .. N
    OBVIOUS
  <2>. QED BY <1>2, <1>3, <2>1
<1>5. N \in T
  <2>. HIDE DEF T
  <2>1. 0 .. N \subseteq T
    BY <1>4, UpTo
  <2>. QED BY <2>1
<1>. QED BY <1>1, <1>5

=============================================================================
