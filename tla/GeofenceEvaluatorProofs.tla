----------------------- MODULE GeofenceEvaluatorProofs -----------------------
(***************************************************************************)
(* Proofs about GeofenceEvaluator, for any fixes, Places, dwell and        *)
(* neighbourhood: a crossing is announced once and a confirmed one has     *)
(* dwelt, for any number of requests; the log takes turns as long as one   *)
(* request evaluates at a time; and while fixes come in order, an          *)
(* evaluation that goes through makes good what failed ones left undone.   *)
(***************************************************************************)
EXTENDS GeofenceEvaluator, FiniteSetTheorems, SequenceTheorems, NaturalsInduction,
        WellFoundedInduction, TLAPS
-----------------------------------------------------------------------------
(* Sets of timestamps, and the order they are read in.                     *)

\* A set of naturals that is not empty has a least element.
LEMMA LeastNatural ==
  ASSUME NEW s \in SUBSET Nat, s # {}
  PROVE  \E x \in s : \A y \in s : x <= y
<1> DEFINE less == {p \in Nat \X Nat : p[1] < p[2]}
<1>1. IsWellFoundedOn(less, Nat)
  <2>1. OpToRel(<, Nat) = less
    BY DEF OpToRel
  <2>2. QED
    BY <2>1, NatLessThanWellFounded
<1>2. PICK x \in s : \A y \in s : ~ (<<y, x>> \in less)
  <2> HIDE DEF less
  <2> QED BY <1>1, WFMin
<1>3. \A y \in s : x <= y
  <2> TAKE y \in s
  <2>1. y < x => <<y, x>> \in less
    OBVIOUS
  <2> QED
    BY <1>2, <2>1
<1> QED
  BY <1>3

\* How many of s come before t.
Before(t, s) == Cardinality({u \in s : u < t})

\* Later timestamps have more before them.
LEMMA BeforeGrows ==
  ASSUME NEW s \in SUBSET Nat, IsFiniteSet(s), NEW t \in s, NEW u \in s
  PROVE  /\ Before(t, s) \in Nat /\ Before(t, s) < Cardinality(s) /\ Cardinality(s) \in Nat
         /\ t < u => Before(t, s) < Before(u, s)
<1> DEFINE lower(x) == {v \in s : v < x}
<1>1. \A v \in s : v \in Nat
  OBVIOUS
<1>2. lower(t) \subseteq s /\ t \notin lower(t)
  BY <1>1
<1>3. /\ IsFiniteSet(lower(t)) /\ Cardinality(lower(t)) \in Nat /\ Cardinality(s) \in Nat
      /\ Cardinality(lower(t)) <= Cardinality(s) /\ Cardinality(lower(t)) # Cardinality(s)
  <2> HIDE DEF lower
  <2>1. lower(t) # s /\ lower(t) \in SUBSET s
    BY <1>2
  <2> QED
    BY <2>1, FS_Subset, FS_CardinalityType
<1>4. ASSUME t < u PROVE Cardinality(lower(t)) < Cardinality(lower(u))
  <2>1. lower(t) \subseteq lower(u) /\ t \in lower(u)
    <3>1. \A v \in s : v < t => v < u
      BY <1>1, <1>4
    <3> QED
      BY <1>4, <3>1
  <2>2. lower(u) \subseteq s
    OBVIOUS
  <2> HIDE DEF lower
  <2>3. IsFiniteSet(lower(u)) /\ Cardinality(lower(u)) \in Nat
    BY <2>2, FS_Subset, FS_CardinalityType
  <2>4. lower(t) # lower(u) /\ lower(t) \in SUBSET lower(u)
    BY <1>2, <2>1
  <2>5. Cardinality(lower(t)) <= Cardinality(lower(u)) /\ Cardinality(lower(t)) # Cardinality(lower(u))
    BY <2>3, <2>4, FS_Subset
  <2> QED
    BY <1>3, <2>3, <2>5
<1> HIDE DEF lower
<1>5. Cardinality(lower(t)) < Cardinality(s)
  BY <1>3
<1> QED
  BY <1>3, <1>4, <1>5 DEF Before, lower

\* Sorted lists each timestamp once, in ascending order.
LEMMA SortedLists ==
  ASSUME NEW s \in SUBSET Nat, IsFiniteSet(s)
  PROVE  /\ Sorted(s) \in Seq(s) /\ Len(Sorted(s)) = Cardinality(s) /\ Cardinality(s) \in Nat
         /\ \A i \in 1 .. Cardinality(s) : Sorted(s)[i] \in s
         /\ \A i, j \in 1 .. Cardinality(s) : i < j => Sorted(s)[i] < Sorted(s)[j]
         /\ \A t \in s : \E i \in 1 .. Cardinality(s) : Sorted(s)[i] = t
<1> DEFINE n == Cardinality(s)
           f == [t \in s |-> Before(t, s)]
           places == 0 .. n - 1
<1>1. n \in Nat
  BY FS_CardinalityType
<1>2. \A t \in s : t \in Nat /\ Before(t, s) \in Nat /\ Before(t, s) < n
  BY BeforeGrows
<1>3. \A t, u \in s : Before(t, s) = Before(u, s) => t = u
  <2> SUFFICES ASSUME NEW t \in s, NEW u \in s, Before(t, s) = Before(u, s) PROVE t = u
    OBVIOUS
  <2>1. ~(t < u) /\ ~(u < t)
    BY <1>2, BeforeGrows
  <2> QED
    BY <1>2, <2>1
<1>4. IsFiniteSet(places) /\ Cardinality(places) = n
  <2>1. 0 \in Int /\ n - 1 \in Int
    BY <1>1
  <2>2. IsFiniteSet(places) /\ Cardinality(places) = IF 0 > n - 1 THEN 0 ELSE (n - 1) - 0 + 1
    BY <2>1, FS_Interval
  <2> HIDE DEF places
  <2> QED
    BY <1>1, <2>2
<1>5. f \in Injection(s, places)
  <2>1. \A t \in s : Before(t, s) \in places
    BY <1>1, <1>2
  <2> HIDE DEF places
  <2>2. f \in [s -> places]
    BY <2>1
  <2> QED
    BY <1>3, <2>2 DEF Injection, IsInjective
<1>6. f \in Surjection(s, places)
  <2> HIDE DEF f, places
  <2> QED
    BY <1>4, <1>5, FS_Injection
<1>7. \A k \in places : \E t \in s : Before(t, s) = k
  BY <1>6 DEF Surjection
<1> DEFINE at(i) == CHOOSE t \in s : Before(t, s) = i - 1
<1>8. Sorted(s) = [i \in 1 .. n |-> at(i)]
  BY DEF Sorted, Before
<1>9. \A i \in 1 .. n : at(i) \in s /\ Before(at(i), s) = i - 1
  <2> TAKE i \in 1 .. n
  <2>1. i - 1 \in places
    BY <1>1
  <2>2. PICK t \in s : Before(t, s) = i - 1
    BY <1>7, <2>1
  <2> QED
    BY <2>2
<1> HIDE DEF at, n, f, places
<1>10. Sorted(s) \in [1 .. n -> s] /\ \A i \in 1 .. n : Sorted(s)[i] = at(i)
  BY <1>8, <1>9
<1>11. Sorted(s) \in Seq(s) /\ Len(Sorted(s)) = n
  BY <1>1, <1>10
<1>12. \A i, j \in 1 .. n : i < j => at(i) < at(j)
  <2> SUFFICES ASSUME NEW i \in 1 .. n, NEW j \in 1 .. n, i < j PROVE at(i) < at(j)
    OBVIOUS
  <2>1. Before(at(i), s) = i - 1 /\ Before(at(j), s) = j - 1 /\ at(i) \in s /\ at(j) \in s
    BY <1>9
  <2>2. ~(at(j) < at(i)) /\ at(i) # at(j)
    <3>1. at(j) < at(i) => Before(at(j), s) < Before(at(i), s)
      BY <2>1, BeforeGrows
    <3> QED
      BY <1>1, <2>1, <3>1
  <2>3. at(i) \in Nat /\ at(j) \in Nat
    BY <1>2, <2>1
  <2> QED
    BY <2>2, <2>3
<1>13. \A t \in s : \E i \in 1 .. n : at(i) = t
  <2> TAKE t \in s
  <2>1. Before(t, s) + 1 \in 1 .. n /\ (Before(t, s) + 1) - 1 = Before(t, s)
    BY <1>1, <1>2
  <2>2. at(Before(t, s) + 1) = t
    BY <1>3, <1>9, <2>1
  <2> QED
    BY <2>1, <2>2
<1> QED
  BY <1>1, <1>10, <1>11, <1>12, <1>13 DEF n

\* The latest of some timestamps is one of them, and of none the zero time.
LEMMA LatestIs ==
  ASSUME NEW f, DOMAIN f \subseteq Nat, NEW n \in Nat, \A t \in DOMAIN f : t <= n
  PROVE  /\ DOMAIN f = {} => Latest(f) = Zero
         /\ DOMAIN f # {} => Latest(f) \in DOMAIN f /\ \A u \in DOMAIN f : u <= Latest(f)
<1>1. CASE DOMAIN f = {}
  BY <1>1 DEF Latest
<1>2. CASE DOMAIN f # {}
  <2> DEFINE gaps == {n - t : t \in DOMAIN f}
  <2>1. \A t \in DOMAIN f : t \in Nat /\ n - t \in Nat
    OBVIOUS
  <2>2. gaps \in SUBSET Nat /\ gaps # {}
    BY <1>2, <2>1
  <2>3. PICK g \in gaps : \A h \in gaps : g <= h
    <3> HIDE DEF gaps
    <3> QED
      BY <2>2, LeastNatural
  <2>4. PICK t \in DOMAIN f : g = n - t
    BY <2>3
  <2>5. \A u \in DOMAIN f : u <= t
    <3> TAKE u \in DOMAIN f
    <3>1. n - t <= n - u
      BY <2>3, <2>4
    <3> QED
      BY <2>1, <3>1
  <2> QED
    BY <1>2, <2>4, <2>5 DEF Latest
<1> QED
  BY <1>1, <1>2
-----------------------------------------------------------------------------
(* confirmTransitions.                                                     *)

Start(seed) == [state |-> seed = "enter", observed |-> seed # "none", out |-> <<>>]

\* g is a run of the loop over the first n readings.
Runs(ts, inside, seed, n, g) ==
  g = [i \in 0 .. n |-> IF i = 0 THEN Start(seed) ELSE ConfirmStep(ts, inside, g[i - 1], i)]

\* The loop can be run over any number of readings.
LEMMA RunExists ==
  ASSUME NEW ts, NEW inside, NEW seed, NEW n \in Nat
  PROVE  \E g : Runs(ts, inside, seed, n, g)
<1> DEFINE bad == {m \in Nat : ~ \E g : Runs(ts, inside, seed, m, g)}
<1> SUFFICES ASSUME bad # {} PROVE FALSE
  OBVIOUS
<1>1. PICK x \in bad : \A y \in bad : x <= y
  <2>1. bad \in SUBSET Nat
    OBVIOUS
  <2> HIDE DEF bad
  <2> QED
    BY <2>1, LeastNatural
<1>2. x \in Nat /\ ~ \E g : Runs(ts, inside, seed, x, g)
  OBVIOUS
<1>3. CASE x = 0
  <2> DEFINE g == [i \in 0 .. 0 |-> Start(seed)]
  <2>1. \A i \in 0 .. 0 : i = 0
    OBVIOUS
  <2>2. g = [i \in 0 .. 0 |-> IF i = 0 THEN Start(seed) ELSE ConfirmStep(ts, inside, g[i - 1], i)]
    BY <2>1
  <2>3. Runs(ts, inside, seed, 0, g)
    BY <2>2, Zenon DEF Runs
  <2> QED
    BY <1>2, <1>3, <2>3
<1>4. CASE x # 0
  <2>1. x - 1 \in Nat /\ x - 1 \notin bad
    BY <1>1, <1>2, <1>4
  <2>2. PICK f : Runs(ts, inside, seed, x - 1, f)
    BY <2>1
  <2>3. f = [i \in 0 .. x - 1 |-> IF i = 0 THEN Start(seed) ELSE ConfirmStep(ts, inside, f[i - 1], i)]
    BY <2>2, Zenon DEF Runs
  <2> DEFINE step(a, i) == ConfirmStep(ts, inside, a, i)
             g == [i \in 0 .. x |-> IF i = x THEN step(f[x - 1], x) ELSE f[i]]
  <2> HIDE DEF step
  <2>4. \A i \in 0 .. x - 1 : f[i] = IF i = 0 THEN Start(seed) ELSE step(f[i - 1], i)
    BY <2>3 DEF step
  <2>5. \A i \in 0 .. x : g[i] = IF i = 0 THEN Start(seed) ELSE step(g[i - 1], i)
    <3> TAKE i \in 0 .. x
    <3>1. CASE i = x
      <4>1. g[i] = step(f[x - 1], x) /\ x - 1 \in 0 .. x /\ x - 1 # x
        BY <1>2, <1>4, <3>1
      <4>2. g[x - 1] = f[x - 1]
        BY <4>1
      <4> QED
        BY <1>4, <3>1, <4>1, <4>2
    <3>2. CASE i # x
      <4>1. i \in 0 .. x - 1 /\ g[i] = f[i]
        BY <1>2, <3>2
      <4>2. CASE i = 0
        BY <2>4, <4>1, <4>2
      <4>3. CASE i # 0
        <5>1. i - 1 \in 0 .. x /\ i - 1 # x
          BY <1>2, <4>1, <4>3
        <5>2. g[i - 1] = f[i - 1]
          BY <5>1
        <5> QED
          BY <2>4, <4>1, <4>3, <5>2
      <4> QED
        BY <4>2, <4>3
    <3> QED
      BY <3>1, <3>2
  <2>6. g = [i \in 0 .. x |-> g[i]]
    OBVIOUS
  <2> HIDE DEF g
  <2>7. g = [i \in 0 .. x |-> IF i = 0 THEN Start(seed) ELSE step(g[i - 1], i)]
    BY <2>5, <2>6
  <2>8. Runs(ts, inside, seed, x, g)
    BY <2>7, Zenon DEF Runs, step
  <2> QED
    BY <1>2, <2>8
<1> QED
  BY <1>3, <1>4

\* What confirmTransitions returns is what a run has put out at the end.
LEMMA ConfirmIsARun ==
  ASSUME NEW ts, NEW inside, NEW seed, Len(ts) \in Nat
  PROVE  \E g : /\ Runs(ts, inside, seed, Len(ts), g)
                /\ confirmTransitions(ts, inside, seed) = g[Len(ts)].out
<1> DEFINE g == CHOOSE g : Runs(ts, inside, seed, Len(ts), g)
<1>1. Runs(ts, inside, seed, Len(ts), g)
  BY RunExists
<1>2. confirmTransitions(ts, inside, seed) = g[Len(ts)].out
  BY DEF confirmTransitions, Runs, Start
<1> QED
  BY <1>1, <1>2

Kind(inside, i) == IF inside[i] THEN "enter" ELSE "exit"

\* The transition that may follow the seed.
First(seed) == IF seed = "enter" THEN "exit" ELSE "enter"

\* Each transition is at a reading with its dwell behind it.
Dwelt(ts, inside, i, out) ==
  \A k \in 1 .. Len(out) :
    \E j \in 1 .. i : out[k] = <<ts[j], Kind(inside, j)>> /\ Dwells(ts, inside, j)

\* They follow each other in time and take turns, beginning with one that
\* follows the seed.
Turns(out, seed) ==
  /\ \A k, l \in 1 .. Len(out) : k < l => out[k][1] < out[l][1]
  /\ \A k \in 1 .. Len(out) - 1 : out[k][2] # out[k + 1][2]
  /\ Len(out) > 0 => out[1][2] = First(seed)

\* The loop's variables after i readings.
AccOK(ts, inside, seed, i, a) ==
  /\ DOMAIN a = {"state", "observed", "out"} /\ a.state \in BOOLEAN
  /\ a.out \in Seq(Nat \X Kinds)
  /\ Dwelt(ts, inside, i, a.out) /\ Turns(a.out, seed)
  /\ a.state <=> (IF Len(a.out) = 0 THEN seed ELSE a.out[Len(a.out)][2]) = "enter"

\* Readings of a family's fixes in ascending order.
Readings(ts, inside) ==
  /\ ts \in Seq(Nat) /\ inside \in [1 .. Len(ts) -> BOOLEAN]
  /\ \A i, j \in 1 .. Len(ts) : i < j => ts[i] < ts[j]

\* One turn of the loop.
LEMMA StepOK ==
  ASSUME NEW ts, NEW inside, Readings(ts, inside), NEW seed \in Kinds \cup {"none"},
         NEW i \in 1 .. Len(ts), NEW a, AccOK(ts, inside, seed, i - 1, a)
  PROVE  AccOK(ts, inside, seed, i, ConfirmStep(ts, inside, a, i))
<1>0. Len(ts) \in Nat /\ inside[i] \in BOOLEAN /\ i \in Nat /\ i >= 1 /\ ts[i] \in Nat
  BY DEF Readings
<1>1. Dwelt(ts, inside, i, a.out)
  <2>1. \A j \in 1 .. i - 1 : j \in 1 .. i
    BY <1>0
  <2> QED
    BY <2>1 DEF AccOK, Dwelt
<1>2. CASE inside[i] = a.state
  <2> DEFINE b == [a EXCEPT !.observed = TRUE]
  <2>1. DOMAIN b = DOMAIN a /\ b.state = a.state /\ b.out = a.out
    BY DEF AccOK
  <2>2. ConfirmStep(ts, inside, a, i) = b
    BY <1>2 DEF ConfirmStep
  <2> HIDE DEF b
  <2> QED
    BY <1>1, <2>1, <2>2 DEF AccOK
<1>3. CASE inside[i] # a.state /\ ~(a.observed /\ Dwells(ts, inside, i))
  <2>1. ConfirmStep(ts, inside, a, i) = a
    BY <1>3 DEF ConfirmStep
  <2> QED
    BY <1>1, <2>1 DEF AccOK
<1>4. CASE inside[i] # a.state /\ a.observed /\ Dwells(ts, inside, i)
  <2> DEFINE e == <<ts[i], Kind(inside, i)>>
             o == Append(a.out, e)
             b == [state |-> inside[i], observed |-> TRUE, out |-> o]
  <2>1. ConfirmStep(ts, inside, a, i) = b
    BY <1>4 DEF ConfirmStep, Kind
  <2>2. e \in Nat \X Kinds /\ e[1] = ts[i] /\ e[2] = Kind(inside, i)
    BY <1>0 DEF Kind, Kinds
  <2> HIDE DEF e
  <2>3. a.out \in Seq(Nat \X Kinds) /\ Len(a.out) \in Nat
    BY DEF AccOK
  <2>4. /\ o \in Seq(Nat \X Kinds) /\ Len(o) = Len(a.out) + 1 /\ o[Len(a.out) + 1] = e
        /\ \A k \in 1 .. Len(a.out) : o[k] = a.out[k]
    BY <2>2, <2>3, AppendProperties
  <2>5. DOMAIN b = {"state", "observed", "out"} /\ b.state = inside[i] /\ b.out = o
    OBVIOUS
  <2> HIDE DEF o, b
  <2>6. \A k \in 1 .. Len(o) : k \in 1 .. Len(a.out) \/ k = Len(a.out) + 1
    BY <2>3, <2>4
  <2>7. Dwelt(ts, inside, i, o)
    <3> SUFFICES ASSUME NEW k \in 1 .. Len(o)
                 PROVE  \E j \in 1 .. i : o[k] = <<ts[j], Kind(inside, j)>> /\ Dwells(ts, inside, j)
      BY DEF Dwelt
    <3>1. CASE k \in 1 .. Len(a.out)
      BY <1>1, <2>4, <3>1 DEF Dwelt
    <3>2. CASE k = Len(a.out) + 1
      <4>1. i \in 1 .. i /\ o[k] = <<ts[i], Kind(inside, i)>>
        BY <1>0, <2>4, <3>2 DEF e
      <4> QED
        BY <1>4, <4>1
    <3> QED
      BY <2>6, <3>1, <3>2
  <2>8. \A k \in 1 .. Len(a.out) : a.out[k][1] < ts[i]
    <3> TAKE k \in 1 .. Len(a.out)
    <3>1. PICK j \in 1 .. i - 1 : a.out[k] = <<ts[j], Kind(inside, j)>>
      BY DEF AccOK, Dwelt
    <3>2. j \in 1 .. Len(ts) /\ j < i
      BY <1>0
    <3> QED
      BY <3>1, <3>2 DEF Readings
  <2>9. \A k, l \in 1 .. Len(o) : k < l => o[k][1] < o[l][1]
    <3> SUFFICES ASSUME NEW k \in 1 .. Len(o), NEW l \in 1 .. Len(o), k < l
                 PROVE  o[k][1] < o[l][1]
      OBVIOUS
    <3>1. k \in 1 .. Len(a.out)
      BY <2>3, <2>4
    <3>2. CASE l \in 1 .. Len(a.out)
      BY <2>4, <3>1, <3>2 DEF AccOK, Turns
    <3>3. CASE l = Len(a.out) + 1
      BY <2>2, <2>4, <2>8, <3>1, <3>3
    <3> QED
      BY <2>6, <3>2, <3>3
  <2>10. (Kind(inside, i) = "enter") = inside[i] /\ Kind(inside, i) \in Kinds
    BY <1>0 DEF Kind, Kinds
  <2>11. CASE Len(a.out) = 0
    <3>1. a.state <=> seed = "enter"
      BY <2>11 DEF AccOK
    <3>2. Kind(inside, i) = First(seed)
      BY <1>0, <1>4, <3>1 DEF Kind, First, AccOK
    <3>3. Len(o) = 1 /\ o[1] = e
      BY <2>4, <2>11
    <3>4. \A k \in 1 .. Len(o) - 1 : FALSE
      BY <3>3
    <3>5. Turns(o, seed)
      BY <2>2, <2>9, <3>2, <3>3, <3>4 DEF Turns
    <3>7. Len(o) # 0 /\ o[Len(o)] = e
      BY <3>3
    <3>6. b.state <=> (IF Len(o) = 0 THEN seed ELSE o[Len(o)][2]) = "enter"
      BY <2>2, <2>5, <2>10, <3>7
    <3> QED
      BY <1>0, <2>1, <2>4, <2>5, <2>7, <3>5, <3>6 DEF AccOK
  <2>12. CASE Len(a.out) > 0
    <3>1. a.state <=> a.out[Len(a.out)][2] = "enter"
      BY <2>12 DEF AccOK
    <3>2. Len(a.out) \in 1 .. Len(a.out) /\ a.out[Len(a.out)][2] \in Kinds
      BY <2>3, <2>12
    <3>3. Kind(inside, i) # a.out[Len(a.out)][2]
      BY <1>0, <1>4, <3>1, <3>2 DEF Kind, Kinds, AccOK
    <3>4. \A k \in 1 .. Len(o) - 1 : o[k][2] # o[k + 1][2]
      <4> TAKE k \in 1 .. Len(o) - 1
      <4>1. k \in 1 .. Len(a.out)
        BY <2>3, <2>4
      <4>2. CASE k = Len(a.out)
        BY <2>2, <2>4, <3>2, <3>3, <4>2
      <4>3. CASE k # Len(a.out)
        <5>1. k \in 1 .. Len(a.out) - 1 /\ k + 1 \in 1 .. Len(a.out)
          BY <2>3, <4>1, <4>3
        <5>2. a.out[k][2] # a.out[k + 1][2]
          BY <5>1 DEF AccOK, Turns
        <5> QED
          BY <2>4, <4>1, <5>1, <5>2
      <4> QED
        BY <4>2, <4>3
    <3>5. o[1][2] = First(seed)
      <4>1. 1 \in 1 .. Len(a.out)
        BY <2>3, <2>12
      <4> QED
        BY <2>4, <2>12, <4>1 DEF AccOK, Turns
    <3>6. Turns(o, seed)
      BY <2>9, <3>4, <3>5 DEF Turns
    <3>7. Len(o) # 0 /\ o[Len(o)] = e
      BY <2>3, <2>4
    <3>8. b.state <=> (IF Len(o) = 0 THEN seed ELSE o[Len(o)][2]) = "enter"
      BY <2>2, <2>5, <2>10, <3>7
    <3> QED
      BY <1>0, <2>1, <2>4, <2>5, <2>7, <3>6, <3>8 DEF AccOK
  <2> QED
    BY <2>3, <2>11, <2>12
<1> QED
  BY <1>0, <1>2, <1>3, <1>4 DEF AccOK

\* The loop's variables, turn by turn.
LEMMA RunOK ==
  ASSUME NEW ts, NEW inside, Readings(ts, inside), NEW seed \in Kinds \cup {"none"},
         NEW g, Runs(ts, inside, seed, Len(ts), g)
  PROVE  \A i \in 0 .. Len(ts) :
           /\ g[i] = IF i = 0 THEN Start(seed) ELSE ConfirmStep(ts, inside, g[i - 1], i)
           /\ AccOK(ts, inside, seed, i, g[i])
<1>0. Len(ts) \in Nat
  BY DEF Readings
<1>2. \A i \in 0 .. Len(ts) : g[i] = IF i = 0 THEN Start(seed) ELSE ConfirmStep(ts, inside, g[i - 1], i)
  <2>1. g = [i \in 0 .. Len(ts) |-> IF i = 0 THEN Start(seed) ELSE ConfirmStep(ts, inside, g[i - 1], i)]
    BY Zenon DEF Runs
  <2> DEFINE step(i) == ConfirmStep(ts, inside, g[i - 1], i)
  <2> HIDE DEF step
  <2>2. g = [i \in 0 .. Len(ts) |-> IF i = 0 THEN Start(seed) ELSE step(i)]
    BY <2>1, Zenon DEF step
  <2>3. \A i \in 0 .. Len(ts) : g[i] = IF i = 0 THEN Start(seed) ELSE step(i)
    BY <2>2, Zenon
  <2> QED
    BY <2>3, Zenon DEF step
<1> DEFINE bad == {i \in 0 .. Len(ts) : ~AccOK(ts, inside, seed, i, g[i])}
<1>3. bad = {}
  <2> SUFFICES ASSUME bad # {} PROVE FALSE
    OBVIOUS
  <2>1. PICK i \in bad : \A j \in bad : i <= j
    <3>1. bad \in SUBSET Nat
      BY <1>0
    <3> HIDE DEF bad
    <3> QED
      BY <3>1, LeastNatural
  <2>2. i \in 0 .. Len(ts) /\ ~AccOK(ts, inside, seed, i, g[i])
    OBVIOUS
  <2>3. CASE i = 0
    <3>1. g[i] = Start(seed)
      BY <1>2, <2>2, <2>3, Zenon
    <3> DEFINE a == Start(seed)
    <3>2. /\ DOMAIN a = {"state", "observed", "out"} /\ a.out = <<>>
          /\ a.state \in BOOLEAN /\ (a.state <=> seed = "enter")
      BY DEF Start
    <3>3. <<>> \in Seq(Nat \X Kinds) /\ Len(<<>>) = 0
      OBVIOUS
    <3>4. Dwelt(ts, inside, 0, <<>>) /\ Turns(<<>>, seed)
      BY <3>3 DEF Dwelt, Turns
    <3> HIDE DEF a
    <3>5. AccOK(ts, inside, seed, 0, a)
      BY <3>2, <3>3, <3>4 DEF AccOK
    <3> QED
      BY <2>2, <2>3, <3>1, <3>5 DEF a
  <2>4. CASE i # 0
    <3>1. i \in 1 .. Len(ts) /\ i - 1 \in 0 .. Len(ts) /\ i - 1 < i
      BY <1>0, <2>2, <2>4
    <3>2. i - 1 \notin bad
      BY <1>0, <2>1, <2>2, <3>1
    <3>3. AccOK(ts, inside, seed, i - 1, g[i - 1])
      BY <3>1, <3>2
    <3>4. g[i] = ConfirmStep(ts, inside, g[i - 1], i)
      BY <1>2, <2>2, <2>4, Zenon
    <3> QED
      BY <2>2, <3>1, <3>3, <3>4, StepOK
  <2> QED
    BY <2>3, <2>4
<1>4. \A i \in 0 .. Len(ts) : AccOK(ts, inside, seed, i, g[i])
  BY <1>3
<1> QED
  BY <1>2, <1>4, Zenon

\* What confirmTransitions confirms has dwelt, and takes turns after the seed.
LEMMA ConfirmedOnes ==
  ASSUME NEW ts, NEW inside, Readings(ts, inside), NEW seed \in Kinds \cup {"none"}
  PROVE  LET out == confirmTransitions(ts, inside, seed)
         IN out \in Seq(Nat \X Kinds) /\ Dwelt(ts, inside, Len(ts), out) /\ Turns(out, seed)
<1>1. Len(ts) \in Nat
  BY DEF Readings
<1>2. PICK g : /\ Runs(ts, inside, seed, Len(ts), g)
               /\ confirmTransitions(ts, inside, seed) = g[Len(ts)].out
  BY <1>1, ConfirmIsARun
<1>3. AccOK(ts, inside, seed, Len(ts), g[Len(ts)])
  BY <1>1, <1>2, RunOK
<1> QED
  BY <1>2, <1>3 DEF AccOK
-----------------------------------------------------------------------------
(* The types.                                                              *)

Fields == {"pc", "around", "place", "floor", "seed", "todo", "appended"}

ReqOK(q) ==
  /\ DOMAIN q = Fields
  /\ q.pc \in {"idle", "prior", "window", "append"}
  /\ q.around \in Times \cup {Zero} /\ q.floor \in Times \cup {Zero}
  /\ q.place \in Places \cup {0} /\ (q.pc # "idle" => q.place \in Places)
  /\ q.seed \in Kinds \cup {"none"}
  /\ q.todo \in Seq(Times \X Kinds)
  /\ q.appended \subseteq Places \X Times

EventsOK ==
  /\ DOMAIN events = Places /\ events = [p \in Places |-> events[p]]
  /\ \A p \in Places : /\ DOMAIN events[p] \subseteq Times
                       /\ \A t \in DOMAIN events[p] : events[p][t] \in Kinds

GeoTypes ==
  /\ DOMAIN fixes \subseteq Times /\ \A t \in DOMAIN fixes : fixes[t] \subseteq Places
  /\ EventsOK
  /\ DOMAIN req = Requests /\ \A r \in Requests : ReqOK(req[r])
  /\ alerts \subseteq Places \X Times
  /\ orderly \in BOOLEAN /\ streak \in Nat /\ missed \in Nat

\* Timestamps are bounded.
LEMMA TimesBounded == \E n \in Nat : \A t \in Times : t <= n
<1>1. CASE Times = {}
  BY <1>1
<1>2. CASE Times # {}
  <2>1. Times \in SUBSET Nat /\ IsFiniteSet(Times) /\ Cardinality(Times) \in Nat
    BY GeofenceAssumption, FS_CardinalityType
  <2>2. /\ Len(Sorted(Times)) = Cardinality(Times)
        /\ \A i \in 1 .. Cardinality(Times) : Sorted(Times)[i] \in Times
        /\ \A i, j \in 1 .. Cardinality(Times) : i < j => Sorted(Times)[i] < Sorted(Times)[j]
        /\ \A t \in Times : \E i \in 1 .. Cardinality(Times) : Sorted(Times)[i] = t
    BY <2>1, SortedLists
  <2> DEFINE n == Cardinality(Times)
             top == Sorted(Times)[n]
  <2>3. n \in 1 .. n
    <3>1. PICK t \in Times : TRUE
      BY <1>2
    <3>2. PICK i \in 1 .. n : Sorted(Times)[i] = t
      BY <2>2
    <3> QED
      BY <2>1, <3>2
  <2>4. top \in Nat
    BY <2>1, <2>2, <2>3
  <2>5. \A t \in Times : t <= top
    <3> TAKE t \in Times
    <3>1. PICK i \in 1 .. n : Sorted(Times)[i] = t
      BY <2>2
    <3>2. i = n \/ i < n
      BY <2>1
    <3>3. t \in Nat
      BY <2>1
    <3>4. CASE i < n
      <4>1. t < top
        BY <2>2, <2>3, <3>1, <3>4
      <4> QED
        BY <2>4, <3>3, <4>1
    <3> QED
      BY <2>4, <3>1, <3>2, <3>4
  <2> HIDE DEF top
  <2> QED
    BY <2>4, <2>5
<1> QED
  BY <1>1, <1>2

\* The latest row of a log.
LEMMA LatestOf ==
  ASSUME NEW f, DOMAIN f \subseteq Times
  PROVE  /\ Latest(f) \in Times \cup {Zero}
         /\ Latest(f) = Zero <=> DOMAIN f = {}
         /\ DOMAIN f # {} => Latest(f) \in DOMAIN f
         /\ \A u \in DOMAIN f : u <= Latest(f)
<1>1. PICK n \in Nat : \A t \in Times : t <= n
  BY TimesBounded
<1>2. DOMAIN f \subseteq Nat /\ \A t \in DOMAIN f : t <= n
  BY <1>1, GeofenceAssumption
<1>3. /\ DOMAIN f = {} => Latest(f) = Zero
      /\ DOMAIN f # {} => Latest(f) \in DOMAIN f /\ \A u \in DOMAIN f : u <= Latest(f)
  BY <1>2, LatestIs
<1>4. Zero \notin Nat
  BY DEF Zero
<1> QED
  BY <1>2, <1>3, <1>4

\* The neighbourhood is finite, above the floor, and leaves out no fix between two
\* of its own.
LEMMA WindowIs ==
  ASSUME GeoTypes, NEW around \in Times \cup {Zero}, NEW floor \in Times \cup {Zero}
  PROVE  LET W == Window(around, floor)
         IN /\ W \subseteq DOMAIN fixes /\ W \in SUBSET Nat /\ IsFiniteSet(W)
            /\ \A t \in W : t > floor
            /\ \A t, u \in W : \A v \in DOMAIN fixes : t <= v /\ v <= u => v \in W
<1> DEFINE above == {t \in DOMAIN fixes : t > floor}
           upTo == {t \in above : t <= around}
           after == above \ upTo
           W == Window(around, floor)
           later(t) == {u \in upTo : u > t}
           sooner(t) == {u \in after : u < t}
<1>1. W = {t \in upTo : Cardinality(later(t)) < Neighbours} \cup
          {t \in after : Cardinality(sooner(t)) < Neighbours}
  BY DEF Window
<1>2. DOMAIN fixes \subseteq Nat /\ IsFiniteSet(DOMAIN fixes)
  BY FS_Subset, GeofenceAssumption DEF GeoTypes
<1>3. floor \in Int /\ around \in Int /\ Neighbours \in Nat
  BY GeofenceAssumption DEF Zero
<1>4. upTo \subseteq DOMAIN fixes /\ after \subseteq DOMAIN fixes /\ W \subseteq above
  BY <1>1
<1>5. W \subseteq DOMAIN fixes /\ \A t \in W : t > floor
  BY <1>4
<1>6. IsFiniteSet(upTo) /\ IsFiniteSet(after) /\ IsFiniteSet(W)
  <2> HIDE DEF upTo, after, W
  <2> QED
    BY <1>2, <1>4, <1>5, FS_Subset
<1>7. ASSUME NEW t \in W, NEW u \in W, NEW v \in DOMAIN fixes, t <= v, v <= u PROVE v \in W
  <2>1. t \in Nat /\ u \in Nat /\ v \in Nat /\ t > floor /\ u > floor
    BY <1>2, <1>5
  <2>2. v > floor /\ v \in above
    BY <1>3, <1>7, <2>1
  <2>3. CASE v <= around
    <3>1. t \in upTo /\ v \in upTo
      BY <1>3, <1>4, <1>7, <2>1, <2>2, <2>3
    <3>2. Cardinality(later(t)) < Neighbours
      BY <1>1, <3>1
    <3>3. later(v) \subseteq later(t) /\ later(t) \subseteq upTo
      <4>1. \A w \in upTo : w \in Nat
        BY <1>2
      <4>2. \A w \in upTo : w > v => w > t
        BY <1>7, <2>1, <4>1
      <4> HIDE DEF upTo
      <4> QED
        BY <4>2
    <3> HIDE DEF later, upTo
    <3>4. /\ IsFiniteSet(later(t)) /\ IsFiniteSet(later(v))
          /\ Cardinality(later(v)) <= Cardinality(later(t))
      BY <1>6, <3>3, FS_Subset
    <3>5. Cardinality(later(v)) \in Nat /\ Cardinality(later(t)) \in Nat
      BY <3>4, FS_CardinalityType
    <3>6. Cardinality(later(v)) < Neighbours
      BY <1>3, <3>2, <3>4, <3>5
    <3> QED
      BY <1>1, <3>1, <3>6
  <2>4. CASE ~(v <= around)
    <3>1. u \in after /\ v \in after
      BY <1>3, <1>4, <1>7, <2>1, <2>2, <2>4
    <3>2. Cardinality(sooner(u)) < Neighbours
      BY <1>1, <3>1
    <3>3. sooner(v) \subseteq sooner(u) /\ sooner(u) \subseteq after
      <4>1. \A w \in after : w \in Nat
        BY <1>2, <1>4
      <4>2. \A w \in after : w < v => w < u
        BY <1>7, <2>1, <4>1
      <4> HIDE DEF after
      <4> QED
        BY <4>2
    <3> HIDE DEF sooner, after
    <3>4. /\ IsFiniteSet(sooner(u)) /\ IsFiniteSet(sooner(v))
          /\ Cardinality(sooner(v)) <= Cardinality(sooner(u))
      BY <1>6, <3>3, FS_Subset
    <3>5. Cardinality(sooner(v)) \in Nat /\ Cardinality(sooner(u)) \in Nat
      BY <3>4, FS_CardinalityType
    <3>6. Cardinality(sooner(v)) < Neighbours
      BY <1>3, <3>2, <3>4, <3>5
    <3> QED
      BY <1>1, <3>1, <3>6
  <2> QED
    BY <2>3, <2>4
<1> HIDE DEF W
<1>8. W \in SUBSET Nat
  BY <1>2, <1>5
<1> QED
  BY <1>5, <1>6, <1>7, <1>8 DEF W

\* What one evaluation confirms: rows above the floor, taking turns after the
\* seed, each proved by the stored fixes.
LEMMA EvaluationConfirms ==
  ASSUME GeoTypes, NEW around \in Times \cup {Zero}, NEW floor \in Times \cup {Zero},
         NEW seed \in Kinds \cup {"none"}, NEW p \in Places,
         NEW ts, ts = Sorted(Window(around, floor)),
         NEW out, out = confirmTransitions(ts, Inside(p, ts), seed)
  PROVE  /\ out \in Seq(Times \X Kinds) /\ Turns(out, seed)
         /\ \A k \in 1 .. Len(out) : out[k][1] > floor /\ Proved(p, out[k][1], out[k][2])
<1> DEFINE W == Window(around, floor)
           inside == Inside(p, ts)
<1>1. /\ W \subseteq DOMAIN fixes /\ W \in SUBSET Nat /\ IsFiniteSet(W)
      /\ \A t \in W : t > floor
      /\ \A t, u \in W : \A v \in DOMAIN fixes : t <= v /\ v <= u => v \in W
  BY WindowIs
<1> HIDE DEF W
<1>2. /\ ts \in Seq(W) /\ Len(ts) = Cardinality(W) /\ Cardinality(W) \in Nat
      /\ \A i \in 1 .. Len(ts) : ts[i] \in W
      /\ \A i, j \in 1 .. Len(ts) : i < j => ts[i] < ts[j]
      /\ \A t \in W : \E i \in 1 .. Len(ts) : ts[i] = t
  BY <1>1, SortedLists DEF W
<1>3. \A i \in 1 .. Len(ts) : inside[i] = (p \in fixes[ts[i]])
  BY DEF Inside
<1>4. inside \in [1 .. Len(ts) -> BOOLEAN]
  BY DEF Inside
<1> HIDE DEF inside
<1>5. ts \in Seq(Nat)
  <2>1. ts \in [1 .. Len(ts) -> Nat] /\ Len(ts) \in Nat
    BY <1>1, <1>2
  <2> QED
    BY <2>1
<1>6. Readings(ts, inside)
  BY <1>2, <1>4, <1>5 DEF Readings
<1>7. out \in Seq(Nat \X Kinds) /\ Dwelt(ts, inside, Len(ts), out) /\ Turns(out, seed)
  BY <1>6, ConfirmedOnes DEF inside
<1>8. ASSUME NEW k \in 1 .. Len(out)
      PROVE  out[k] \in Times \X Kinds /\ out[k][1] > floor /\ Proved(p, out[k][1], out[k][2])
  <2>1. PICK j \in 1 .. Len(ts) : out[k] = <<ts[j], Kind(inside, j)>> /\ Dwells(ts, inside, j)
    BY <1>7 DEF Dwelt
  <2>2. ts[j] \in W /\ ts[j] \in Nat /\ ts[j] \in DOMAIN fixes /\ ts[j] > floor /\ ts[j] \in Times
    BY <1>1, <1>2 DEF GeoTypes
  <2>3. out[k][1] = ts[j] /\ out[k][2] = Kind(inside, j) /\ Kind(inside, j) \in Kinds
    BY <2>1 DEF Kind, Kinds
  <2>4. PICK m \in j .. Len(ts) : /\ ts[m] >= ts[j] + Debounce
                                  /\ \A l \in j .. m : inside[l] = inside[j]
    BY <2>1 DEF Dwells
  <2>5. m \in 1 .. Len(ts) /\ ts[m] \in W /\ ts[m] \in Nat /\ ts[m] \in DOMAIN fixes
    BY <1>1, <1>2
  <2>6. ASSUME NEW v \in DOMAIN fixes, ts[j] <= v, v <= ts[m]
        PROVE  (p \in fixes[v]) <=> (Kind(inside, j) = "enter")
    <3>1. v \in W
      BY <1>1, <2>2, <2>5, <2>6
    <3>2. PICK l \in 1 .. Len(ts) : ts[l] = v
      BY <1>2, <3>1
    <3>3. l \in j .. m
      <4>1. ~(l < j) /\ ~(m < l)
        <5>1. v \in Nat
          BY <1>1, <3>1
        <5>2. ~(ts[l] < ts[j]) /\ ~(ts[m] < ts[l])
          BY <2>2, <2>5, <2>6, <3>2, <5>1
        <5> QED
          BY <1>2, <2>5, <5>2
      <4> QED
        BY <1>2, <2>5, <4>1
    <3>4. inside[l] = inside[j] /\ inside[l] = (p \in fixes[v])
      BY <1>3, <2>4, <3>2, <3>3
    <3>5. inside[j] \in BOOLEAN
      BY <1>4
    <3> QED
      BY <3>4, <3>5 DEF Kind
  <2>7. Proved(p, ts[j], Kind(inside, j))
    BY <2>2, <2>4, <2>5, <2>6 DEF Proved
  <2> QED
    BY <2>1, <2>2, <2>3, <2>7
<1>9. out \in Seq(Times \X Kinds)
  <2>1. Len(out) \in Nat /\ out \in [1 .. Len(out) -> Nat \X Kinds]
    BY <1>7
  <2>2. out \in [1 .. Len(out) -> Times \X Kinds]
    BY <1>8, <2>1
  <2> QED
    BY <2>1, <2>2
<1> QED
  BY <1>7, <1>8, <1>9
-----------------------------------------------------------------------------
(* The steps.                                                              *)

\* What a step of r leaves alone.
OnlyOf(r) == DOMAIN req' = Requests /\ \A s \in Requests \ {r} : req'[s] = req[s]

\* A step that puts one activation in order.
LEMMA ReqStep ==
  ASSUME GeoTypes, NEW r \in Requests, OnlyOf(r), ReqOK(req'[r])
  PROVE  DOMAIN req' = Requests /\ \A s \in Requests : ReqOK(req'[s])
BY DEF GeoTypes, OnlyOf

\* An idle activation.
LEMMA IdleOK == ReqOK(Idle) /\ Idle.pc = "idle" /\ Idle.appended = {} /\ Idle.todo = <<>>
<1>1. <<>> \in Seq(Times \X Kinds)
  OBVIOUS
<1> QED
  BY <1>1 DEF ReqOK, Idle, Fields

\* Ingest stores the fix and sets out with the first Place.
LEMMA IngestStep ==
  ASSUME GeoTypes, NEW r \in Requests, NEW t \in Times, Ingest(r, t)
  PROVE  /\ GeoTypes' /\ OnlyOf(r) /\ UNCHANGED <<events, alerts>>
         /\ req'[r].pc = "prior" /\ req'[r].appended = {} /\ req'[r].todo = <<>>
         /\ req'[r].around = t /\ req'[r].place = 1
<1> DEFINE q == [Idle EXCEPT !.pc = "prior", !.around = t, !.place = 1]
<1>1. /\ DOMAIN q = Fields /\ q.pc = "prior" /\ q.around = t /\ q.place = 1 /\ q.floor = Zero
      /\ q.seed = "none" /\ q.todo = <<>> /\ q.appended = {}
  BY DEF Idle, Fields
<1>2. req' = [req EXCEPT ![r] = q]
  BY DEF Ingest
<1> HIDE DEF q
<1>3. OnlyOf(r) /\ req'[r] = q
  BY <1>2 DEF OnlyOf, GeoTypes
<1>4. 1 \in Places
  <2>1. Places = 1 .. Cardinality(Places) /\ Cardinality(Places) \in Nat /\ Places # {}
    BY GeofenceAssumption, FS_CardinalityType
  <2> QED
    BY <2>1
<1>5. <<>> \in Seq(Times \X Kinds)
  OBVIOUS
<1>6. ReqOK(q)
  BY <1>1, <1>4, <1>5 DEF ReqOK
<1>7. DOMAIN fixes' \subseteq Times /\ \A u \in DOMAIN fixes' : fixes'[u] \subseteq Places
  <2>1. PICK cover \in SUBSET Places :
          fixes' = [u \in DOMAIN fixes \cup {t} |-> IF u = t THEN cover ELSE fixes[u]]
    BY DEF Ingest
  <2> QED
    BY <2>1 DEF GeoTypes
<1>8. orderly' \in BOOLEAN /\ UNCHANGED <<events, alerts, streak, missed>>
  BY DEF Ingest
<1>9. DOMAIN req' = Requests /\ \A s \in Requests : ReqOK(req'[s])
  BY <1>3, <1>6, ReqStep
<1>10. GeoTypes'
  BY <1>7, <1>8, <1>9 DEF GeoTypes, EventsOK
<1> QED
  BY <1>1, <1>3, <1>8, <1>10

\* The seed and the floor are the latest row's.
SeedOf(f) == IF Latest(f) = Zero THEN "none" ELSE f[Latest(f)]

\* ReadPrior reads them and keeps the rest.
LEMMA ReadPriorStep ==
  ASSUME GeoTypes, NEW r \in Requests, ReadPrior(r)
  PROVE  /\ GeoTypes' /\ OnlyOf(r) /\ UNCHANGED <<fixes, events, alerts, orderly, streak, missed>>
         /\ req[r].place \in Places /\ req'[r].place = req[r].place /\ req'[r].pc = "window"
         /\ req'[r].around = req[r].around
         /\ req'[r].floor = Latest(events[req[r].place]) /\ req'[r].seed = SeedOf(events[req[r].place])
         /\ req'[r].appended = req[r].appended /\ req'[r].todo = req[r].todo
<1> DEFINE f == events[req[r].place]
           last == Latest(f)
           sd == SeedOf(f)
<1>1. ReqOK(req[r]) /\ req[r].place \in Places
  BY DEF GeoTypes, ReadPrior, ReqOK
<1>2. req' = [req EXCEPT ![r].pc = "window", ![r].floor = last, ![r].seed = sd]
  BY DEF ReadPrior, SeedOf
<1>3. last \in Times \cup {Zero} /\ sd \in Kinds \cup {"none"}
  <2>1. DOMAIN f \subseteq Times /\ \A t \in DOMAIN f : f[t] \in Kinds
    BY <1>1 DEF GeoTypes, EventsOK
  <2> HIDE DEF f
  <2>2. last \in Times \cup {Zero} /\ (last # Zero => last \in DOMAIN f)
    BY <2>1, LatestOf
  <2> QED
    BY <2>1, <2>2 DEF SeedOf
<1> HIDE DEF f, last, sd
<1>4. OnlyOf(r)
  BY <1>2 DEF OnlyOf, GeoTypes
<1>5. /\ DOMAIN req'[r] = Fields /\ req'[r].pc = "window" /\ req'[r].floor = last /\ req'[r].seed = sd
      /\ req'[r].around = req[r].around /\ req'[r].place = req[r].place
      /\ req'[r].todo = req[r].todo /\ req'[r].appended = req[r].appended
  BY <1>1, <1>2 DEF ReqOK, Fields, GeoTypes
<1>6. ReqOK(req'[r])
  BY <1>1, <1>3, <1>5 DEF ReqOK
<1>7. UNCHANGED <<fixes, events, alerts, orderly, streak, missed>>
  BY DEF ReadPrior, history
<1>8. GeoTypes'
  BY <1>4, <1>6, <1>7, ReqStep DEF GeoTypes, EventsOK
<1> QED
  BY <1>1, <1>4, <1>5, <1>7, <1>8 DEF f, last, sd

\* The neighbourhood is read and the dwell rule run.
LEMMA ReadWindowStep ==
  ASSUME GeoTypes, NEW r \in Requests, ReadWindow(r)
  PROVE  /\ GeoTypes' /\ OnlyOf(r) /\ UNCHANGED <<fixes, events, alerts, orderly, streak, missed>>
         /\ req[r].place \in Places /\ req'[r].place = req[r].place /\ req'[r].pc = "append"
         /\ req'[r].around = req[r].around
         /\ req'[r].appended = req[r].appended
         /\ Turns(req'[r].todo, req[r].seed)
         /\ \A k \in 1 .. Len(req'[r].todo) :
              /\ req'[r].todo[k][1] > req[r].floor
              /\ Proved(req[r].place, req'[r].todo[k][1], req'[r].todo[k][2])
<1> DEFINE ts == Sorted(Window(req[r].around, req[r].floor))
           out == confirmTransitions(ts, Inside(req[r].place, ts), req[r].seed)
<1>1. ReqOK(req[r]) /\ req[r].place \in Places
  BY DEF GeoTypes, ReadWindow, ReqOK
<1>2. req' = [req EXCEPT ![r].pc = "append", ![r].todo = out]
  BY DEF ReadWindow
<1>3. /\ out \in Seq(Times \X Kinds) /\ Turns(out, req[r].seed)
      /\ \A k \in 1 .. Len(out) : out[k][1] > req[r].floor /\ Proved(req[r].place, out[k][1], out[k][2])
  BY <1>1, EvaluationConfirms DEF ReqOK
<1> HIDE DEF ts, out
<1>4. OnlyOf(r)
  BY <1>2 DEF OnlyOf, GeoTypes
<1>5. /\ DOMAIN req'[r] = Fields /\ req'[r].pc = "append" /\ req'[r].floor = req[r].floor
      /\ req'[r].seed = req[r].seed
      /\ req'[r].around = req[r].around /\ req'[r].place = req[r].place
      /\ req'[r].todo = out /\ req'[r].appended = req[r].appended
  BY <1>1, <1>2 DEF ReqOK, Fields, GeoTypes
<1>6. ReqOK(req'[r])
  BY <1>1, <1>3, <1>5 DEF ReqOK
<1>7. UNCHANGED <<fixes, events, alerts, orderly, streak, missed>>
  BY DEF ReadWindow, history
<1>8. GeoTypes'
  BY <1>4, <1>6, <1>7, ReqStep DEF GeoTypes, EventsOK
<1> QED
  BY <1>1, <1>3, <1>4, <1>5, <1>7, <1>8

\* A row is inserted unless it is there.
LEMMA InsertStep ==
  ASSUME EventsOK, NEW p \in Places, NEW tr \in Times \X Kinds, InsertEvent(p, tr)
  PROVE  /\ EventsOK' /\ \A q \in Places \ {p} : events'[q] = events[q]
         /\ DOMAIN events'[p] = DOMAIN events[p] \cup {tr[1]}
         /\ \A t \in DOMAIN events[p] : events'[p][t] = events[p][t]
         /\ tr[1] \notin DOMAIN events[p] => events'[p][tr[1]] = tr[2]
<1>1. CASE tr[1] \in DOMAIN events[p]
  BY <1>1 DEF InsertEvent, EventsOK
<1>2. CASE tr[1] \notin DOMAIN events[p]
  <2> DEFINE f == events[p]
             g == [t \in DOMAIN f \cup {tr[1]} |-> IF t = tr[1] THEN tr[2] ELSE f[t]]
  <2>1. events' = [events EXCEPT ![p] = g]
    BY <1>2 DEF InsertEvent
  <2>2. /\ DOMAIN g = DOMAIN f \cup {tr[1]} /\ g[tr[1]] = tr[2]
        /\ \A t \in DOMAIN f : g[t] = f[t]
    BY <1>2
  <2>3. tr[1] \in Times /\ tr[2] \in Kinds
    OBVIOUS
  <2> HIDE DEF g
  <2>4. /\ DOMAIN events' = Places /\ events'[p] = g /\ \A q \in Places \ {p} : events'[q] = events[q]
        /\ events' = [q \in Places |-> events'[q]]
    BY <2>1 DEF EventsOK
  <2>5. DOMAIN g \subseteq Times /\ \A t \in DOMAIN g : g[t] \in Kinds
    BY <2>2, <2>3 DEF EventsOK
  <2>6. EventsOK'
    BY <2>4, <2>5 DEF EventsOK
  <2> QED
    BY <1>2, <2>2, <2>4, <2>6
<1> QED
  BY <1>1, <1>2

\* The next transition is appended, and counted when its row is new.
LEMMA AppendStep ==
  ASSUME GeoTypes, NEW r \in Requests, AppendEvent(r)
  PROVE  LET p == req[r].place
             tr == Head(req[r].todo)
         IN /\ GeoTypes' /\ OnlyOf(r) /\ UNCHANGED <<fixes, alerts, orderly, streak, missed>>
            /\ p \in Places /\ req'[r].around = req[r].around
            /\ tr \in Times \X Kinds /\ InsertEvent(p, tr) /\ req[r].todo # <<>>
            /\ req[r].todo \in Seq(Times \X Kinds) /\ req[r].pc = "append"
            /\ req'[r].place = p /\ req'[r].pc = "append" /\ req'[r].todo = Tail(req[r].todo)
            /\ req'[r].appended = IF tr[1] \in DOMAIN events[p] THEN req[r].appended
                                  ELSE req[r].appended \cup {<<p, tr[1]>>}
<1> DEFINE p == req[r].place
           tr == Head(req[r].todo)
           rest == Tail(req[r].todo)
           new == IF tr[1] \in DOMAIN events[p] THEN req[r].appended
                  ELSE req[r].appended \cup {<<p, tr[1]>>}
<1>1. ReqOK(req[r]) /\ p \in Places /\ req[r].todo # <<>> /\ req[r].pc = "append"
  BY DEF GeoTypes, AppendEvent, ReqOK
<1>2. InsertEvent(p, tr) /\ req' = [req EXCEPT ![r].todo = rest, ![r].appended = new]
  BY DEF AppendEvent
<1>3. req[r].todo \in Seq(Times \X Kinds)
  BY <1>1 DEF ReqOK
<1>4. tr \in Times \X Kinds /\ rest \in Seq(Times \X Kinds)
  BY <1>1, <1>3, HeadTailProperties
<1>5. new \subseteq Places \X Times
  BY <1>1, <1>4 DEF ReqOK
<1> HIDE DEF p, tr, rest, new
<1>6. OnlyOf(r)
  BY <1>2 DEF OnlyOf, GeoTypes
<1>7. /\ DOMAIN req'[r] = Fields /\ req'[r].pc = req[r].pc /\ req'[r].floor = req[r].floor
      /\ req'[r].seed = req[r].seed
      /\ req'[r].around = req[r].around /\ req'[r].place = req[r].place
      /\ req'[r].todo = rest /\ req'[r].appended = new
  BY <1>1, <1>2 DEF ReqOK, Fields, GeoTypes
<1>8. ReqOK(req'[r])
  BY <1>1, <1>4, <1>5, <1>7 DEF ReqOK, p
<1>9. UNCHANGED <<fixes, alerts, orderly, streak, missed>>
  BY DEF AppendEvent, history
<1>10. EventsOK'
  BY <1>1, <1>2, <1>4, InsertStep DEF GeoTypes
<1>11. GeoTypes'
  BY <1>6, <1>8, <1>9, <1>10, ReqStep DEF GeoTypes
<1> QED
  BY <1>1, <1>2, <1>3, <1>4, <1>6, <1>7, <1>9, <1>11 DEF p, tr, rest, new

\* The next Place.
LEMMA NextPlaceStep ==
  ASSUME GeoTypes, NEW r \in Requests, NextPlace(r)
  PROVE  /\ GeoTypes' /\ OnlyOf(r) /\ UNCHANGED <<fixes, events, alerts, orderly, streak, missed>>
         /\ req'[r].pc = "prior" /\ req'[r].appended = req[r].appended /\ req'[r].todo = <<>>
         /\ req'[r].around = req[r].around /\ req'[r].place = req[r].place + 1
<1>1. ReqOK(req[r]) /\ req[r].place + 1 \in Places /\ req[r].todo = <<>>
  BY DEF GeoTypes, NextPlace
<1>2. req' = [req EXCEPT ![r].pc = "prior", ![r].place = @ + 1]
  BY DEF NextPlace
<1>3. OnlyOf(r)
  BY <1>2 DEF OnlyOf, GeoTypes
<1>4. /\ DOMAIN req'[r] = Fields /\ req'[r].pc = "prior" /\ req'[r].floor = req[r].floor
      /\ req'[r].seed = req[r].seed
      /\ req'[r].around = req[r].around /\ req'[r].place = req[r].place + 1
      /\ req'[r].todo = req[r].todo /\ req'[r].appended = req[r].appended
  BY <1>1, <1>2 DEF ReqOK, Fields, GeoTypes
<1>5. ReqOK(req'[r])
  BY <1>1, <1>4 DEF ReqOK
<1>6. UNCHANGED <<fixes, events, alerts, orderly, streak, missed>>
  BY DEF NextPlace, history
<1>7. GeoTypes'
  BY <1>3, <1>5, <1>6, ReqStep DEF GeoTypes, EventsOK
<1> QED
  BY <1>1, <1>3, <1>4, <1>6, <1>7

\* An evaluation that ends, in one way or another, hands over some of what it
\* appended.
LEMMA EndSteps ==
  ASSUME GeoTypes, NEW r \in Requests, EndEvaluation(r) \/ Fail(r) \/ FailCommitted(r)
  PROVE  /\ GeoTypes' /\ OnlyOf(r) /\ req'[r] = Idle
         /\ alerts \subseteq alerts' /\ alerts' \subseteq alerts \cup req[r].appended
         /\ \/ UNCHANGED events
            \/ /\ req[r].place \in Places /\ req[r].pc = "append" /\ req[r].todo # <<>>
               /\ req[r].todo \in Seq(Times \X Kinds) /\ Head(req[r].todo) \in Times \X Kinds
               /\ InsertEvent(req[r].place, Head(req[r].todo))
<1>1. ReqOK(req[r])
  BY DEF GeoTypes
<1>2. PICK some \in SUBSET req[r].appended : Return(r, some)
  BY DEF EndEvaluation, Fail, FailCommitted, EarlierPlaces
<1>3. OnlyOf(r) /\ req'[r] = Idle
  BY <1>2 DEF Return, OnlyOf, GeoTypes
<1>4. alerts \subseteq alerts' /\ alerts' \subseteq alerts \cup req[r].appended
  BY <1>2 DEF Return
<1>5. alerts' \subseteq Places \X Times
  BY <1>1, <1>4 DEF GeoTypes, ReqOK
<1>6. orderly' \in BOOLEAN /\ streak' \in Nat /\ missed' \in Nat /\ fixes' = fixes
  BY DEF EndEvaluation, Fail, FailCommitted, Failed, GeoTypes
<1>7. \/ UNCHANGED events
      \/ /\ req[r].place \in Places /\ req[r].pc = "append" /\ req[r].todo # <<>>
         /\ req[r].todo \in Seq(Times \X Kinds) /\ Head(req[r].todo) \in Times \X Kinds
         /\ InsertEvent(req[r].place, Head(req[r].todo))
  <2>1. CASE EndEvaluation(r) \/ Fail(r)
    BY <2>1 DEF EndEvaluation, Fail
  <2>2. CASE FailCommitted(r)
    <3>1. /\ req[r].place \in Places /\ req[r].pc = "append" /\ req[r].todo # <<>>
          /\ req[r].todo \in Seq(Times \X Kinds)
          /\ InsertEvent(req[r].place, Head(req[r].todo))
      BY <1>1, <2>2 DEF ReqOK, FailCommitted
    <3>2. Head(req[r].todo) \in Times \X Kinds
      BY <3>1, HeadTailProperties
    <3> QED
      BY <3>1, <3>2
  <2> QED
    BY <2>1, <2>2
<1>8. EventsOK'
  <2>1. CASE UNCHANGED events
    BY <2>1 DEF GeoTypes, EventsOK
  <2> QED
    BY <1>7, <2>1, InsertStep DEF GeoTypes
<1>9. DOMAIN req' = Requests /\ \A s \in Requests : ReqOK(req'[s])
  BY <1>3, IdleOK, ReqStep
<1>10. GeoTypes'
  BY <1>5, <1>6, <1>8, <1>9 DEF GeoTypes
<1> QED
  BY <1>3, <1>4, <1>7, <1>10
-----------------------------------------------------------------------------
(* For any number of requests.                                             *)

\* It starts idle.
LEMMA GeoInit == Init => GeoTypes
<1> SUFFICES ASSUME Init PROVE GeoTypes
  OBVIOUS
<1>1. \A r \in Requests : ReqOK(req[r])
  BY IdleOK DEF Init
<1>2. EventsOK
  <2>1. DOMAIN events = Places /\ \A p \in Places : events[p] = <<>>
    BY DEF Init
  <2>2. events = [p \in Places |-> events[p]]
    BY DEF Init
  <2> QED
    BY <2>1, <2>2 DEF EventsOK
<1> QED
  BY <1>1, <1>2 DEF Init, GeoTypes

\* Every step keeps the types.
LEMMA GeoStep == GeoTypes /\ [Next]_vars => GeoTypes'
<1> SUFFICES ASSUME GeoTypes, [Next]_vars PROVE GeoTypes'
  OBVIOUS
<1>1. CASE UNCHANGED vars
  BY <1>1 DEF vars, GeoTypes, EventsOK
<1> QED
  BY <1>1, IngestStep, ReadPriorStep, ReadWindowStep, AppendStep, NextPlaceStep, EndSteps DEF Next

\* GeofenceEvaluator keeps its types.
THEOREM GeofenceTypeCorrect == Spec => []TypeOK
<1>1. GeoTypes => TypeOK
  <2> SUFFICES ASSUME GeoTypes PROVE TypeOK
    OBVIOUS
  <2>1. \A r \in Requests : \A i \in 1 .. Len(req[r].todo) : req[r].todo[i] \in Times \X Kinds
    BY DEF GeoTypes, ReqOK
  <2> QED
    BY <2>1 DEF GeoTypes, EventsOK, ReqOK, TypeOK
<1> QED
  BY <1>1, GeoInit, GeoStep, PTL DEF Spec

\* Whoever has a crossing to announce, or has announced it, has its row in the log.
Announced == (\A a \in alerts : a[2] \in DOMAIN events[a[1]]) /\ AlertedOnce

\* Every step announces only what it inserted.
LEMMA AnnouncedStep == GeoTypes /\ Announced /\ [Next]_vars => Announced'
<1> SUFFICES ASSUME GeoTypes, Announced, [Next]_vars PROVE Announced'
  OBVIOUS
<1>1. ASSUME NEW r \in Requests, OnlyOf(r), UNCHANGED <<events, alerts>>,
             req'[r].appended \subseteq req[r].appended
      PROVE  Announced'
  BY <1>1 DEF Announced, AlertedOnce, OnlyOf
<1>2. ASSUME NEW p \in Places, NEW tr \in Times \X Kinds, InsertEvent(p, tr)
      PROVE  \A a \in Places \X Times : a[2] \in DOMAIN events[a[1]] => a[2] \in DOMAIN events'[a[1]]
  BY <1>2, InsertStep DEF GeoTypes
<1>3. \A r \in Requests : req[r].appended \subseteq Places \X Times
  BY DEF GeoTypes, ReqOK
<1>4. alerts \subseteq Places \X Times
  BY DEF GeoTypes
<1>5. ASSUME NEW r \in Requests, AppendEvent(r) PROVE Announced'
  <2> DEFINE p == req[r].place
             tr == Head(req[r].todo)
  <2>1. /\ OnlyOf(r) /\ alerts' = alerts /\ p \in Places /\ tr \in Times \X Kinds /\ InsertEvent(p, tr)
        /\ req'[r].appended = IF tr[1] \in DOMAIN events[p] THEN req[r].appended
                              ELSE req[r].appended \cup {<<p, tr[1]>>}
    BY <1>5, AppendStep
  <2> HIDE DEF p, tr
  <2>2. tr[1] \in DOMAIN events'[p]
    BY <2>1, InsertStep DEF GeoTypes
  <2>3. \A a \in Places \X Times : a[2] \in DOMAIN events[a[1]] => a[2] \in DOMAIN events'[a[1]]
    BY <1>2, <2>1
  <2>4. CASE tr[1] \in DOMAIN events[p]
    <3>1. \A s \in Requests : req'[s].appended = req[s].appended
      BY <2>1, <2>4 DEF OnlyOf
    <3> QED
      BY <1>3, <1>4, <2>1, <2>3, <3>1 DEF Announced, AlertedOnce
  <2>5. CASE tr[1] \notin DOMAIN events[p]
    <3> DEFINE n == <<p, tr[1]>>
    <3>1. n[1] = p /\ n[2] = tr[1]
      OBVIOUS
    <3> HIDE DEF n
    <3>2. req'[r].appended = req[r].appended \cup {n} /\ \A s \in Requests \ {r} : req'[s].appended = req[s].appended
      BY <2>1, <2>5 DEF OnlyOf, n
    <3>3. n \notin alerts /\ \A s \in Requests : n \notin req[s].appended
      BY <2>5, <3>1 DEF Announced, AlertedOnce
    <3>4. \A s \in Requests : \A a \in req'[s].appended : a[2] \in DOMAIN events'[a[1]]
      BY <1>3, <2>2, <2>3, <3>1, <3>2 DEF Announced, AlertedOnce
    <3>5. \A s \in Requests : req'[s].appended \cap alerts = {}
      BY <3>2, <3>3 DEF Announced, AlertedOnce
    <3>6. \A s \in Requests : \A t \in Requests \ {s} : req'[s].appended \cap req'[t].appended = {}
      BY <3>2, <3>3 DEF Announced, AlertedOnce
    <3>7. \A a \in alerts : a[2] \in DOMAIN events'[a[1]]
      BY <1>4, <2>3 DEF Announced
    <3> QED
      BY <2>1, <3>4, <3>5, <3>6, <3>7 DEF Announced, AlertedOnce
  <2> QED
    BY <2>4, <2>5
<1>6. ASSUME NEW r \in Requests, EndEvaluation(r) \/ Fail(r) \/ FailCommitted(r) PROVE Announced'
  <2>1. /\ OnlyOf(r) /\ req'[r].appended = {}
        /\ alerts \subseteq alerts' /\ alerts' \subseteq alerts \cup req[r].appended
    BY <1>6, EndSteps, IdleOK
  <2>2. \A a \in Places \X Times : a[2] \in DOMAIN events[a[1]] => a[2] \in DOMAIN events'[a[1]]
    BY <1>2, <1>6, EndSteps
  <2>3. \A s \in Requests : req'[s].appended \subseteq req[s].appended
    BY <2>1 DEF OnlyOf
  <2>4. \A s \in Requests : req'[s].appended \cap alerts' = {}
    BY <2>1, <2>3 DEF Announced, AlertedOnce, OnlyOf
  <2>5. \A s \in Requests : \A a \in req'[s].appended : a[2] \in DOMAIN events'[a[1]]
    BY <1>3, <2>2, <2>3 DEF Announced, AlertedOnce
  <2>6. \A a \in alerts' : a[2] \in DOMAIN events'[a[1]]
    BY <1>3, <1>4, <2>1, <2>2 DEF Announced, AlertedOnce
  <2> QED
    BY <2>3, <2>4, <2>5, <2>6 DEF Announced, AlertedOnce
<1>7. CASE UNCHANGED vars
  BY <1>7 DEF vars, Announced, AlertedOnce
<1>8. ASSUME NEW r \in Requests, (\E t \in Times : Ingest(r, t)) \/ ReadPrior(r) \/ ReadWindow(r) \/ NextPlace(r)
      PROVE  Announced'
  BY <1>1, <1>8, IngestStep, ReadPriorStep, ReadWindowStep, NextPlaceStep
<1> QED
  BY <1>5, <1>6, <1>7, <1>8 DEF Next

\* A crossing is announced once, whatever requests evaluate at the same time and
\* whatever fails: no two have the same row to announce, and none has one that
\* was announced before.
THEOREM CrossingsAreAlertedOnce == Spec => []AlertedOnce
<1>1. Init => GeoTypes /\ Announced
  <2> SUFFICES ASSUME Init PROVE Announced
    BY GeoInit
  <2>1. \A r \in Requests : req[r].appended = {}
    BY IdleOK DEF Init
  <2> QED
    BY <2>1 DEF Init, Announced, AlertedOnce
<1>2. GeoTypes /\ Announced /\ [Next]_vars => (GeoTypes /\ Announced)'
  BY GeoStep, AnnouncedStep
<1>3. GeoTypes /\ Announced => AlertedOnce
  BY DEF Announced
<1> QED
  BY <1>1, <1>2, <1>3, PTL DEF Spec

\* A single fix that jitters across the boundary never becomes an event: what an
\* evaluation confirms is proved by the stored fixes, an unbroken run of the new
\* state over one Debounce, although it sees only a neighbourhood of them.
THEOREM ConfirmedHasDwelt == Spec => DwellProved
<1>1. GeoTypes /\ [Next]_vars =>
        [\A r \in Requests : req[r].pc = "window" /\ req'[r].pc = "append" =>
           \A i \in 1 .. Len(req'[r].todo) :
             Proved(req[r].place, req'[r].todo[i][1], req'[r].todo[i][2])]_vars
  <2> SUFFICES ASSUME GeoTypes, Next, NEW r \in Requests, req[r].pc = "window", req'[r].pc = "append",
                      NEW i \in 1 .. Len(req'[r].todo)
               PROVE  Proved(req[r].place, req'[r].todo[i][1], req'[r].todo[i][2])
    OBVIOUS
  <2>1. ASSUME NEW s \in Requests, OnlyOf(s) PROVE s = r
    BY <2>1 DEF OnlyOf
  <2>2. CASE ReadWindow(r)
    BY <2>2, ReadWindowStep
  <2>3. PICK s \in Requests :
          \/ \E t \in Times : Ingest(s, t)
          \/ ReadPrior(s) \/ ReadWindow(s) \/ AppendEvent(s) \/ NextPlace(s)
          \/ EndEvaluation(s) \/ Fail(s) \/ FailCommitted(s)
    BY DEF Next
  <2>4. OnlyOf(s)
    BY <2>3, IngestStep, ReadPriorStep, ReadWindowStep, AppendStep, NextPlaceStep, EndSteps
  <2>5. s = r
    BY <2>1, <2>4
  <2>6. ASSUME EndEvaluation(r) \/ Fail(r) \/ FailCommitted(r) PROVE FALSE
    BY <2>6, EndSteps, IdleOK
  <2>7. ASSUME (\E t \in Times : Ingest(r, t)) \/ ReadPrior(r) \/ NextPlace(r) PROVE FALSE
    BY <2>7, IngestStep, ReadPriorStep, NextPlaceStep
  <2>8. ASSUME AppendEvent(r) PROVE FALSE
    BY <2>8 DEF AppendEvent
  <2> QED
    BY <2>2, <2>3, <2>5, <2>6, <2>7, <2>8
<1> QED
  BY <1>1, GeoInit, GeoStep, PTL DEF Spec, DwellProved
-----------------------------------------------------------------------------
(* One request at a time.                                                  *)

\* The first row is an enter, and neighbours differ.
TakesTurns(f) ==
  /\ \A t \in DOMAIN f : (\A u \in DOMAIN f : t <= u) => f[t] = "enter"
  /\ \A t, u \in DOMAIN f : t < u /\ (\A v \in DOMAIN f : ~(t < v /\ v < u)) => f[t] # f[u]

\* A row appended after the others, of the kind that follows the latest.
LEMMA TurnAppended ==
  ASSUME NEW f, DOMAIN f \subseteq Times, \A t \in DOMAIN f : f[t] \in Kinds, TakesTurns(f),
         NEW t \in Times, t > Latest(f), NEW kind \in Kinds, kind = First(SeedOf(f)),
         NEW g, DOMAIN g = DOMAIN f \cup {t}, g[t] = kind, \A u \in DOMAIN f : g[u] = f[u]
  PROVE  TakesTurns(g) /\ Latest(g) = t /\ SeedOf(g) = kind
<1>0. Times \subseteq Nat
  BY GeofenceAssumption
<1>1. /\ Latest(f) \in Times \cup {Zero} /\ (Latest(f) = Zero <=> DOMAIN f = {})
      /\ DOMAIN f # {} => Latest(f) \in DOMAIN f
      /\ \A u \in DOMAIN f : u <= Latest(f)
  BY LatestOf
<1>2. /\ Latest(g) \in DOMAIN g /\ Latest(g) # Zero /\ \A u \in DOMAIN g : u <= Latest(g)
  BY LatestOf
<1>3. \A u \in DOMAIN f : u \in Nat /\ u < t
  <2> TAKE u \in DOMAIN f
  <2>1. u \in Nat /\ t \in Nat /\ Latest(f) \in Int /\ u <= Latest(f)
    BY <1>0, <1>1 DEF Zero
  <2> QED
    BY <2>1
<1>4. t \in Nat /\ t \notin DOMAIN f
  BY <1>0, <1>3
<1>5. Latest(g) = t
  <2>1. Latest(g) \in Nat /\ t <= Latest(g)
    BY <1>0, <1>2
  <2> QED
    BY <1>2, <1>3, <1>4, <2>1
<1>6. SeedOf(g) = kind
  BY <1>2, <1>5 DEF SeedOf
<1>7. ASSUME NEW x \in DOMAIN g, \A u \in DOMAIN g : x <= u PROVE g[x] = "enter"
  <2>1. CASE DOMAIN f = {}
    <3>1. x = t /\ SeedOf(f) = "none"
      BY <1>1, <2>1 DEF SeedOf
    <3> QED
      BY <3>1 DEF First
  <2>2. CASE DOMAIN f # {}
    <3>1. PICK u \in DOMAIN f : TRUE
      BY <2>2
    <3>2. x <= u /\ u < t /\ u \in Nat
      BY <1>3, <1>7
    <3>3. x \in DOMAIN f
      BY <1>4, <1>7, <3>2
    <3> QED
      BY <1>7, <3>3 DEF TakesTurns
  <2> QED
    BY <2>1, <2>2
<1>8. ASSUME NEW x \in DOMAIN g, NEW y \in DOMAIN g, x < y,
             \A v \in DOMAIN g : ~(x < v /\ v < y)
      PROVE  g[x] # g[y]
  <2>1. x \in DOMAIN f
    <3> SUFFICES ASSUME x = t PROVE FALSE
      OBVIOUS
    <3>1. y \in Nat /\ y <= t
      BY <1>2, <1>3, <1>4, <1>5
    <3> QED
      BY <1>4, <1>8, <3>1
  <2>2. CASE y \in DOMAIN f
    BY <1>8, <2>1, <2>2 DEF TakesTurns
  <2>3. CASE y = t
    <3>1. DOMAIN f # {} /\ Latest(f) \in DOMAIN f /\ Latest(f) # Zero
      BY <1>1, <2>1
    <3>2. x <= Latest(f) /\ Latest(f) < t /\ ~(x < Latest(f) /\ Latest(f) < y)
      BY <1>1, <1>3, <1>8, <2>1, <3>1
    <3>3. x = Latest(f)
      BY <1>3, <2>1, <2>3, <3>1, <3>2
    <3>4. f[x] = SeedOf(f) /\ f[x] \in Kinds
      BY <2>1, <3>1, <3>3 DEF SeedOf
    <3>5. kind # f[x]
      BY <3>4 DEF First, Kinds
    <3> QED
      BY <2>1, <2>3, <3>5
  <2> QED
    BY <2>2, <2>3
<1> QED
  BY <1>5, <1>6, <1>7, <1>8 DEF TakesTurns

\* What is still to be appended follows what is there.
Follows(todo, f) == Turns(todo, SeedOf(f)) /\ \A k \in 1 .. Len(todo) : todo[k][1] > Latest(f)

\* Appending the head leaves the tail to follow.
LEMMA HeadAppended ==
  ASSUME EventsOK, NEW p \in Places, NEW todo \in Seq(Times \X Kinds), todo # <<>>,
         TakesTurns(events[p]), Follows(todo, events[p]), InsertEvent(p, Head(todo))
  PROVE  TakesTurns(events'[p]) /\ Follows(Tail(todo), events'[p])
<1> DEFINE f == events[p]
           g == events'[p]
           h == Head(todo)
           rest == Tail(todo)
<1>1. /\ h \in Times \X Kinds /\ rest \in Seq(Times \X Kinds) /\ Len(rest) = Len(todo) - 1
      /\ \A i \in 1 .. Len(rest) : rest[i] = todo[i + 1]
  BY HeadTailProperties
<1>2. Len(todo) \in Nat /\ Len(todo) >= 1 /\ h = todo[1]
  OBVIOUS
<1>3. DOMAIN f \subseteq Times /\ \A t \in DOMAIN f : f[t] \in Kinds
  BY DEF EventsOK
<1>4. h[1] > Latest(f) /\ h[2] = First(SeedOf(f)) /\ h[1] \in Times /\ h[2] \in Kinds
  BY <1>1, <1>2 DEF Follows, Turns
<1>5. h[1] \notin DOMAIN f
  <2>1. \A u \in DOMAIN f : u <= Latest(f)
    BY <1>3, LatestOf
  <2>2. Latest(f) \in Times \cup {Zero}
    <3> HIDE DEF f
    <3> QED
      BY <1>3, LatestOf
  <2>3. Latest(f) \in Int /\ h[1] \in Int
    <3> HIDE DEF f, h
    <3>1. Times \subseteq Nat /\ Zero \in Int
      BY GeofenceAssumption DEF Zero
    <3>2. h[1] \in Times
      BY <1>4
    <3>3. \A x \in Times \cup {Zero} : x \in Int
      BY <3>1
    <3> QED
      BY <2>2, <3>2, <3>3
  <2> HIDE DEF f, h
  <2> QED
    BY <1>4, <2>1, <2>3
<1>6. DOMAIN g = DOMAIN f \cup {h[1]} /\ g[h[1]] = h[2] /\ \A u \in DOMAIN f : g[u] = f[u]
  BY <1>1, <1>5, InsertStep
<1>13. TakesTurns(f)
  OBVIOUS
<1> HIDE DEF h, rest, f, g
<1>7. TakesTurns(g) /\ Latest(g) = h[1] /\ SeedOf(g) = h[2]
  BY <1>3, <1>4, <1>6, <1>13, TurnAppended
<1>8. \A i \in 1 .. Len(rest) : i \in 1 .. Len(todo) /\ i + 1 \in 1 .. Len(todo) /\ rest[i] = todo[i + 1]
  BY <1>1, <1>2
<1>9. \A k \in 1 .. Len(rest) : rest[k][1] > h[1]
  <2> TAKE k \in 1 .. Len(rest)
  <2>1. 1 \in 1 .. Len(todo) /\ 1 < k + 1
    BY <1>2, <1>8
  <2>2. todo[1][1] < todo[k + 1][1]
    BY <1>8, <2>1 DEF Follows, Turns
  <2>3. rest[k] \in Times \X Kinds /\ rest[k][1] \in Nat /\ h[1] \in Nat
    BY <1>1, <1>4, GeofenceAssumption
  <2> QED
    BY <1>2, <1>8, <2>2, <2>3
<1>10. \A k, l \in 1 .. Len(rest) : k < l => rest[k][1] < rest[l][1]
  <2> SUFFICES ASSUME NEW k \in 1 .. Len(rest), NEW l \in 1 .. Len(rest), k < l
               PROVE  rest[k][1] < rest[l][1]
    OBVIOUS
  <2>1. k + 1 < l + 1
    OBVIOUS
  <2> QED
    BY <1>8, <2>1 DEF Follows, Turns
<1>11. \A k \in 1 .. Len(rest) - 1 : rest[k][2] # rest[k + 1][2]
  <2> TAKE k \in 1 .. Len(rest) - 1
  <2>1. k \in 1 .. Len(rest) /\ k + 1 \in 1 .. Len(rest) /\ k + 1 \in 1 .. Len(todo) - 1
    BY <1>1, <1>2
  <2> QED
    BY <1>8, <2>1 DEF Follows, Turns
<1>12. Len(rest) > 0 => rest[1][2] = First(h[2])
  <2> SUFFICES ASSUME Len(rest) > 0 PROVE rest[1][2] = First(h[2])
    OBVIOUS
  <2>1. 1 \in 1 .. Len(rest) /\ 1 \in 1 .. Len(todo) - 1
    BY <1>1, <1>2
  <2>2. rest[1] = todo[2] /\ todo[1][2] # todo[1 + 1][2]
    BY <1>8, <2>1 DEF Follows, Turns
  <2>3. rest[1][2] \in Kinds
    BY <1>1, <2>1
  <2> QED
    BY <1>2, <1>4, <2>2, <2>3 DEF First, Kinds
<1> QED
  BY <1>7, <1>9, <1>10, <1>11, <1>12 DEF Follows, Turns, g, rest

\* With one request, what it has read of a Place's log is what is there.
TurnsInv ==
  /\ \A p \in Places : TakesTurns(events[p])
  /\ \A r \in Requests :
       LET f == events[req[r].place] IN
       /\ req[r].pc = "window" => req[r].floor = Latest(f) /\ req[r].seed = SeedOf(f)
       /\ req[r].pc = "append" => Follows(req[r].todo, f)

\* Every step of the only request.
LEMMA TurnsStep ==
  ASSUME \A r, s \in Requests : r = s, GeoTypes, TurnsInv, [Next]_vars
  PROVE  TurnsInv'
<1>1. CASE UNCHANGED vars
  BY <1>1 DEF vars, TurnsInv
<1>2. ASSUME NEW r \in Requests, UNCHANGED events, req'[r].pc \in {"idle", "prior"} PROVE TurnsInv'
  <2>1. \A s \in Requests : req'[s].pc \notin {"window", "append"}
    BY <1>2
  <2> QED
    BY <1>2, <2>1 DEF TurnsInv
<1>3. ASSUME NEW r \in Requests, ReadPrior(r) PROVE TurnsInv'
  <2>1. /\ UNCHANGED events /\ req'[r].place = req[r].place /\ req'[r].pc = "window"
        /\ req'[r].floor = Latest(events[req[r].place]) /\ req'[r].seed = SeedOf(events[req[r].place])
    BY <1>3, ReadPriorStep
  <2>2. \A s \in Requests : s = r
    BY <1>3
  <2> QED
    BY <2>1, <2>2 DEF TurnsInv
<1>4. ASSUME NEW r \in Requests, ReadWindow(r) PROVE TurnsInv'
  <2>1. /\ UNCHANGED events /\ req'[r].place = req[r].place /\ req'[r].pc = "append"
        /\ Turns(req'[r].todo, req[r].seed)
        /\ \A k \in 1 .. Len(req'[r].todo) : req'[r].todo[k][1] > req[r].floor
    BY <1>4, ReadWindowStep
  <2>2. req[r].floor = Latest(events[req[r].place]) /\ req[r].seed = SeedOf(events[req[r].place])
    BY <1>4 DEF ReadWindow, TurnsInv
  <2>3. Follows(req'[r].todo, events[req[r].place])
    BY <2>1, <2>2 DEF Follows
  <2>4. \A s \in Requests : s = r
    BY <1>4
  <2> QED
    BY <2>1, <2>3, <2>4 DEF TurnsInv
<1>5. ASSUME NEW r \in Requests, req[r].place \in Places, req[r].pc = "append", req[r].todo # <<>>,
             req[r].todo \in Seq(Times \X Kinds), Head(req[r].todo) \in Times \X Kinds,
             InsertEvent(req[r].place, Head(req[r].todo))
      PROVE  /\ \A p \in Places : TakesTurns(events'[p])
             /\ Follows(Tail(req[r].todo), events'[req[r].place])
  <2>1. TakesTurns(events[req[r].place]) /\ Follows(req[r].todo, events[req[r].place]) /\ EventsOK
    BY <1>5 DEF TurnsInv, GeoTypes
  <2>2. TakesTurns(events'[req[r].place]) /\ Follows(Tail(req[r].todo), events'[req[r].place])
    BY <1>5, <2>1, HeadAppended
  <2>3. \A q \in Places \ {req[r].place} : events'[q] = events[q]
    BY <1>5, <2>1, InsertStep
  <2> QED
    BY <2>2, <2>3 DEF TurnsInv
<1>6. ASSUME NEW r \in Requests, AppendEvent(r) PROVE TurnsInv'
  <2>1. /\ req[r].place \in Places /\ req[r].pc = "append" /\ req[r].todo # <<>>
        /\ req[r].todo \in Seq(Times \X Kinds) /\ Head(req[r].todo) \in Times \X Kinds
        /\ InsertEvent(req[r].place, Head(req[r].todo))
        /\ req'[r].place = req[r].place /\ req'[r].pc = "append" /\ req'[r].todo = Tail(req[r].todo)
    BY <1>6, AppendStep
  <2>2. /\ \A p \in Places : TakesTurns(events'[p])
        /\ Follows(Tail(req[r].todo), events'[req[r].place])
    BY <1>5, <2>1
  <2>3. \A s \in Requests : s = r
    BY <1>6
  <2> QED
    BY <2>1, <2>2, <2>3 DEF TurnsInv
<1>7. ASSUME NEW r \in Requests, EndEvaluation(r) \/ Fail(r) \/ FailCommitted(r) PROVE TurnsInv'
  <2>1. req'[r].pc = "idle"
    BY <1>7, EndSteps, IdleOK
  <2>2. CASE UNCHANGED events
    BY <1>2, <2>1, <2>2
  <2>3. CASE ~ UNCHANGED events
    <3>1. \A p \in Places : TakesTurns(events'[p])
      BY <1>5, <1>7, <2>3, EndSteps
    <3>2. \A s \in Requests : req'[s].pc = "idle"
      BY <1>7, <2>1
    <3> QED
      BY <3>1, <3>2 DEF TurnsInv
  <2> QED
    BY <2>2, <2>3
<1>8. ASSUME NEW r \in Requests, (\E t \in Times : Ingest(r, t)) \/ NextPlace(r) PROVE TurnsInv'
  BY <1>2, <1>8, IngestStep, NextPlaceStep
<1> QED
  BY <1>1, <1>3, <1>4, <1>6, <1>7, <1>8 DEF Next

\* Neighbours that differ make a log that alternates.
LEMMA TurnsAlternate == GeoTypes /\ TurnsInv => Alternates
<1> SUFFICES ASSUME GeoTypes, TurnsInv, NEW p \in Places
             PROVE  \A i \in 1 .. Len(Log(p)) : Log(p)[i] = IF i % 2 = 1 THEN "enter" ELSE "exit"
  BY DEF Alternates
<1> DEFINE f == events[p]
           D == DOMAIN f
           n == Cardinality(D)
           s == Sorted(D)
<1>1. /\ D \subseteq Times /\ \A t \in D : f[t] \in Kinds
      /\ TakesTurns(f)
  BY DEF GeoTypes, EventsOK, TurnsInv
<1>2. D \in SUBSET Nat /\ IsFiniteSet(D)
  <2> HIDE DEF D
  <2> QED
    BY <1>1, FS_Subset, GeofenceAssumption
<1>3. /\ n \in Nat /\ \A i \in 1 .. n : s[i] \in D
      /\ \A i, j \in 1 .. n : i < j => s[i] < s[j]
      /\ \A t \in D : \E i \in 1 .. n : s[i] = t
  <2> HIDE DEF D
  <2> QED
    BY <1>2, SortedLists
<1>4. Log(p) = [i \in 1 .. n |-> f[s[i]]]
  BY DEF Log
<1>5. Len(Log(p)) = n /\ \A i \in 1 .. n : Log(p)[i] = f[s[i]]
  <2> HIDE DEF n, f, s
  <2> QED
    BY <1>3, <1>4
<1> DEFINE want(i) == IF i % 2 = 1 THEN "enter" ELSE "exit"
           bad == {i \in 1 .. n : f[s[i]] # want(i)}
<1>6. bad = {}
  <2> SUFFICES ASSUME bad # {} PROVE FALSE
    OBVIOUS
  <2>1. PICK i \in bad : \A j \in bad : i <= j
    <3>1. bad \in SUBSET Nat
      BY <1>3
    <3> HIDE DEF bad
    <3> QED
      BY <3>1, LeastNatural
  <2>2. i \in 1 .. n /\ f[s[i]] # want(i) /\ s[i] \in D /\ i \in Nat
    BY <1>3
  <2> HIDE DEF D, n, s, f
  <2>3. CASE i = 1
    <3>1. \A t \in D : s[1] <= t
      <4> TAKE t \in D
      <4>1. PICK j \in 1 .. n : s[j] = t
        BY <1>3
      <4>2. s[1] \in Nat /\ t \in Nat
        BY <1>2, <2>2, <2>3
      <4>3. j = 1 \/ s[1] < s[j]
        BY <1>3, <2>2, <2>3
      <4> QED
        BY <4>1, <4>2, <4>3
    <3>2. f[s[1]] = "enter"
      BY <1>1, <2>2, <2>3, <3>1 DEF TakesTurns, D
    <3>3. want(1) = "enter"
      OBVIOUS
    <3> QED
      BY <2>2, <2>3, <3>2, <3>3
  <2>4. CASE i # 1
    <3>1. i - 1 \in 1 .. n /\ i - 1 < i
      BY <1>3, <2>2, <2>4
    <3>2. i - 1 \notin bad
      BY <2>1, <2>2, <3>1
    <3>3. f[s[i - 1]] = want(i - 1)
      BY <3>1, <3>2
    <3>4. s[i - 1] \in D /\ s[i - 1] < s[i]
      BY <1>3, <2>2, <3>1
    <3>5. \A v \in D : ~(s[i - 1] < v /\ v < s[i])
      <4> SUFFICES ASSUME NEW v \in D, s[i - 1] < v, v < s[i] PROVE FALSE
        OBVIOUS
      <4>1. PICK j \in 1 .. n : s[j] = v
        BY <1>3
      <4>2. v \in Nat /\ s[i] \in Nat /\ s[i - 1] \in Nat
        BY <1>2, <2>2, <3>4
      <4>3. ~(j < i - 1) /\ j # i - 1 /\ ~(i < j) /\ j # i
        <5>1. j < i - 1 => s[j] < s[i - 1]
          BY <1>3, <3>1
        <5>2. i < j => s[i] < s[j]
          BY <1>3, <2>2
        <5> QED
          BY <4>1, <4>2, <5>1, <5>2
      <4> QED
        BY <1>3, <2>2, <4>3
    <3>6. f[s[i - 1]] # f[s[i]] /\ f[s[i]] \in Kinds
      BY <1>1, <2>2, <3>4, <3>5 DEF TakesTurns, D
    <3>7. (i % 2 = 1) <=> ~((i - 1) % 2 = 1)
      BY <2>2, <2>4
    <3> QED
      BY <2>2, <3>3, <3>6, <3>7 DEF Kinds
  <2> QED
    BY <2>3, <2>4
<1>7. \A i \in 1 .. n : f[s[i]] = want(i)
  BY <1>6
<1> HIDE DEF n, f, s
<1> QED
  BY <1>5, <1>7

\* "The log never contradicts itself": where the fixes of a device are evaluated
\* one request at a time, enter and exit take turns for each Place, beginning
\* with an enter, whatever order the fixes come in and whatever fails.
THEOREM OneAtATimeAlternates ==
  ASSUME \A r, s \in Requests : r = s
  PROVE  Spec => []Alternates
<1>1. Init => GeoTypes /\ TurnsInv
  <2> SUFFICES ASSUME Init PROVE TurnsInv
    BY GeoInit
  <2>1. \A p \in Places : DOMAIN events[p] = {}
    BY DEF Init
  <2>2. \A r \in Requests : req[r].pc = "idle"
    BY IdleOK DEF Init
  <2> QED
    BY <2>1, <2>2 DEF TurnsInv, TakesTurns
<1>2. GeoTypes /\ TurnsInv /\ [Next]_vars => (GeoTypes /\ TurnsInv)'
  BY GeoStep, TurnsStep
<1> QED
  BY <1>1, <1>2, TurnsAlternate, PTL DEF Spec
-----------------------------------------------------------------------------
(* The dwell rule as a property of a set of fixes S, of which those in I   *)
(* are inside: what the loop computes, said without a loop.                *)

\* The state at t lasts: the fixes from t on keep it until its dwell is met.
Holds(S, I, t) ==
  \E u \in S : u >= t + Debounce /\ \A v \in S : t <= v /\ v <= u => (v \in I <=> t \in I)

\* By t the device has been seen outside, or the log has a row to start from.
Seen(S, I, seed, t) == seed # "none" \/ \E v \in S : v <= t /\ v \notin I

\* The fixes whose state counts.
Sure(S, I, seed) == {t \in S : Holds(S, I, t) /\ Seen(S, I, seed, t)}

\* The state before x: that of the last fix whose state counts, or the seed's.
Was(U, I, seed, x) ==
  \/ \E u \in U : u < x /\ u \in I /\ \A v \in U : v < x => v <= u
  \/ seed = "enter" /\ \A v \in U : ~(v < x)

\* The fixes whose state counts and is not the state before.
Turning(S, I, seed) ==
  {t \in Sure(S, I, seed) : ~(t \in I <=> Was(Sure(S, I, seed), I, seed, t))}

\* The last of some timestamps before x.
LEMMA LastBefore ==
  ASSUME NEW U \in SUBSET Nat, NEW x \in Nat, NEW w \in U, w < x
  PROVE  \E u \in U : u < x /\ \A v \in U : v < x => v <= u
<1> DEFINE gaps == {x - u : u \in {v \in U : v < x}}
<1>1. gaps \in SUBSET Nat /\ gaps # {}
  <2>1. \A u \in U : u < x => x - u \in Nat
    OBVIOUS
  <2> QED
    BY <2>1
<1>2. PICK g \in gaps : \A h \in gaps : g <= h
  <2> HIDE DEF gaps
  <2> QED
    BY <1>1, LeastNatural
<1>3. PICK u \in U : u < x /\ g = x - u
  BY <1>2
<1>4. \A v \in U : v < x => v <= u
  <2> SUFFICES ASSUME NEW v \in U, v < x PROVE v <= u
    OBVIOUS
  <2>1. x - u <= x - v
    BY <1>2, <1>3
  <2> QED
    BY <2>1
<1> QED
  BY <1>3, <1>4

\* From one fix to the next the state is that of the former, when it counts.
LEMMA WasNext ==
  ASSUME NEW U \in SUBSET Nat, NEW I, NEW seed, NEW t \in Nat, NEW x \in Nat, t < x,
         \A v \in U : v < x => v <= t
  PROVE  /\ t \in U => (Was(U, I, seed, x) <=> t \in I)
         /\ t \notin U => (Was(U, I, seed, x) <=> Was(U, I, seed, t))
<1>1. CASE t \in U
  <2>1. \A u \in U : u < x /\ (\A v \in U : v < x => v <= u) => u = t
    BY <1>1
  <2> QED
    BY <1>1, <2>1 DEF Was
<1>2. CASE t \notin U
  <2>1. \A v \in U : v < x <=> v < t
    BY <1>2
  <2> QED
    BY <1>2, <2>1 DEF Was
<1> QED
  BY <1>1, <1>2

\* The readings of a set of fixes.
ReadingsOf(ts, inside, S, I) ==
  /\ Readings(ts, inside) /\ S \in SUBSET Nat
  /\ \A i \in 1 .. Len(ts) : ts[i] \in S /\ (inside[i] <=> ts[i] \in I)
  /\ \A t \in S : \E i \in 1 .. Len(ts) : ts[i] = t

\* What the readings are.
LEMMA ReadingsFacts ==
  ASSUME NEW ts, NEW inside, NEW S, NEW I, ReadingsOf(ts, inside, S, I)
  PROVE  /\ Len(ts) \in Nat
         /\ \A j \in 1 .. Len(ts) : ts[j] \in Nat /\ inside[j] \in BOOLEAN
         /\ \A j, k \in 1 .. Len(ts) : j < k => ts[j] < ts[k]
BY DEF ReadingsOf, Readings

\* The i-th reading dwells when its state lasts.
LEMMA DwellsIsHolds ==
  ASSUME NEW ts, NEW inside, NEW S, NEW I, ReadingsOf(ts, inside, S, I), NEW i \in 1 .. Len(ts)
  PROVE  Dwells(ts, inside, i) <=> Holds(S, I, ts[i])
<1>0. /\ Len(ts) \in Nat /\ Debounce \in Nat
      /\ \A j \in 1 .. Len(ts) : ts[j] \in Nat /\ inside[j] \in BOOLEAN
      /\ \A j, k \in 1 .. Len(ts) : j < k => ts[j] < ts[k]
  BY GeofenceAssumption, ReadingsFacts
<1>1. \A j, k \in 1 .. Len(ts) : ts[j] <= ts[k] <=> j <= k
  <2> SUFFICES ASSUME NEW j \in 1 .. Len(ts), NEW k \in 1 .. Len(ts) PROVE ts[j] <= ts[k] <=> j <= k
    OBVIOUS
  <2>1. j < k \/ j = k \/ k < j
    BY <1>0
  <2> QED
    BY <1>0, <2>1
<1>2. ASSUME Dwells(ts, inside, i) PROVE Holds(S, I, ts[i])
  <2>1. PICK j \in i .. Len(ts) : ts[j] >= ts[i] + Debounce /\ \A k \in i .. j : inside[k] = inside[i]
    BY <1>2 DEF Dwells
  <2>2. j \in 1 .. Len(ts) /\ ts[j] \in S
    BY <1>0 DEF ReadingsOf
  <2>3. ASSUME NEW v \in S, ts[i] <= v, v <= ts[j] PROVE v \in I <=> ts[i] \in I
    <3>1. PICK k \in 1 .. Len(ts) : ts[k] = v
      BY DEF ReadingsOf
    <3>2. k \in i .. j
      BY <1>0, <1>1, <2>2, <2>3, <3>1
    <3> QED
      BY <2>1, <3>1, <3>2 DEF ReadingsOf
  <2> QED
    BY <2>1, <2>2, <2>3 DEF Holds
<1>3. ASSUME Holds(S, I, ts[i]) PROVE Dwells(ts, inside, i)
  <2>1. PICK u \in S : /\ u >= ts[i] + Debounce
                       /\ \A v \in S : ts[i] <= v /\ v <= u => (v \in I <=> ts[i] \in I)
    BY <1>3 DEF Holds
  <2>2. PICK j \in 1 .. Len(ts) : ts[j] = u
    BY DEF ReadingsOf
  <2>3. i <= j
    BY <1>0, <1>1, <2>1, <2>2
  <2>4. ASSUME NEW k \in i .. j PROVE inside[k] = inside[i]
    <3>1. k \in 1 .. Len(ts) /\ ts[i] <= ts[k] /\ ts[k] <= ts[j] /\ ts[k] \in S
      BY <1>0, <1>1, <2>2 DEF ReadingsOf
    <3>2. inside[k] <=> inside[i]
      BY <2>1, <2>2, <3>1 DEF ReadingsOf
    <3> QED
      BY <1>0, <3>1, <3>2
  <2>5. j \in i .. Len(ts)
    BY <1>0, <2>3
  <2> QED
    BY <2>1, <2>2, <2>4, <2>5 DEF Dwells
<1> QED
  BY <1>2, <1>3

\* The timestamps put out.
Stamps(out) == {out[k][1] : k \in 1 .. Len(out)}

\* What the loop's variables mean after i readings.
AccMeans(ts, S, I, seed, i, a) ==
  /\ i < Len(ts) => (a.state <=> Was(Sure(S, I, seed), I, seed, ts[i + 1]))
  /\ a.observed <=> (seed # "none" \/ \E j \in 1 .. i : ts[j] \notin I)
  /\ Stamps(a.out) = {ts[j] : j \in {k \in 1 .. i : ts[k] \in Turning(S, I, seed)}}

\* One turn of the loop.
LEMMA MeansStep ==
  ASSUME NEW ts, NEW inside, NEW S, NEW I, ReadingsOf(ts, inside, S, I),
         NEW seed \in Kinds \cup {"none"}, NEW i \in 1 .. Len(ts),
         NEW a, AccOK(ts, inside, seed, i - 1, a), AccMeans(ts, S, I, seed, i - 1, a)
  PROVE  AccMeans(ts, S, I, seed, i, ConfirmStep(ts, inside, a, i))
<1> DEFINE U == Sure(S, I, seed)
           t == ts[i]
           T == Turning(S, I, seed)
           past == {ts[j] : j \in {k \in 1 .. i - 1 : ts[k] \in T}}
           b == ConfirmStep(ts, inside, a, i)
<1>0. /\ Len(ts) \in Nat /\ i \in Nat /\ i - 1 < Len(ts) /\ (i - 1) + 1 = i
      /\ \A j \in 1 .. Len(ts) : ts[j] \in Nat /\ inside[j] \in BOOLEAN
      /\ \A j, k \in 1 .. Len(ts) : j < k => ts[j] < ts[k]
  <2>1. /\ Len(ts) \in Nat
        /\ \A j \in 1 .. Len(ts) : ts[j] \in Nat /\ inside[j] \in BOOLEAN
        /\ \A j, k \in 1 .. Len(ts) : j < k => ts[j] < ts[k]
    BY ReadingsFacts
  <2> QED
    BY <2>1
<1>1. U \in SUBSET Nat /\ U \subseteq S /\ t \in S /\ t \in Nat /\ (inside[i] <=> t \in I)
  BY DEF ReadingsOf, Sure
<1>2. a.state <=> Was(U, I, seed, t)
  BY <1>0 DEF AccMeans
<1>3. a.observed <=> (seed # "none" \/ \E j \in 1 .. i - 1 : ts[j] \notin I)
  BY DEF AccMeans
<1>4. Stamps(a.out) = past
  BY DEF AccMeans
<1>5. \A v \in S : v <= t <=> \E j \in 1 .. i : ts[j] = v
  <2> SUFFICES ASSUME NEW v \in S PROVE v <= t <=> \E j \in 1 .. i : ts[j] = v
    OBVIOUS
  <2>1. PICK j \in 1 .. Len(ts) : ts[j] = v
    BY DEF ReadingsOf
  <2>2. \A k \in 1 .. i : ts[k] <= t
    <3> TAKE k \in 1 .. i
    <3>1. k \in 1 .. Len(ts) /\ (k = i \/ k < i)
      BY <1>0
    <3> QED
      BY <1>0, <3>1
  <2>3. j \in 1 .. i \/ t < v
    BY <1>0, <2>1
  <2> QED
    BY <1>0, <1>1, <2>1, <2>2, <2>3
<1>6. Seen(S, I, seed, t) <=> (a.observed \/ t \notin I)
  <2>1. \A j \in 1 .. i : j \in 1 .. i - 1 \/ j = i
    BY <1>0
  <2>2. i \in 1 .. i /\ \A j \in 1 .. i - 1 : j \in 1 .. i
    BY <1>0
  <2>3. \A j \in 1 .. i : ts[j] \in S
    BY <1>0 DEF ReadingsOf
  <2>4. (\E v \in S : v <= t /\ v \notin I) <=> \E j \in 1 .. i : ts[j] \notin I
    BY <1>5, <2>3
  <2>5. (\E j \in 1 .. i : ts[j] \notin I) <=> (t \notin I \/ \E j \in 1 .. i - 1 : ts[j] \notin I)
    BY <2>1, <2>2
  <2> QED
    BY <1>3, <2>4, <2>5 DEF Seen
<1>7. t \in U <=> Dwells(ts, inside, i) /\ (a.observed \/ t \notin I)
  BY <1>1, <1>6, DwellsIsHolds DEF Sure
<1>8. ~a.observed => ~a.state
  <2> SUFFICES ASSUME ~a.observed PROVE ~Was(U, I, seed, t)
    BY <1>2
  <2>1. seed = "none" /\ \A j \in 1 .. i - 1 : ts[j] \in I
    BY <1>3
  <2>2. ASSUME NEW u \in U, u < t PROVE FALSE
    <3>1. PICK v \in S : v <= u /\ v \notin I
      BY <2>1 DEF Sure, Seen
    <3>2. v \in Nat /\ u \in Nat
      BY <1>1, <2>2 DEF ReadingsOf
    <3>3. v <= t /\ v # t
      BY <1>1, <2>2, <3>1, <3>2
    <3>4. PICK j \in 1 .. i : ts[j] = v
      BY <1>5, <3>3
    <3>5. j \in 1 .. i - 1
      BY <1>0, <3>3, <3>4
    <3> QED
      BY <2>1, <3>1, <3>4, <3>5
  <2> QED
    BY <2>1, <2>2 DEF Was
<1>9. t \in T <=> t \in U /\ ~(inside[i] <=> a.state)
  BY <1>1, <1>2 DEF Turning
<1>10. i < Len(ts) => /\ t \in U => (Was(U, I, seed, ts[i + 1]) <=> t \in I)
                      /\ t \notin U => (Was(U, I, seed, ts[i + 1]) <=> Was(U, I, seed, t))
  <2> SUFFICES ASSUME i < Len(ts)
               PROVE  /\ t \in U => (Was(U, I, seed, ts[i + 1]) <=> t \in I)
                      /\ t \notin U => (Was(U, I, seed, ts[i + 1]) <=> Was(U, I, seed, t))
    OBVIOUS
  <2>1. i + 1 \in 1 .. Len(ts) /\ i < i + 1
    BY <1>0
  <2>2. t < ts[i + 1] /\ ts[i + 1] \in Nat
    BY <1>0, <2>1
  <2>3. \A v \in U : v < ts[i + 1] => v <= t
    <3> SUFFICES ASSUME NEW v \in U, v < ts[i + 1] PROVE v <= t
      OBVIOUS
    <3>1. PICK j \in 1 .. Len(ts) : ts[j] = v
      BY <1>1 DEF ReadingsOf
    <3>2. j \in 1 .. i \/ j = i + 1 \/ i + 1 < j
      BY <1>0
    <3>3. ~(i + 1 < j) /\ j # i + 1
      BY <1>0, <2>1, <2>2, <3>1
    <3> QED
      BY <1>1, <1>5, <3>1, <3>2, <3>3
  <2> HIDE DEF U, t
  <2> QED
    BY <1>1, <2>2, <2>3, WasNext
<1>11. (\E j \in 1 .. i : ts[j] \notin I) <=> (t \notin I \/ \E j \in 1 .. i - 1 : ts[j] \notin I)
  <2>1. \A j \in 1 .. i : j \in 1 .. i - 1 \/ j = i
    BY <1>0
  <2>2. i \in 1 .. i /\ \A j \in 1 .. i - 1 : j \in 1 .. i
    BY <1>0
  <2> QED
    BY <2>1, <2>2
<1>12. {ts[j] : j \in {k \in 1 .. i : ts[k] \in T}} = past \cup (IF t \in T THEN {t} ELSE {})
  <2>1. 1 .. i = (1 .. i - 1) \cup {i}
    BY <1>0
  <2> HIDE DEF T
  <2> QED
    BY <2>1
<1>13. SUFFICES /\ t \in U => (b.state <=> t \in I)
                /\ t \notin U => (b.state <=> a.state)
                /\ b.observed <=> (a.observed \/ t \notin I)
                /\ Stamps(b.out) = past \cup (IF t \in T THEN {t} ELSE {})
  <2>1. i < Len(ts) => (b.state <=> Was(U, I, seed, ts[i + 1]))
    <3> HIDE DEF U, t, b, T, past
    <3> QED
      BY <1>2, <1>10, <1>13
  <2>2. b.observed <=> (seed # "none" \/ \E j \in 1 .. i : ts[j] \notin I)
    <3> HIDE DEF U, t, b, T, past
    <3> QED
      BY <1>3, <1>11, <1>13
  <2> HIDE DEF past
  <2> QED
    BY <1>12, <1>13, <2>1, <2>2 DEF AccMeans
<1>14. DOMAIN a = {"state", "observed", "out"} /\ a.state \in BOOLEAN /\ a.out \in Seq(Nat \X Kinds)
  BY DEF AccOK
<1>15. CASE inside[i] = a.state
  <2> DEFINE c == [a EXCEPT !.observed = TRUE]
  <2>1. c.state = a.state /\ c.out = a.out /\ c.observed = TRUE
    BY <1>14
  <2>2. b = c
    BY <1>15 DEF ConfirmStep
  <2> HIDE DEF b, c, U, T, t, past
  <2>3. t \notin T
    BY <1>9, <1>15
  <2> QED
    BY <1>1, <1>4, <1>8, <1>15, <2>1, <2>2, <2>3
<1>16. CASE inside[i] # a.state /\ ~(a.observed /\ Dwells(ts, inside, i))
  <2>1. b = a
    BY <1>16 DEF ConfirmStep
  <2> HIDE DEF b, U, T, t, past
  <2>2. inside[i] \in BOOLEAN
    BY <1>0
  <2>3. t \notin U /\ (t \in I \/ a.observed)
    BY <1>1, <1>7, <1>8, <1>14, <1>16, <2>2
  <2>4. t \notin T
    BY <1>9, <2>3
  <2> QED
    BY <1>4, <2>1, <2>3, <2>4
<1>17. CASE inside[i] # a.state /\ a.observed /\ Dwells(ts, inside, i)
  <2> DEFINE e == <<t, IF inside[i] THEN "enter" ELSE "exit">>
             o == Append(a.out, e)
             c == [state |-> inside[i], observed |-> TRUE, out |-> o]
  <2>1. b = c
    BY <1>17 DEF ConfirmStep
  <2>2. c.state = inside[i] /\ c.observed = TRUE /\ c.out = o
    OBVIOUS
  <2>3. e[1] = t /\ e \in Nat \X Kinds
    BY <1>1 DEF Kinds
  <2>4. t \in U
    BY <1>7, <1>17
  <2>5. t \in T
    BY <1>0, <1>9, <1>14, <1>17, <2>4
  <2> HIDE DEF e
  <2>6. /\ Len(a.out) \in Nat /\ Len(o) = Len(a.out) + 1 /\ o[Len(a.out) + 1] = e
        /\ \A k \in 1 .. Len(a.out) : o[k] = a.out[k]
    BY <1>14, <2>3, AppendProperties
  <2> HIDE DEF o, c, b, U, T, t, past
  <2>7. Stamps(o) = Stamps(a.out) \cup {t}
    <3>1. 1 .. Len(o) = (1 .. Len(a.out)) \cup {Len(a.out) + 1}
      BY <2>6
    <3>2. \A x : x \in Stamps(o) <=> \E k \in (1 .. Len(a.out)) \cup {Len(a.out) + 1} : x = o[k][1]
      BY <3>1 DEF Stamps
    <3>3. \A x : x \in Stamps(a.out) <=> \E k \in 1 .. Len(a.out) : x = a.out[k][1]
      BY DEF Stamps
    <3>4. \A k \in 1 .. Len(a.out) : o[k][1] = a.out[k][1]
      BY <2>6
    <3>5. o[Len(a.out) + 1][1] = t
      BY <2>3, <2>6
    <3> DEFINE K == 1 .. Len(a.out)
               last == Len(a.out) + 1
    <3> HIDE DEF K, last
    <3>6. \A x : x \in Stamps(o) <=> (x = o[last][1] \/ \E k \in K : x = o[k][1])
      BY <3>2, Zenon DEF K, last
    <3>7. \A x : x \in Stamps(o) <=> (x = t \/ x \in Stamps(a.out))
      <4> TAKE x
      <4>1. (\E k \in K : x = o[k][1]) <=> (\E k \in K : x = a.out[k][1])
        BY <3>4 DEF K
      <4>2. x \in Stamps(a.out) <=> \E k \in K : x = a.out[k][1]
        BY <3>3, Zenon DEF K
      <4>3. o[last][1] = t
        BY <3>5 DEF last
      <4> QED
        BY <3>6, <4>1, <4>2, <4>3, Zenon
    <3> QED
      BY <3>7, Zenon
  <2> QED
    BY <1>1, <1>4, <1>17, <2>1, <2>2, <2>4, <2>5, <2>7
<1> QED
  BY <1>15, <1>16, <1>17

\* What confirmTransitions confirms is where the state turns, entering when the
\* fix is inside and leaving when it is not: the loop and the definition agree
\* for every set of fixes.
THEOREM RuleIsDeclarative ==
  ASSUME NEW ts, NEW inside, NEW S, NEW I, ReadingsOf(ts, inside, S, I), NEW seed \in Kinds \cup {"none"}
  PROVE  LET out == confirmTransitions(ts, inside, seed)
         IN /\ out \in Seq(Nat \X Kinds) /\ Turns(out, seed)
            /\ Stamps(out) = Turning(S, I, seed)
            /\ \A k \in 1 .. Len(out) : out[k][2] = IF out[k][1] \in I THEN "enter" ELSE "exit"
<1>0. Len(ts) \in Nat /\ Readings(ts, inside)
  BY DEF ReadingsOf, Readings
<1>1. PICK g : /\ Runs(ts, inside, seed, Len(ts), g)
               /\ confirmTransitions(ts, inside, seed) = g[Len(ts)].out
  BY <1>0, ConfirmIsARun
<1>2. \A i \in 0 .. Len(ts) :
        /\ g[i] = IF i = 0 THEN Start(seed) ELSE ConfirmStep(ts, inside, g[i - 1], i)
        /\ AccOK(ts, inside, seed, i, g[i])
  BY <1>0, <1>1, RunOK
<1> DEFINE bad == {i \in 0 .. Len(ts) : ~AccMeans(ts, S, I, seed, i, g[i])}
<1>3. bad = {}
  <2> SUFFICES ASSUME bad # {} PROVE FALSE
    OBVIOUS
  <2>1. PICK i \in bad : \A j \in bad : i <= j
    <3>1. bad \in SUBSET Nat
      BY <1>0
    <3> HIDE DEF bad
    <3> QED
      BY <3>1, LeastNatural
  <2>2. i \in 0 .. Len(ts) /\ ~AccMeans(ts, S, I, seed, i, g[i])
    OBVIOUS
  <2>3. CASE i = 0
    <3>1. g[i] = Start(seed)
      BY <1>2, <2>2, <2>3, Zenon
    <3> DEFINE a == Start(seed)
    <3>2. a.out = <<>> /\ (a.state <=> seed = "enter") /\ (a.observed <=> seed # "none")
      BY DEF Start
    <3> HIDE DEF a
    <3>3. Stamps(<<>>) = {} /\ 1 .. 0 = {}
      BY DEF Stamps
    <3>4. 0 < Len(ts) => (a.state <=> Was(Sure(S, I, seed), I, seed, ts[0 + 1]))
      <4> SUFFICES ASSUME 0 < Len(ts)
                   PROVE  seed = "enter" <=> Was(Sure(S, I, seed), I, seed, ts[1])
        BY <3>2
      <4>1. \A v \in Sure(S, I, seed) : ~(v < ts[1])
        <5> SUFFICES ASSUME NEW v \in S, v < ts[1] PROVE FALSE
          BY DEF Sure
        <5>1. PICK j \in 1 .. Len(ts) : ts[j] = v
          BY DEF ReadingsOf
        <5>2. 1 \in 1 .. Len(ts) /\ (j = 1 \/ 1 < j) /\ ts[1] \in Nat /\ v \in Nat
          BY <1>0 DEF ReadingsOf, Readings
        <5> QED
          BY <5>1, <5>2 DEF ReadingsOf, Readings
      <4> QED
        BY <4>1 DEF Was
    <3>5. AccMeans(ts, S, I, seed, 0, a)
      BY <3>2, <3>3, <3>4 DEF AccMeans
    <3> QED
      BY <2>2, <2>3, <3>1, <3>5 DEF a
  <2>4. CASE i # 0
    <3>1. i \in 1 .. Len(ts) /\ i - 1 \in 0 .. Len(ts) /\ i - 1 < i
      BY <1>0, <2>2, <2>4
    <3>2. i - 1 \notin bad
      BY <1>0, <2>1, <2>2, <3>1
    <3>3. AccMeans(ts, S, I, seed, i - 1, g[i - 1]) /\ AccOK(ts, inside, seed, i - 1, g[i - 1])
      BY <1>2, <3>1, <3>2
    <3>4. g[i] = ConfirmStep(ts, inside, g[i - 1], i)
      BY <1>2, <2>2, <2>4, Zenon
    <3> QED
      BY <2>2, <3>1, <3>3, <3>4, MeansStep
  <2> QED
    BY <2>3, <2>4
<1> DEFINE out == g[Len(ts)].out
<1>4. AccMeans(ts, S, I, seed, Len(ts), g[Len(ts)]) /\ AccOK(ts, inside, seed, Len(ts), g[Len(ts)])
  BY <1>0, <1>2, <1>3
<1>5. out \in Seq(Nat \X Kinds) /\ Turns(out, seed) /\ Dwelt(ts, inside, Len(ts), out)
  BY <1>4 DEF AccOK
<1>6. Stamps(out) = Turning(S, I, seed)
  <2>1. Stamps(out) = {ts[j] : j \in {k \in 1 .. Len(ts) : ts[k] \in Turning(S, I, seed)}}
    BY <1>4 DEF AccMeans
  <2>2. \A t \in Turning(S, I, seed) : t \in S
    BY DEF Turning, Sure
  <2>3. \A t \in Turning(S, I, seed) : \E j \in 1 .. Len(ts) : ts[j] = t
    BY <2>2 DEF ReadingsOf
  <2> QED
    BY <2>1, <2>3
<1>7. ASSUME NEW k \in 1 .. Len(out) PROVE out[k][2] = IF out[k][1] \in I THEN "enter" ELSE "exit"
  <2>1. PICK j \in 1 .. Len(ts) : out[k] = <<ts[j], Kind(inside, j)>>
    BY <1>5 DEF Dwelt
  <2>2. out[k][1] = ts[j] /\ out[k][2] = Kind(inside, j) /\ (inside[j] <=> ts[j] \in I)
    BY <2>1 DEF ReadingsOf
  <2> QED
    BY <2>2 DEF Kind
<1> QED
  BY <1>1, <1>5, <1>6, <1>7
-----------------------------------------------------------------------------
(* Evaluating a part of the fixes.                                         *)

\* Where an evaluation resumes: at a turning point e, from its state, or before
\* every fix.
ResumeAt(F, I, e, seed) ==
  \/ e = Zero /\ seed = "none"
  \/ e \in Turning(F, I, "none") /\ seed = IF e \in I THEN "enter" ELSE "exit"

\* A fix whose state counts and is not that of e comes at or after a turning point.
LEMMA TurnBetween ==
  ASSUME NEW F \in SUBSET Nat, NEW I, NEW e, NEW seed, ResumeAt(F, I, e, seed),
         NEW u \in Sure(F, I, "none"), u > e, ~(u \in I <=> seed = "enter")
  PROVE  \E t \in Turning(F, I, "none") : e < t /\ t <= u
<1> DEFINE U == Sure(F, I, "none")
           A == {x \in U : x > e /\ ~(x \in I <=> seed = "enter")}
<1>0. U \in SUBSET Nat /\ Turning(F, I, "none") \subseteq U /\ u \in U
  BY DEF Sure, Turning
<1>5. \/ e \in U /\ (seed = "enter" <=> e \in I)
      \/ e = Zero /\ seed = "none"
  BY <1>0 DEF ResumeAt
<1>6. e \in Int /\ u \in Nat
  <2>1. Zero \in Int
    BY DEF Zero
  <2> HIDE DEF U
  <2>2. \A x \in U : x \in Nat
    BY <1>0
  <2>3. u \in Nat /\ (e \in U => e \in Nat)
    BY <1>0, <2>2
  <2> QED
    BY <1>5, <2>1, <2>3
<1> HIDE DEF U
<1>1. PICK x \in A : \A y \in A : x <= y
  <2>1. A \in SUBSET Nat /\ u \in A
    BY <1>0
  <2> HIDE DEF A
  <2> QED
    BY <2>1, LeastNatural
<1>2. x \in U /\ x \in Nat /\ x > e /\ ~(x \in I <=> seed = "enter") /\ x <= u
  <2>1. u \in A
    BY <1>0
  <2> QED
    BY <1>0, <1>1, <2>1
<1>3. Was(U, I, "none", x) <=> seed = "enter"
  <2>1. CASE \E w \in U : w < x
    <3>1. PICK v \in U : v < x /\ \A w \in U : w < x => w <= v
      <4> HIDE DEF U
      <4> QED
        BY <1>0, <1>2, <2>1, LastBefore
    <3>2. v \in Nat /\ v \notin A
      BY <1>0, <1>1, <1>2, <3>1
    <3>3. v \in I <=> seed = "enter"
      <4>1. CASE v > e
        BY <3>1, <3>2, <4>1
      <4>2. CASE ~(v > e)
        <5>1. e # Zero
          BY <3>2, <4>2 DEF Zero
        <5>2. e \in U /\ (seed = "enter" <=> e \in I) /\ e <= v
          BY <1>2, <1>5, <3>1, <5>1
        <5>3. e = v
          BY <1>6, <3>2, <4>2, <5>2
        <5> QED
          BY <5>2, <5>3
      <4> QED
        BY <4>1, <4>2
    <3>4. Was(U, I, "none", x) <=> v \in I
      <4>1. \A w \in U : w < x /\ (\A z \in U : z < x => z <= w) => w = v
        BY <1>0, <3>1, <3>2
      <4> HIDE DEF U
      <4> QED
        BY <3>1, <4>1 DEF Was
    <3> QED
      BY <3>3, <3>4
  <2>2. CASE ~ \E w \in U : w < x
    <3>1. seed = "none"
      BY <1>2, <1>5, <2>2
    <3> HIDE DEF U
    <3> QED
      BY <2>2, <3>1 DEF Was
  <2> QED
    BY <2>1, <2>2
<1>4. x \in Turning(F, I, "none")
  BY <1>2, <1>3 DEF Turning, U
<1> QED
  BY <1>2, <1>4

\* A window: fixes after e, none left out after one of them, and reaching back
\* either to e or before every turning point after e.
WindowOver(W, F, I, e) ==
  /\ W \subseteq {t \in F : t > e}
  /\ \A w \in W, t \in F : w <= t => t \in W
  /\ \/ W = {t \in F : t > e}
     \/ \A t \in Turning(F, I, "none") : t > e => \E w \in W : w < t

\* In the window the same states count.
LEMMA WindowSure ==
  ASSUME NEW F \in SUBSET Nat, NEW I, NEW e, NEW seed, ResumeAt(F, I, e, seed),
         NEW W, WindowOver(W, F, I, e)
  PROVE  Sure(W, I, seed) = Sure(F, I, "none") \cap W
<1> DEFINE U == Sure(F, I, "none")
           T == Turning(F, I, "none")
<1>0. W \subseteq F /\ (\A t \in W : t \in Nat /\ t > e) /\ Debounce \in Nat
  BY GeofenceAssumption DEF WindowOver
<1>1. \A w \in W, t \in F : w <= t => t \in W
  BY DEF WindowOver
<1>2. ASSUME NEW t \in W PROVE Holds(W, I, t) <=> Holds(F, I, t)
  <2>1. \A u \in F : u >= t + Debounce => u \in W
    <3> TAKE u \in F
    <3>1. u \in Nat /\ t \in Nat
      BY <1>0
    <3> QED
      BY <1>0, <1>1, <3>1
  <2>2. \A u : (\A v \in W : t <= v /\ v <= u => (v \in I <=> t \in I)) <=>
               (\A v \in F : t <= v /\ v <= u => (v \in I <=> t \in I))
    BY <1>0, <1>1
  <2> QED
    BY <1>0, <2>1, <2>2 DEF Holds
<1>3. ASSUME NEW t \in W, Seen(W, I, seed, t) PROVE Seen(F, I, "none", t)
  <2>1. CASE seed = "none"
    BY <1>0, <1>3, <2>1 DEF Seen
  <2>2. CASE seed # "none"
    <3>1. e \in F /\ Seen(F, I, "none", e)
      BY <2>2 DEF ResumeAt, Turning, Sure
    <3>2. PICK v \in F : v <= e /\ v \notin I
      BY <3>1 DEF Seen
    <3>3. v <= t
      <4>1. v \in Nat /\ e \in Nat /\ t \in Nat /\ e < t
        BY <1>0, <3>1
      <4> QED
        BY <3>2, <4>1
    <3> QED
      BY <3>2, <3>3 DEF Seen
  <2> QED
    BY <2>1, <2>2
<1>4. ASSUME NEW t \in U, t \in W PROVE Seen(W, I, seed, t)
  <2>1. CASE seed # "none" \/ t \notin I
    <3>1. t \in Nat /\ t <= t
      BY <1>0, <1>4
    <3> QED
      BY <1>4, <2>1, <3>1 DEF Seen
  <2>2. CASE seed = "none" /\ t \in I
    <3>1. e = Zero
      BY <2>2 DEF ResumeAt
    <3>2. CASE W = {x \in F : x > e}
      <4>1. \A x \in F : x > Zero
        BY DEF Zero
      <4>2. W = F
        BY <3>1, <3>2, <4>1
      <4> QED
        BY <2>2, <4>2 DEF Sure
    <3>3. CASE \A x \in T : x > e => \E w \in W : w < x
      <4> DEFINE B == {x \in T : x > e}
      <4>1. B \in SUBSET Nat /\ T \subseteq U /\ U \subseteq F
        BY DEF Turning, Sure
      <4>2. \E x \in T : e < x /\ x <= t
        <5>1. t > e /\ ~(t \in I <=> seed = "enter") /\ t \in U
          BY <1>0, <1>4, <2>2
        <5> QED
          BY <5>1, TurnBetween
      <4>3. PICK x \in B : \A y \in B : x <= y
        <5>1. B # {}
          BY <4>2
        <5> HIDE DEF B
        <5> QED
          BY <4>1, <5>1, LeastNatural
      <4>4. x \in T /\ x > e /\ x \in U /\ x \in F /\ x \in Nat /\ x <= t
        <5>1. PICK y \in T : e < y /\ y <= t
          BY <4>2
        <5>2. y \in B /\ y \in Nat /\ t \in Nat
          BY <1>0, <1>4, <4>1, <5>1
        <5>3. x <= y
          BY <4>3, <5>2
        <5> QED
          BY <4>1, <4>3, <5>1, <5>2, <5>3
      <4>5. PICK w \in W : w < x
        BY <3>3, <4>4
      <4>6. w \in F /\ w \in Nat
        BY <1>0
      <4>7. \A y \in U : y < x => y \notin I
        <5> SUFFICES ASSUME NEW y \in U, y < x, y \in I PROVE FALSE
          OBVIOUS
        <5>1. y \in Nat /\ y > e
          <6>1. y \in Nat
            BY <4>1
          <6>2. y > Zero
            BY <6>1 DEF Zero
          <6> QED
            BY <3>1, <6>1, <6>2
        <5>2. PICK z \in T : e < z /\ z <= y
          BY <2>2, <5>1, TurnBetween
        <5>3. z \in B /\ z \in Nat
          BY <4>1, <5>2
        <5>4. x <= z
          BY <4>3, <5>3
        <5> QED
          BY <4>4, <5>1, <5>2, <5>3, <5>4
      <4>8. x \in I
        <5>1. Was(U, I, "none", x) => \E y \in U : y < x /\ y \in I
          BY DEF Was
        <5>2. ~ Was(U, I, "none", x)
          BY <4>7, <5>1
        <5> QED
          BY <4>4, <5>2 DEF Turning
      <4>9. \E v \in F : w <= v /\ v <= x /\ v \notin I
        <5> SUFFICES ASSUME \A v \in F : w <= v /\ v <= x => v \in I PROVE FALSE
          OBVIOUS
        <5>1. PICK u \in F : u >= x + Debounce /\ \A v \in F : x <= v /\ v <= u => (v \in I <=> x \in I)
          BY <4>4 DEF Sure, Holds
        <5>2. u >= w + Debounce /\ w \in I
          <6>1. u \in Nat /\ w <= x /\ w <= w
            BY <4>4, <4>5, <4>6
          <6> QED
            BY <1>0, <4>4, <4>5, <4>6, <5>1, <6>1
        <5>3. \A v \in F : w <= v /\ v <= u => (v \in I <=> w \in I)
          <6> SUFFICES ASSUME NEW v \in F, w <= v, v <= u PROVE v \in I
            BY <5>2
          <6>1. v \in Nat /\ (v <= x \/ x <= v)
            BY <4>4
          <6> QED
            BY <4>8, <5>1, <6>1
        <5>4. Holds(F, I, w)
          BY <5>1, <5>2, <5>3 DEF Holds
        <5>5. PICK v \in F : v <= x /\ v \notin I
          BY <4>4 DEF Sure, Seen
        <5>6. v <= w
          <6>1. v \in Nat
            OBVIOUS
          <6> QED
            BY <4>6, <5>5, <6>1
        <5>7. w \in U
          BY <4>6, <5>4, <5>5, <5>6 DEF Sure, Seen
        <5> QED
          BY <4>5, <4>7, <5>2, <5>7
      <4>10. PICK v \in F : w <= v /\ v <= x /\ v \notin I
        BY <4>9
      <4>11. v \in W /\ v <= t
        <5>1. v \in Nat /\ t \in Nat
          BY <1>0, <1>4
        <5> QED
          BY <1>1, <4>4, <4>10, <5>1
      <4> QED
        BY <4>10, <4>11 DEF Seen
    <3> QED
      BY <3>2, <3>3 DEF WindowOver
  <2> QED
    BY <2>1, <2>2
<1> QED
  BY <1>0, <1>2, <1>3, <1>4 DEF Sure

\* What an evaluation of the window confirms is what turns after e.
LEMMA WindowTurning ==
  ASSUME NEW F \in SUBSET Nat, NEW I, NEW e, NEW seed, ResumeAt(F, I, e, seed),
         NEW W, WindowOver(W, F, I, e)
  PROVE  Turning(W, I, seed) = {t \in Turning(F, I, "none") : t > e}
<1> DEFINE U == Sure(F, I, "none")
           V == Sure(W, I, seed)
           T == Turning(F, I, "none")
<1>0. U \in SUBSET Nat /\ T \subseteq U /\ U \subseteq F
  BY DEF Sure, Turning
<1>1. V = U \cap W
  BY WindowSure
<1>2. /\ W \subseteq F /\ \A t \in W : t > e
      /\ \A w \in W, t \in F : w <= t => t \in W
      /\ W = {t \in F : t > e} \/ \A t \in T : t > e => \E w \in W : w < t
  BY DEF WindowOver
<1>3. \/ e = Zero /\ seed = "none"
      \/ e \in U /\ (seed = "enter" <=> e \in I)
  BY <1>0 DEF ResumeAt
<1>9. \A u \in U : u > e /\ ~(u \in I <=> seed = "enter") => \E t \in T : e < t /\ t <= u
  BY TurnBetween
<1>10. \A x \in U : x \in Nat
  BY <1>0
<1>4. e \in Int
  <2>1. Zero \in Int
    BY DEF Zero
  <2> HIDE DEF U
  <2>2. e \in U => e \in Nat
    BY <1>10
  <2> QED
    BY <1>3, <2>1, <2>2
<1>11. \A t \in T : t \in Turning(F, I, "none") /\ (t \in U /\ ~(t \in I <=> Was(U, I, "none", t)))
  BY DEF Turning
<1>12. \A t \in U : ~(t \in I <=> Was(U, I, "none", t)) => t \in T
  BY DEF Turning
<1>13. \A t : t \in Turning(W, I, seed) <=> t \in V /\ ~(t \in I <=> Was(V, I, seed, t))
  BY DEF Turning
<1> HIDE DEF U, V, T
<1>5. ASSUME NEW t \in U \cap W PROVE Was(V, I, seed, t) <=> Was(U, I, "none", t)
  <2>0. t \in Nat /\ t \in U /\ t \in W /\ t > e
    BY <1>2, <1>10
  <2>1. CASE \E v \in V : v < t
    <3>1. PICK v \in V : v < t /\ \A w \in V : w < t => w <= v
      <4>1. V \in SUBSET Nat
        BY <1>0, <1>1
      <4> QED
        BY <2>0, <2>1, <4>1, LastBefore
    <3>2. v \in U /\ v \in W /\ v \in Nat
      BY <1>1, <1>10
    <3>3. \A w \in U : w < t => w <= v
      <4> SUFFICES ASSUME NEW w \in U, w < t, ~(w <= v) PROVE FALSE
        OBVIOUS
      <4>1. w \in Nat /\ v <= w /\ w \in F
        BY <1>0, <1>10, <3>2
      <4>2. w \in V
        BY <1>1, <1>2, <3>2, <4>1
      <4> QED
        BY <3>1, <4>2
    <3>4. \A w \in V : w < t /\ (\A z \in V : z < t => z <= w) => w = v
      BY <1>1, <1>10, <3>1, <3>2
    <3>5. \A w \in U : w < t /\ (\A z \in U : z < t => z <= w) => w = v
      BY <1>10, <3>1, <3>2, <3>3
    <3>6. Was(V, I, seed, t) <=> v \in I
      BY <3>1, <3>4 DEF Was
    <3>7. Was(U, I, "none", t) <=> v \in I
      BY <3>1, <3>2, <3>3, <3>5 DEF Was
    <3> QED
      BY <3>6, <3>7
  <2>2. CASE ~ \E v \in V : v < t
    <3>1. Was(V, I, seed, t) <=> seed = "enter"
      BY <2>2 DEF Was
    <3>2. CASE \E v \in U : v < t
      <4>1. PICK v \in U : v < t /\ \A w \in U : w < t => w <= v
        BY <1>0, <2>0, <3>2, LastBefore
      <4>2. v \in Nat /\ v \in F /\ v \notin W
        BY <1>0, <1>1, <1>10, <2>2, <4>1
      <4>3. v \in I <=> seed = "enter"
        <5>1. CASE v > e
          <6> SUFFICES ASSUME ~(v \in I <=> seed = "enter") PROVE FALSE
            OBVIOUS
          <6>1. PICK x \in T : e < x /\ x <= v
            BY <1>9, <5>1
          <6>2. W # {y \in F : y > e}
            BY <4>2, <5>1
          <6>3. PICK w \in W : w < x
            BY <1>2, <6>1, <6>2
          <6>4. w \in F /\ x \in Nat
            BY <1>0, <1>2, <1>10
          <6>5. w \in Nat
            BY <6>4
          <6>6. w <= v
            BY <4>2, <6>1, <6>3, <6>4, <6>5
          <6> QED
            BY <1>2, <4>2, <6>6
        <5>2. CASE ~(v > e)
          <6>1. e # Zero
            BY <4>2, <5>2 DEF Zero
          <6>2. e \in U /\ e <= v /\ (seed = "enter" <=> e \in I)
            BY <1>3, <2>0, <4>1, <6>1
          <6>3. e = v
            BY <1>4, <4>2, <5>2, <6>2
          <6> QED
            BY <6>2, <6>3
        <5> QED
          BY <5>1, <5>2
      <4>4. \A w \in U : w < t /\ (\A z \in U : z < t => z <= w) => w = v
        BY <1>10, <4>1, <4>2
      <4>5. Was(U, I, "none", t) <=> v \in I
        BY <4>1, <4>4 DEF Was
      <4> QED
        BY <3>1, <4>3, <4>5
    <3>3. CASE ~ \E v \in U : v < t
      <4>1. seed = "none"
        BY <1>3, <2>0, <3>3
      <4>2. ~ Was(U, I, "none", t)
        BY <3>3 DEF Was
      <4> QED
        BY <3>1, <4>1, <4>2
    <3> QED
      BY <3>2, <3>3
  <2> QED
    BY <2>1, <2>2
<1>6. ASSUME NEW t \in T, t > e PROVE t \in W
  <2>1. t \in F /\ t \in Nat
    BY <1>0, <1>10
  <2>2. CASE W = {x \in F : x > e}
    BY <1>6, <2>1, <2>2
  <2>3. CASE \A x \in T : x > e => \E w \in W : w < x
    <3>1. PICK w \in W : w < t
      BY <1>6, <2>3
    <3>2. w \in F
      BY <1>2
    <3>3. w \in Nat
      BY <3>2
    <3>4. w <= t
      BY <2>1, <3>1, <3>3
    <3> QED
      BY <1>2, <2>1, <3>4
  <2> QED
    BY <1>2, <2>2, <2>3
<1>7. ASSUME NEW t \in Turning(W, I, seed) PROVE t \in T /\ t > e
  <2>1. t \in U \cap W /\ ~(t \in I <=> Was(V, I, seed, t))
    BY <1>1, <1>13
  <2> QED
    BY <1>2, <1>5, <1>12, <2>1
<1>8. ASSUME NEW t \in T, t > e PROVE t \in Turning(W, I, seed)
  <2>1. t \in U \cap W
    BY <1>0, <1>6, <1>8
  <2> QED
    BY <1>1, <1>5, <1>11, <1>13, <2>1
<1> QED
  BY <1>7, <1>8 DEF T

\* The rule depends on the readings of its fixes only.
LEMMA SameReadings ==
  ASSUME NEW S, NEW I, NEW J, NEW seed, \A t \in S : t \in I <=> t \in J
  PROVE  Turning(S, I, seed) = Turning(S, J, seed)
<1>1. \A t \in S : Holds(S, I, t) <=> Holds(S, J, t)
  BY DEF Holds
<1>2. \A t \in S : Seen(S, I, seed, t) <=> Seen(S, J, seed, t)
  BY DEF Seen
<1>3. Sure(S, I, seed) = Sure(S, J, seed)
  BY <1>1, <1>2 DEF Sure
<1>4. \A u \in Sure(S, I, seed) : u \in I <=> u \in J
  BY DEF Sure
<1>5. \A t : Was(Sure(S, I, seed), I, seed, t) <=> Was(Sure(S, J, seed), J, seed, t)
  BY <1>3, <1>4 DEF Was
<1> QED
  BY <1>3, <1>4, <1>5 DEF Turning

\* G is the fixes of F up to some moment.
PrefixOf(G, F) == G \subseteq F /\ \A g \in G, f \in F \ G : g < f

\* What counted before counts still, and what counts since is later.
LEMMA PrefixSure ==
  ASSUME NEW F \in SUBSET Nat, NEW I, NEW G, PrefixOf(G, F)
  PROVE  /\ Sure(G, I, "none") \subseteq Sure(F, I, "none")
         /\ \A x \in Sure(F, I, "none") \ Sure(G, I, "none") : \A y \in Sure(G, I, "none") : y < x
<1>0. /\ G \subseteq F /\ (\A g \in G, f \in F \ G : g < f)
      /\ \A f \in F : f \in Nat
  BY DEF PrefixOf
<1>1. \A g \in G, f \in F : f <= g => f \in G
  <2> SUFFICES ASSUME NEW g \in G, NEW f \in F, f <= g, f \notin G PROVE FALSE
    OBVIOUS
  <2>1. g < f /\ g \in Nat /\ f \in Nat
    BY <1>0
  <2> QED
    BY <2>1
<1>2. \A t \in G : Seen(G, I, "none", t) <=> Seen(F, I, "none", t)
  BY <1>0, <1>1 DEF Seen
<1>3. \A t \in G : Holds(G, I, t) => Holds(F, I, t)
  BY <1>0, <1>1 DEF Holds
<1>4. ASSUME NEW x \in Sure(F, I, "none"), x \notin Sure(G, I, "none"), NEW y \in Sure(G, I, "none"), ~(y < x)
      PROVE  FALSE
  <2>1. /\ x \in F /\ y \in G /\ x \in Nat /\ y \in Nat
        /\ Holds(F, I, x) /\ Seen(F, I, "none", x) /\ Holds(G, I, y)
    BY <1>0 DEF Sure
  <2>2. x <= y /\ x \in G
    BY <1>1, <1>4, <2>1
  <2>3. ~ Holds(G, I, x)
    BY <1>2, <1>4, <2>1, <2>2 DEF Sure
  <2>4. PICK u \in F : u >= x + Debounce /\ \A v \in F : x <= v /\ v <= u => (v \in I <=> x \in I)
    BY <2>1 DEF Holds
  <2>5. u \notin G
    BY <1>0, <2>3, <2>4 DEF Holds
  <2>6. PICK w \in G : w >= y + Debounce
    BY <2>1 DEF Holds
  <2>7. w \in Nat /\ u \in Nat /\ w < u /\ Debounce \in Nat
    BY <1>0, <2>5, GeofenceAssumption
  <2>8. w >= x + Debounce
    BY <2>1, <2>2, <2>6, <2>7
  <2>9. \A v \in G : x <= v /\ v <= w => (v \in I <=> x \in I)
    <3> SUFFICES ASSUME NEW v \in G, x <= v, v <= w PROVE v \in I <=> x \in I
      OBVIOUS
    <3>1. v \in F /\ v \in Nat
      BY <1>0
    <3>2. v <= u
      BY <2>7, <3>1
    <3> QED
      BY <2>4, <3>1, <3>2
  <2> QED
    BY <2>3, <2>8, <2>9 DEF Holds
<1>5. Sure(G, I, "none") \subseteq Sure(F, I, "none")
  BY <1>0, <1>2, <1>3 DEF Sure
<1> QED
  BY <1>4, <1>5

\* What turned before turns still, and what turns since is later.
LEMMA PrefixTurning ==
  ASSUME NEW F \in SUBSET Nat, NEW I, NEW G, PrefixOf(G, F)
  PROVE  /\ Turning(G, I, "none") = Turning(F, I, "none") \cap Sure(G, I, "none")
         /\ \A x \in Turning(F, I, "none") \ Turning(G, I, "none") :
              \A y \in Turning(G, I, "none") : y < x
<1> DEFINE U == Sure(F, I, "none")
           V == Sure(G, I, "none")
<1>0. (\A x \in U : x \in Nat) /\ V \subseteq U /\ \A x \in U \ V : \A y \in V : y < x
  <2>1. \A x \in U : x \in Nat
    BY DEF Sure
  <2> QED
    BY <2>1, PrefixSure
<1>1. \A t : t \in Turning(F, I, "none") <=> t \in U /\ ~(t \in I <=> Was(U, I, "none", t))
  BY DEF Turning
<1>2. \A t : t \in Turning(G, I, "none") <=> t \in V /\ ~(t \in I <=> Was(V, I, "none", t))
  BY DEF Turning
<1> HIDE DEF U, V
<1>3. ASSUME NEW t \in V PROVE Was(U, I, "none", t) <=> Was(V, I, "none", t)
  <2>1. \A u \in U : u < t => u \in V
    <3> SUFFICES ASSUME NEW u \in U, u < t, u \notin V PROVE FALSE
      OBVIOUS
    <3>1. t < u /\ t \in Nat /\ u \in Nat
      BY <1>0
    <3> QED
      BY <3>1
  <2> QED
    BY <1>0, <2>1 DEF Was
<1>4. Turning(G, I, "none") = Turning(F, I, "none") \cap V
  BY <1>0, <1>1, <1>2, <1>3
<1> QED
  BY <1>0, <1>1, <1>2, <1>4 DEF V

\* A turning point is one as soon as its dwell is behind it.
LEMMA TurningIsFinal ==
  ASSUME NEW F \in SUBSET Nat, NEW I, NEW s \in F, NEW t \in Turning(F, I, "none"), t + Debounce <= s
  PROVE  t \in Turning({v \in F : v <= s}, I, "none")
<1> DEFINE G == {v \in F : v <= s}
<1>0. Debounce \in Nat /\ s \in Nat /\ t \in F /\ t \in Nat /\ Holds(F, I, t) /\ Seen(F, I, "none", t)
  <2>1. t \in F /\ Holds(F, I, t) /\ Seen(F, I, "none", t)
    BY DEF Turning, Sure
  <2> QED
    BY <2>1, GeofenceAssumption
<1>1. t \in G /\ s \in G
  BY <1>0
<1>2. PrefixOf(G, F)
  <2>1. \A f \in F : f \in Nat
    OBVIOUS
  <2>2. \A g \in G, f \in F \ G : g < f
    BY <1>0, <2>1
  <2> QED
    BY <2>2 DEF PrefixOf
<1>3. Holds(G, I, t)
  <2>1. PICK u \in F : u >= t + Debounce /\ \A v \in F : t <= v /\ v <= u => (v \in I <=> t \in I)
    BY <1>0 DEF Holds
  <2>2. u \in Nat
    OBVIOUS
  <2>3. CASE u <= s
    <3>1. u \in G
      BY <2>3
    <3> QED
      BY <2>1, <3>1 DEF Holds
  <2>4. CASE ~(u <= s)
    <3>1. \A v \in F : v <= s => v <= u
      <4> SUFFICES ASSUME NEW v \in F, v <= s PROVE v <= u
        OBVIOUS
      <4>1. v \in Nat
        OBVIOUS
      <4> QED
        BY <1>0, <2>2, <2>4, <4>1
    <3>2. s >= t + Debounce
      BY <1>0
    <3>3. \A v \in G : t <= v /\ v <= s => (v \in I <=> t \in I)
      BY <2>1, <3>1
    <3> HIDE DEF G
    <3> QED
      BY <1>1, <3>2, <3>3 DEF Holds
  <2> QED
    BY <2>3, <2>4
<1>4. Seen(G, I, "none", t)
  <2>1. PICK v \in F : v <= t /\ v \notin I
    BY <1>0 DEF Seen
  <2>2. v \in Nat
    OBVIOUS
  <2>3. v \in G
    BY <1>0, <2>1, <2>2
  <2> QED
    BY <2>1, <2>3 DEF Seen
<1>5. t \in Sure(G, I, "none")
  BY <1>1, <1>3, <1>4 DEF Sure
<1> HIDE DEF G
<1>6. t \in Turning(G, I, "none")
  BY <1>2, <1>5, PrefixTurning
<1> QED
  BY <1>6 DEF G

\* An interval that has more fixes than a dwell is as long as one.
LEMMA LongEnough ==
  ASSUME NEW Q, IsFiniteSet(Q), NEW A, IsFiniteSet(A), NEW n \in Nat, Cardinality(A) <= n,
         NEW t \in Nat, NEW b \in Int, NEW d \in Nat, Q \subseteq A \cup (t .. b),
         n + d + 1 <= Cardinality(Q)
  PROVE  t + d <= b
<1> DEFINE B == t .. b
<1>1. IsFiniteSet(B) /\ Cardinality(B) = IF t > b THEN 0 ELSE b - t + 1
  BY FS_Interval
<1> HIDE DEF B
<1>2. IsFiniteSet(A \cup B) /\ Cardinality(A \cup B) = Cardinality(A) + Cardinality(B) - Cardinality(A \cap B)
  BY <1>1, FS_Union
<1>3. IsFiniteSet(A \cap B)
  <2>1. A \cap B \in SUBSET A
    OBVIOUS
  <2> QED
    BY <2>1, FS_Subset
<1>4. /\ Cardinality(A) \in Nat /\ Cardinality(B) \in Nat
      /\ Cardinality(A \cap B) \in Nat /\ Cardinality(Q) \in Nat
  BY <1>1, <1>3, FS_CardinalityType
<1>5. Cardinality(Q) <= Cardinality(A \cup B)
  <2>1. Q \in SUBSET (A \cup B)
    BY DEF B
  <2> QED
    BY <1>2, <2>1, FS_Subset
<1> QED
  BY <1>1, <1>2, <1>4, <1>5

\* The neighbourhood of the newest fix reaches back far enough, when the fixes
\* since the one that everything is recorded up to are few.
LEMMA WindowReaches ==
  ASSUME GeoTypes, NEW I, NEW e \in Times \cup {Zero}, NEW b \in DOMAIN fixes \cup {Zero},
         NEW n \in Nat, Cardinality({t \in DOMAIN fixes : t > b}) <= n,
         n + Debounce + 1 <= Neighbours,
         \A t \in Turning({v \in DOMAIN fixes : v <= b}, I, "none") : t <= e
  PROVE  WindowOver(Window(Latest(fixes), e), DOMAIN fixes, I, e)
<1> DEFINE F == DOMAIN fixes
           new == Latest(fixes)
           W == Window(new, e)
           above == {t \in F : t > e}
           later(t) == {u \in above : u > t}
           T == Turning(F, I, "none")
<1>0. F \in SUBSET Nat /\ F \subseteq Times /\ IsFiniteSet(F)
  BY FS_Subset, GeofenceAssumption DEF GeoTypes
<1>1. Debounce \in Nat /\ Neighbours \in Nat /\ Neighbours > 0 /\ Zero \in Int /\ e \in Int
  BY GeofenceAssumption DEF Zero
<1>2. new \in Times \cup {Zero} /\ (F # {} => new \in F) /\ \A u \in F : u <= new
  BY <1>0, LatestOf
<1>3. W = {t \in above : Cardinality(later(t)) < Neighbours}
  <2>1. {t \in above : t <= new} = above /\ above \ above = {}
    BY <1>2
  <2> QED
    BY <2>1 DEF Window
<1>4. /\ W \subseteq F /\ \A t \in W : t > e
      /\ \A t, u \in W : \A v \in F : t <= v /\ v <= u => v \in W
  BY <1>2, WindowIs
<1> HIDE DEF W
<1>5. ASSUME NEW w \in W, NEW t \in F, w <= t PROVE t \in W
  <2>1. new \in F /\ w <= new /\ t <= new /\ w \in F
    BY <1>2, <1>4
  <2>2. new \in Nat /\ w \in Nat
    BY <1>0, <2>1
  <2>3. new > e
    BY <1>1, <1>4, <2>1, <2>2
  <2>4. later(new) = {}
    <3>1. \A u \in F : ~(u > new)
      <4> TAKE u \in F
      <4>1. u \in Nat /\ u <= new
        BY <1>0, <1>2
      <4> QED
        BY <2>2, <4>1
    <3> QED
      BY <3>1
  <2>5. Cardinality(later(new)) = 0
    BY <2>4, FS_EmptySet
  <2>6. new \in W
    BY <1>1, <1>3, <2>1, <2>3, <2>5
  <2> QED
    BY <1>4, <1>5, <2>1, <2>6
<1>6. ASSUME NEW x \in above, x \notin W, NEW t \in T, t > e, \A w \in W : ~(w < t) PROVE FALSE
  <2>1. t \in F /\ t \in Nat /\ t \in above /\ x \in F /\ x \in Nat
    <3>1. t \in F
      BY DEF Turning, Sure
    <3> QED
      BY <1>0, <1>6, <3>1
  <2> DEFINE Q == {u \in F : u >= t}
             A == {u \in F : u > b}
  <2>2. \E y \in above : y \notin W /\ later(y) \subseteq Q
    <3>1. CASE t \notin W
      <4>1. \A u \in F : u > t => u >= t
        BY <1>0, <2>1
      <4>2. later(t) \subseteq Q
        BY <4>1
      <4> QED
        BY <2>1, <3>1, <4>2
    <3>2. CASE t \in W
      <4>1. x < t
        <5>1. ~(t <= x)
          BY <1>5, <1>6, <2>1, <3>2
        <5> QED
          BY <2>1, <5>1
      <4>2. PICK y \in above : y < t /\ \A v \in above : v < t => v <= y
        <5>1. above \in SUBSET Nat
          BY <1>0
        <5> HIDE DEF above
        <5> QED
          BY <1>6, <2>1, <4>1, <5>1, LastBefore
      <4>3. \A u \in above : u > y => u >= t
        <5> SUFFICES ASSUME NEW u \in above, u > y PROVE u >= t
          OBVIOUS
        <5>1. u \in Nat /\ y \in Nat
          BY <1>0
        <5> QED
          BY <2>1, <4>2, <5>1
      <4>4. later(y) \subseteq Q
        BY <4>3
      <4>5. y \notin W
        BY <1>6, <4>2
      <4> QED
        BY <4>4, <4>5
    <3> QED
      BY <3>1, <3>2
  <2>3. PICK y \in above : y \notin W /\ later(y) \subseteq Q
    BY <2>2
  <2>4. ~(Cardinality(later(y)) < Neighbours)
    BY <1>3, <2>3
  <2>5. Q \subseteq F /\ A \subseteq F
    OBVIOUS
  <2> HIDE DEF F, later
  <2>6. IsFiniteSet(Q) /\ IsFiniteSet(A) /\ Cardinality(Q) \in Nat
    BY <1>0, <2>5, FS_Subset, FS_CardinalityType
  <2>7. IsFiniteSet(later(y)) /\ Cardinality(later(y)) <= Cardinality(Q) /\ Cardinality(later(y)) \in Nat
    BY <2>3, <2>6, FS_Subset, FS_CardinalityType
  <2>8. b \in Int
    BY <1>0, <1>1 DEF F
  <2>9. Q \subseteq A \cup (t .. b)
    <3> SUFFICES ASSUME NEW u \in F, u >= t, ~(u > b) PROVE u \in t .. b
      OBVIOUS
    <3>1. u \in Nat
      BY <1>0
    <3> QED
      BY <2>1, <2>8, <3>1
  <2>10. Cardinality(A) <= n
    BY DEF F
  <2>11. n + Debounce + 1 <= Cardinality(Q)
    BY <1>1, <2>4, <2>6, <2>7
  <2>12. t + Debounce <= b
    <3> HIDE DEF Q, A
    <3> QED
      BY <1>1, <2>1, <2>6, <2>8, <2>9, <2>10, <2>11, LongEnough
  <2>13. b \in F
    <3>1. b # Zero
      BY <1>1, <2>1, <2>12 DEF Zero
    <3> QED
      BY <3>1 DEF F
  <2>14. t \in Turning({v \in F : v <= b}, I, "none")
    BY <1>0, <2>12, <2>13, TurningIsFinal
  <2>15. t <= e
    BY <2>14 DEF F
  <2> QED
    BY <1>1, <1>6, <2>1, <2>15
<1>7. W \subseteq above
  BY <1>4
<1>8. W = above \/ \A t \in T : t > e => \E w \in W : w < t
  BY <1>6, <1>7
<1> QED
  BY <1>5, <1>7, <1>8 DEF WindowOver, W
-----------------------------------------------------------------------------
(* Fixes that come in order, and failures.                                 *)

\* The fixes that p covers.
Cover(fx, p) == {t \in DOMAIN fx : p \in fx[t]}

\* The rows that the fixes amount to, and those that they amounted to up to b.
Rows(fx, p) == Turning(DOMAIN fx, Cover(fx, p), "none")
RowsUpTo(fx, p, b) == Turning({t \in DOMAIN fx : t <= b}, Cover(fx, p), "none")

KindAt(fx, p, t) == IF t \in Cover(fx, p) THEN "enter" ELSE "exit"

\* The log f has those rows up to one of them.
LogOK(fx, p, f) ==
  /\ f = [t \in DOMAIN f |-> KindAt(fx, p, t)]
  /\ DOMAIN f \subseteq Rows(fx, p)
  /\ \A t \in DOMAIN f, u \in Rows(fx, p) \ DOMAIN f : t < u

\* todo has the others.
Pending(fx, p, f, todo) ==
  /\ Stamps(todo) = Rows(fx, p) \ DOMAIN f
  /\ \A k, l \in 1 .. Len(todo) : k < l => todo[k][1] < todo[l][1]
  /\ \A k \in 1 .. Len(todo) : todo[k][2] = KindAt(fx, p, todo[k][1])

\* The rows up to b are there, and no more than n fixes have come since.
CaughtUp(fx, ev, b, n) ==
  /\ Cardinality({t \in DOMAIN fx : t > b}) <= n
  /\ \A p \in Places : RowsUpTo(fx, p, b) \subseteq DOMAIN ev[p]

\* The evaluation under way is of the newest fix, and has done the Places
\* before this one.
UnderWay(q, fx, ev) ==
  /\ q.around = Latest(fx)
  /\ \A p \in Places : p < q.place => Rows(fx, p) \subseteq DOMAIN ev[p]
  /\ q.pc = "window" => q.floor = Latest(ev[q.place]) /\ q.seed = SeedOf(ev[q.place])
  /\ q.pc = "append" => Pending(fx, q.place, ev[q.place], q.todo)

Backlog == streak + IF Settled THEN 0 ELSE 1

Healing ==
  /\ streak <= missed
  /\ \A r, s \in Requests : req[r].pc # "idle" /\ req[s].pc # "idle" => r = s
  /\ \A r \in Requests : req[r].pc = "idle" => req[r].todo = <<>>
  /\ \A p \in Places : LogOK(fixes, p, events[p])
  /\ \E b \in DOMAIN fixes \cup {Zero} : CaughtUp(fixes, events, b, Backlog)
  /\ \A r \in Requests : req[r].pc # "idle" => UnderWay(req[r], fixes, events)

HealInv == orderly /\ missed + Debounce + 2 <= Neighbours => Healing

\* The readings of some of the stored fixes.
LEMMA InsideReads ==
  ASSUME GeoTypes, NEW p \in Places, NEW S, S \subseteq DOMAIN fixes
  PROVE  ReadingsOf(Sorted(S), Inside(p, Sorted(S)), S, Cover(fixes, p))
<1> DEFINE ts == Sorted(S)
           inside == Inside(p, ts)
<1>1. S \in SUBSET Nat /\ IsFiniteSet(S)
  <2>1. S \in SUBSET Times /\ Times \in SUBSET Nat /\ IsFiniteSet(Times)
    BY GeofenceAssumption DEF GeoTypes
  <2> QED
    BY <2>1, FS_Subset
<1>2. /\ ts \in Seq(S) /\ Len(ts) = Cardinality(S) /\ Len(ts) \in Nat
      /\ \A i \in 1 .. Len(ts) : ts[i] \in S
      /\ \A i, j \in 1 .. Len(ts) : i < j => ts[i] < ts[j]
      /\ \A t \in S : \E i \in 1 .. Len(ts) : ts[i] = t
  BY <1>1, SortedLists
<1>3. inside \in [1 .. Len(ts) -> BOOLEAN] /\ \A i \in 1 .. Len(ts) : inside[i] = (p \in fixes[ts[i]])
  BY DEF Inside
<1> HIDE DEF ts, inside
<1>4. ts \in Seq(Nat)
  <2>1. ts \in [1 .. Len(ts) -> Nat] /\ Len(ts) \in Nat
    BY <1>1, <1>2
  <2> QED
    BY <2>1
<1>5. \A i \in 1 .. Len(ts) : inside[i] <=> ts[i] \in Cover(fixes, p)
  BY <1>2, <1>3 DEF Cover
<1>6. Readings(ts, inside)
  BY <1>2, <1>3, <1>4 DEF Readings
<1>7. ReadingsOf(ts, inside, S, Cover(fixes, p))
  BY <1>1, <1>2, <1>5, <1>6 DEF ReadingsOf
<1> QED
  BY <1>7 DEF ts, inside

\* The projection has the rows that the fixes amount to.
LEMMA ProjectionIs ==
  ASSUME GeoTypes, NEW p \in Places
  PROVE  Projection(p) = [t \in Rows(fixes, p) |-> KindAt(fixes, p, t)]
<1> DEFINE ts == Sorted(DOMAIN fixes)
           out == confirmTransitions(ts, Inside(p, ts), "none")
           at(t) == CHOOSE i \in 1 .. Len(out) : out[i][1] = t
<1>1. ReadingsOf(ts, Inside(p, ts), DOMAIN fixes, Cover(fixes, p))
  BY InsideReads
<1>2. /\ Stamps(out) = Rows(fixes, p)
      /\ \A k \in 1 .. Len(out) : out[k][2] = KindAt(fixes, p, out[k][1])
  <2> HIDE DEF ts
  <2>1. LET o == confirmTransitions(ts, Inside(p, ts), "none")
        IN /\ o \in Seq(Nat \X Kinds) /\ Turns(o, "none")
           /\ Stamps(o) = Turning(DOMAIN fixes, Cover(fixes, p), "none")
           /\ \A k \in 1 .. Len(o) : o[k][2] = IF o[k][1] \in Cover(fixes, p) THEN "enter" ELSE "exit"
    BY <1>1, RuleIsDeclarative
  <2> QED
    BY <2>1 DEF Rows, KindAt
<1>3. Projection(p) = [t \in Stamps(out) |-> out[at(t)][2]]
  BY DEF Projection, Stamps
<1> HIDE DEF out
<1>4. \A t \in Stamps(out) : out[at(t)][2] = KindAt(fixes, p, t)
  <2> TAKE t \in Stamps(out)
  <2>1. PICK i \in 1 .. Len(out) : out[i][1] = t
    BY DEF Stamps
  <2>2. at(t) \in 1 .. Len(out) /\ out[at(t)][1] = t
    BY <2>1
  <2> QED
    BY <1>2, <2>2
<1> QED
  BY <1>2, <1>3, <1>4

\* One evaluation from the latest row of the log has in hand what the log lacks.
LEMMA EvaluationCatchesUp ==
  ASSUME GeoTypes, NEW p \in Places, LogOK(fixes, p, events[p]),
         NEW b \in DOMAIN fixes \cup {Zero}, NEW n \in Nat, CaughtUp(fixes, events, b, n),
         n + Debounce + 1 <= Neighbours,
         NEW ts, ts = Sorted(Window(Latest(fixes), Latest(events[p]))),
         NEW out, out = confirmTransitions(ts, Inside(p, ts), SeedOf(events[p]))
  PROVE  Pending(fixes, p, events[p], out)
<1> DEFINE F == DOMAIN fixes
           f == events[p]
           I == Cover(fixes, p)
           e == Latest(f)
           seed == SeedOf(f)
           W == Window(Latest(fixes), e)
<1>0. F \in SUBSET Nat /\ F \subseteq Times /\ DOMAIN f \subseteq Times /\ \A t \in DOMAIN f : f[t] \in Kinds
  BY GeofenceAssumption DEF GeoTypes, EventsOK
<1>1. /\ e \in Times \cup {Zero} /\ (e = Zero <=> DOMAIN f = {})
      /\ (DOMAIN f # {} => e \in DOMAIN f) /\ \A u \in DOMAIN f : u <= e
  <2> HIDE DEF f
  <2> QED
    BY <1>0, LatestOf
<1>2. Latest(fixes) \in Times \cup {Zero}
  BY <1>0, LatestOf
<1>3. /\ f = [t \in DOMAIN f |-> KindAt(fixes, p, t)] /\ DOMAIN f \subseteq Rows(fixes, p)
      /\ \A t \in DOMAIN f, u \in Rows(fixes, p) \ DOMAIN f : t < u
  BY DEF LogOK
<1> HIDE DEF f, F, e, seed
<1>4. ResumeAt(F, I, e, seed) /\ seed \in Kinds \cup {"none"}
  <2>1. CASE DOMAIN f = {}
    BY <1>1, <2>1 DEF ResumeAt, seed, SeedOf, e
  <2>2. CASE DOMAIN f # {}
    <3>1. e \in DOMAIN f /\ e # Zero
      BY <1>1, <2>2
    <3>2. seed = f[e] /\ f[e] = KindAt(fixes, p, e)
      BY <1>3, <3>1 DEF seed, SeedOf, e
    <3>3. e \in Turning(F, I, "none")
      BY <1>3, <3>1 DEF Rows, F
    <3> QED
      BY <1>0, <3>1, <3>2, <3>3 DEF ResumeAt, KindAt
  <2> QED
    BY <2>1, <2>2
<1>5. WindowOver(W, F, I, e)
  <2>1. Cardinality({t \in DOMAIN fixes : t > b}) <= n
    BY DEF CaughtUp
  <2>2. \A t \in Turning({v \in DOMAIN fixes : v <= b}, I, "none") : t <= e
    <3>1. Turning({v \in DOMAIN fixes : v <= b}, I, "none") \subseteq DOMAIN f
      BY DEF CaughtUp, RowsUpTo, f
    <3> QED
      BY <1>1, <3>1
  <2> HIDE DEF I
  <2> QED
    BY <1>1, <2>1, <2>2, WindowReaches DEF F
<1>6. Turning(W, I, seed) = {t \in Rows(fixes, p) : t > e}
  <2>1. Turning(W, I, seed) = {t \in Turning(F, I, "none") : t > e}
    <3> HIDE DEF I, W
    <3> QED
      BY <1>0, <1>4, <1>5, WindowTurning
  <2> QED
    BY <2>1 DEF Rows, F
<1>7. W \subseteq DOMAIN fixes
  BY <1>5 DEF WindowOver, F
<1>8. ReadingsOf(ts, Inside(p, ts), W, I)
  <2> HIDE DEF W
  <2>1. ts = Sorted(W)
    BY DEF W, e, f
  <2> QED
    BY <1>7, <2>1, InsideReads
<1>9. /\ out \in Seq(Nat \X Kinds) /\ Turns(out, seed)
      /\ Stamps(out) = Turning(W, I, seed)
      /\ \A k \in 1 .. Len(out) : out[k][2] = IF out[k][1] \in I THEN "enter" ELSE "exit"
  <2>1. out = confirmTransitions(ts, Inside(p, ts), seed)
    BY DEF seed, f
  <2> HIDE DEF I, W
  <2> QED
    BY <1>4, <1>8, <2>1, RuleIsDeclarative
<1>10. {t \in Rows(fixes, p) : t > e} = Rows(fixes, p) \ DOMAIN f
  <2> SUFFICES ASSUME NEW t \in Rows(fixes, p) PROVE t > e <=> t \notin DOMAIN f
    OBVIOUS
  <2>1. t \in F
    BY DEF Rows, Turning, Sure, F
  <2>2. t \in Nat
    BY <1>0, <2>1
  <2>3. e \in Int
    <3>1. Times \subseteq Nat /\ Zero \in Int
      BY GeofenceAssumption DEF Zero
    <3> QED
      BY <1>1, <3>1
  <2>4. t > e => t \notin DOMAIN f
    BY <1>1, <2>2, <2>3
  <2>5. ASSUME t \notin DOMAIN f PROVE t > e
    <3>1. CASE DOMAIN f = {}
      <4>1. t > Zero
        BY <2>2 DEF Zero
      <4> QED
        BY <1>1, <3>1, <4>1
    <3>2. CASE DOMAIN f # {}
      <4>1. e \in DOMAIN f
        BY <1>1, <3>2
      <4>2. e < t
        BY <1>3, <2>5, <4>1
      <4> QED
        BY <2>2, <2>3, <4>2
    <3> QED
      BY <3>1, <3>2
  <2> QED
    BY <2>4, <2>5
<1>11. \A k, l \in 1 .. Len(out) : k < l => out[k][1] < out[l][1]
  BY <1>9 DEF Turns
<1>12. \A k \in 1 .. Len(out) : out[k][2] = KindAt(fixes, p, out[k][1])
  BY <1>9 DEF KindAt
<1>13. Stamps(out) = Rows(fixes, p) \ DOMAIN f
  BY <1>6, <1>9, <1>10
<1> QED
  BY <1>11, <1>12, <1>13 DEF Pending, f

\* Recording the next row leaves the others to record.
LEMMA HeadRecorded ==
  ASSUME EventsOK, NEW fx, NEW p \in Places, LogOK(fx, p, events[p]),
         NEW todo \in Seq(Times \X Kinds), todo # <<>>, Pending(fx, p, events[p], todo),
         InsertEvent(p, Head(todo))
  PROVE  /\ LogOK(fx, p, events'[p]) /\ Pending(fx, p, events'[p], Tail(todo))
         /\ \A q \in Places \ {p} : events'[q] = events[q]
         /\ \A q \in Places : DOMAIN events[q] \subseteq DOMAIN events'[q]
<1> DEFINE f == events[p]
           g == events'[p]
           h == Head(todo)
           rest == Tail(todo)
           R == Rows(fx, p)
<1>1. /\ h \in Times \X Kinds /\ rest \in Seq(Times \X Kinds) /\ Len(rest) = Len(todo) - 1
      /\ \A i \in 1 .. Len(rest) : rest[i] = todo[i + 1]
  BY HeadTailProperties
<1>2. Len(todo) \in Nat /\ Len(todo) >= 1 /\ h = todo[1]
  OBVIOUS
<1>3. /\ f = [t \in DOMAIN f |-> KindAt(fx, p, t)] /\ DOMAIN f \subseteq R
      /\ \A t \in DOMAIN f, u \in R \ DOMAIN f : t < u
  BY DEF LogOK
<1>4. /\ Stamps(todo) = R \ DOMAIN f
      /\ \A k, l \in 1 .. Len(todo) : k < l => todo[k][1] < todo[l][1]
      /\ \A k \in 1 .. Len(todo) : todo[k][2] = KindAt(fx, p, todo[k][1])
  BY DEF Pending
<1>5. \A t : t \in Stamps(todo) <=> \E k \in 1 .. Len(todo) : t = todo[k][1]
  BY DEF Stamps
<1>6. 1 \in 1 .. Len(todo)
  BY <1>2
<1>7. h[1] \in R /\ h[1] \notin DOMAIN f /\ h[2] = KindAt(fx, p, h[1])
  BY <1>2, <1>4, <1>5, <1>6
<1>8. /\ \A q \in Places \ {p} : events'[q] = events[q]
      /\ DOMAIN g = DOMAIN f \cup {h[1]}
  BY <1>1, InsertStep
<1>9. g = [t \in DOMAIN f \cup {h[1]} |-> IF t = h[1] THEN h[2] ELSE f[t]]
  <2>1. p \in DOMAIN events
    BY DEF EventsOK
  <2> QED
    BY <1>7, <2>1 DEF InsertEvent
<1>14. \A k \in 1 .. Len(todo) : todo[k][1] \in Nat
  <2> TAKE k \in 1 .. Len(todo)
  <2>1. todo[k] \in Times \X Kinds /\ Times \subseteq Nat
    BY GeofenceAssumption
  <2> QED
    BY <2>1
<1> HIDE DEF h, rest, f, g, R
<1>10. g = [t \in DOMAIN g |-> KindAt(fx, p, t)]
  <2>1. \A t \in DOMAIN f : f[t] = KindAt(fx, p, t)
    BY <1>3
  <2>2. \A t \in DOMAIN f \cup {h[1]} : (IF t = h[1] THEN h[2] ELSE f[t]) = KindAt(fx, p, t)
    BY <1>7, <2>1
  <2>3. g = [t \in DOMAIN f \cup {h[1]} |-> KindAt(fx, p, t)]
    BY <1>9, <2>2
  <2> QED
    BY <1>8, <2>3
<1>11. \A t \in DOMAIN g, u \in R \ DOMAIN g : t < u
  <2> SUFFICES ASSUME NEW u \in R, u \notin DOMAIN g PROVE \A t \in DOMAIN g : t < u
    OBVIOUS
  <2>1. u \in Stamps(todo) /\ u # h[1] /\ u \notin DOMAIN f
    BY <1>4, <1>8
  <2>2. PICK k \in 1 .. Len(todo) : u = todo[k][1]
    BY <1>5, <2>1
  <2>3. 1 < k
    BY <1>2, <2>1, <2>2
  <2>4. h[1] < u
    BY <1>2, <1>4, <1>6, <2>2, <2>3
  <2> QED
    BY <1>3, <1>8, <2>1, <2>4
<1>12. LogOK(fx, p, g)
  BY <1>3, <1>7, <1>8, <1>10, <1>11 DEF LogOK, R
<1>13. \A i \in 1 .. Len(rest) : i + 1 \in 1 .. Len(todo) /\ 1 < i + 1 /\ rest[i] = todo[i + 1]
  BY <1>1, <1>2
<1>15. Stamps(rest) = R \ DOMAIN g
  <2>1. \A t : t \in Stamps(rest) <=> \E k \in 1 .. Len(rest) : t = rest[k][1]
    BY DEF Stamps
  <2>2. ASSUME NEW t \in Stamps(rest) PROVE t \in R /\ t \notin DOMAIN g
    <3>1. PICK i \in 1 .. Len(rest) : t = todo[i + 1][1]
      BY <1>13, <2>1
    <3>2. t \in Stamps(todo)
      BY <1>5, <1>13, <3>1
    <3>3. todo[1][1] < todo[i + 1][1]
      BY <1>4, <1>6, <1>13
    <3>4. t # h[1]
      <4>1. todo[1][1] \in Nat /\ todo[i + 1][1] \in Nat
        BY <1>6, <1>13, <1>14
      <4> QED
        BY <1>2, <3>1, <3>3, <4>1
    <3> QED
      BY <1>4, <1>8, <3>2, <3>4
  <2>3. ASSUME NEW t \in R, t \notin DOMAIN g PROVE t \in Stamps(rest)
    <3>1. t \in Stamps(todo) /\ t # h[1]
      BY <1>4, <1>8, <2>3
    <3>2. PICK k \in 1 .. Len(todo) : t = todo[k][1]
      BY <1>5, <3>1
    <3>3. k # 1
      BY <1>2, <3>1, <3>2
    <3>4. k - 1 \in 1 .. Len(rest) /\ (k - 1) + 1 = k
      BY <1>1, <1>2, <3>3
    <3>5. rest[k - 1] = todo[k]
      BY <1>1, <3>4
    <3> QED
      BY <2>1, <3>2, <3>4, <3>5
  <2> QED
    BY <2>2, <2>3
<1>16. \A k, l \in 1 .. Len(rest) : k < l => rest[k][1] < rest[l][1]
  <2> SUFFICES ASSUME NEW k \in 1 .. Len(rest), NEW l \in 1 .. Len(rest), k < l
               PROVE  rest[k][1] < rest[l][1]
    OBVIOUS
  <2>1. k + 1 < l + 1
    OBVIOUS
  <2> QED
    BY <1>4, <1>13, <2>1
<1>17. \A k \in 1 .. Len(rest) : rest[k][2] = KindAt(fx, p, rest[k][1])
  BY <1>4, <1>13
<1>18. Pending(fx, p, g, rest)
  BY <1>15, <1>16, <1>17 DEF Pending, R
<1>19. \A q \in Places : DOMAIN events[q] \subseteq DOMAIN events'[q]
  BY <1>8 DEF f, g
<1> QED
  BY <1>8, <1>12, <1>18, <1>19 DEF g, rest

\* A fix that comes after the others leaves the rows there were, and adds later ones.
LEMMA NewFix ==
  ASSUME NEW fx, DOMAIN fx \subseteq Nat, NEW t \in Nat, \A u \in DOMAIN fx : u < t,
         NEW gx, DOMAIN gx = DOMAIN fx \cup {t}, \A u \in DOMAIN fx : gx[u] = fx[u], NEW p
  PROVE  /\ \A f : LogOK(fx, p, f) => LogOK(gx, p, f)
         /\ \A b \in Int : b < t => RowsUpTo(gx, p, b) = RowsUpTo(fx, p, b)
<1> DEFINE F == DOMAIN fx
           G == DOMAIN gx
           I == Cover(fx, p)
           J == Cover(gx, p)
<1>1. \A u \in F : u \in J <=> u \in I
  BY DEF Cover
<1>2. PrefixOf(F, G) /\ G \in SUBSET Nat
  BY DEF PrefixOf
<1>3. Rows(fx, p) = Turning(F, J, "none")
  <2> HIDE DEF I, J
  <2>1. Turning(F, I, "none") = Turning(F, J, "none")
    BY <1>1, SameReadings
  <2> QED
    BY <2>1 DEF Rows, I
<1>4. Rows(fx, p) \subseteq F
  BY DEF Rows, Turning, Sure
<1>5. /\ Rows(fx, p) \subseteq Rows(gx, p)
      /\ \A x \in Rows(gx, p) \ Rows(fx, p) : \A y \in Rows(fx, p) : y < x
  <2> HIDE DEF F, G, J
  <2>1. /\ Turning(F, J, "none") = Turning(G, J, "none") \cap Sure(F, J, "none")
        /\ \A x \in Turning(G, J, "none") \ Turning(F, J, "none") :
             \A y \in Turning(F, J, "none") : y < x
    BY <1>2, PrefixTurning
  <2>2. Rows(gx, p) = Turning(G, J, "none")
    BY DEF Rows, G, J
  <2> QED
    BY <1>3, <2>1, <2>2
<1>6. ASSUME NEW f, LogOK(fx, p, f) PROVE LogOK(gx, p, f)
  <2>1. /\ f = [u \in DOMAIN f |-> KindAt(fx, p, u)] /\ DOMAIN f \subseteq Rows(fx, p)
        /\ \A x \in DOMAIN f, u \in Rows(fx, p) \ DOMAIN f : x < u
    BY <1>6 DEF LogOK
  <2>2. \A u \in DOMAIN f : KindAt(fx, p, u) = KindAt(gx, p, u)
    BY <1>1, <1>4, <2>1 DEF KindAt
  <2>3. f = [u \in DOMAIN f |-> KindAt(gx, p, u)]
    BY <2>1, <2>2
  <2>4. DOMAIN f \subseteq Rows(gx, p)
    BY <1>5, <2>1
  <2>5. \A x \in DOMAIN f, u \in Rows(gx, p) \ DOMAIN f : x < u
    BY <1>5, <2>1
  <2> QED
    BY <2>3, <2>4, <2>5 DEF LogOK
<1>7. ASSUME NEW b \in Int, b < t PROVE RowsUpTo(gx, p, b) = RowsUpTo(fx, p, b)
  <2> DEFINE S == {u \in F : u <= b}
  <2>1. {u \in G : u <= b} = S
    BY <1>7
  <2>2. \A u \in S : u \in I <=> u \in J
    BY <1>1
  <2>3. Turning(S, I, "none") = Turning(S, J, "none")
    <3> HIDE DEF S, I, J
    <3> QED
      BY <2>2, SameReadings
  <2> QED
    BY <2>1, <2>3 DEF RowsUpTo
<1> QED
  BY <1>6, <1>7

\* A step of the evaluation under way is the only one.
LEMMA OneUnderWay ==
  ASSUME GeoTypes, Healing, NEW r \in Requests, req[r].pc # "idle", OnlyOf(r)
  PROVE  /\ ~Settled /\ Backlog = streak + 1 /\ UnderWay(req[r], fixes, events)
         /\ \A s \in Requests \ {r} : req'[s].pc = "idle"
         /\ Settled' <=> req'[r].pc = "idle"
<1>1. \A s \in Requests \ {r} : req[s].pc = "idle" /\ req'[s].pc = "idle"
  BY DEF Healing, OnlyOf
<1>2. ~Settled
  BY DEF Settled
<1>3. Backlog = streak + 1
  BY <1>2 DEF Backlog
<1>4. Settled' <=> req'[r].pc = "idle"
  BY <1>1 DEF Settled
<1> QED
  BY <1>1, <1>2, <1>3, <1>4 DEF Healing

\* It goes on, and rows are only added.
LEMMA GoesOn ==
  ASSUME GeoTypes, Healing, NEW r \in Requests, req[r].pc # "idle", OnlyOf(r),
         req'[r].pc # "idle", UNCHANGED <<fixes, streak, missed>>,
         \A p \in Places : LogOK(fixes, p, events'[p]) /\ DOMAIN events[p] \subseteq DOMAIN events'[p],
         UnderWay(req'[r], fixes, events')
  PROVE  Healing'
<1>1. /\ Backlog = streak + 1 /\ (Settled' <=> req'[r].pc = "idle")
      /\ \A s \in Requests \ {r} : req'[s].pc = "idle"
  BY OneUnderWay
<1>2. Backlog' = Backlog
  BY <1>1 DEF Backlog
<1>3. PICK b \in DOMAIN fixes \cup {Zero} : CaughtUp(fixes, events, b, Backlog)
  BY DEF Healing
<1>4. CaughtUp(fixes', events', b, Backlog')
  BY <1>2, <1>3 DEF CaughtUp
<1>5. b \in DOMAIN fixes' \cup {Zero}
  BY <1>3
<1>6. \A s, q \in Requests : req'[s].pc # "idle" /\ req'[q].pc # "idle" => s = q
  BY <1>1
<1>7. \A s \in Requests : req'[s].pc # "idle" => UnderWay(req'[s], fixes', events')
  BY <1>1
<1>8. (streak <= missed)' /\ \A p \in Places : LogOK(fixes', p, events'[p])
  BY DEF Healing
<1>9. \E c \in DOMAIN fixes' \cup {Zero} : CaughtUp(fixes', events', c, Backlog')
  BY <1>4, <1>5
<1>10. \A s \in Requests : req'[s].pc = "idle" => req'[s].todo = <<>>
  BY DEF Healing, OnlyOf
<1> QED
  BY <1>6, <1>7, <1>8, <1>9, <1>10 DEF Healing

\* It fails, and the streak is one longer.
LEMMA GivesUp ==
  ASSUME GeoTypes, Healing, NEW r \in Requests, req[r].pc # "idle", OnlyOf(r),
         req'[r] = Idle, UNCHANGED fixes, Failed,
         \A p \in Places : LogOK(fixes, p, events'[p]) /\ DOMAIN events[p] \subseteq DOMAIN events'[p]
  PROVE  Healing'
<1>1. /\ Backlog = streak + 1 /\ Settled'
      /\ \A s \in Requests \ {r} : req'[s].pc = "idle"
  BY OneUnderWay, IdleOK
<1>2. Backlog' = Backlog
  <2>1. Backlog' = streak' + 0 /\ streak \in Nat /\ streak' = streak + 1
    BY <1>1 DEF Backlog, Failed, GeoTypes
  <2> QED
    BY <1>1, <2>1
<1>3. PICK b \in DOMAIN fixes \cup {Zero} : CaughtUp(fixes, events, b, Backlog)
  BY DEF Healing
<1>4. CaughtUp(fixes', events', b, Backlog')
  BY <1>2, <1>3 DEF CaughtUp
<1>5. b \in DOMAIN fixes' \cup {Zero}
  BY <1>3
<1>6. \A s \in Requests : req'[s].pc = "idle" /\ req'[s].todo = <<>>
  BY <1>1, IdleOK DEF Healing, OnlyOf
<1>7. (streak <= missed)'
  BY DEF Healing, Failed, GeoTypes
<1>8. \A p \in Places : LogOK(fixes', p, events'[p])
  OBVIOUS
<1>9. \E c \in DOMAIN fixes' \cup {Zero} : CaughtUp(fixes', events', c, Backlog')
  BY <1>4, <1>5
<1> QED
  BY <1>6, <1>7, <1>8, <1>9 DEF Healing

\* An evaluation that has nothing left to append has caught up.
LEMMA NothingLeft ==
  ASSUME NEW fx, NEW p, NEW f, Pending(fx, p, f, <<>>)
  PROVE  Rows(fx, p) \subseteq DOMAIN f
<1>1. Stamps(<<>>) = {}
  BY DEF Stamps
<1> QED
  BY <1>1 DEF Pending

\* It goes through: everything is recorded.
LEMMA GoesThrough ==
  ASSUME GeoTypes, Healing, NEW r \in Requests, EndEvaluation(r)
  PROVE  Healing'
<1>0. OnlyOf(r) /\ req'[r].pc = "idle" /\ req'[r].todo = <<>>
  BY EndSteps, IdleOK
<1>1. /\ req[r].pc = "append" /\ req[r].todo = <<>> /\ req[r].place + 1 \notin Places
      /\ streak' = 0 /\ UNCHANGED <<fixes, events, missed>>
  BY DEF EndEvaluation
<1>2. /\ Settled' /\ UnderWay(req[r], fixes, events)
      /\ \A s \in Requests \ {r} : req'[s].pc = "idle"
  BY <1>0, <1>1, OneUnderWay
<1>3. req[r].place \in Places
  BY <1>1 DEF GeoTypes, ReqOK
<1>4. ASSUME NEW p \in Places PROVE Rows(fixes, p) \subseteq DOMAIN events[p]
  <2>1. p < req[r].place \/ p = req[r].place
    <3>1. Places = 1 .. Cardinality(Places) /\ Cardinality(Places) \in Nat
      BY GeofenceAssumption, FS_CardinalityType
    <3> DEFINE n == Cardinality(Places)
               q == req[r].place
    <3> HIDE DEF n, q
    <3>2. n \in Nat /\ p \in 1 .. n /\ q \in 1 .. n /\ q + 1 \notin 1 .. n
      BY <1>1, <1>3, <3>1 DEF n, q
    <3>3. p < q \/ p = q
      BY <3>2
    <3> QED
      BY <3>3 DEF q
  <2>2. CASE p < req[r].place
    BY <1>2, <2>2 DEF UnderWay
  <2>3. CASE p = req[r].place
    <3>1. Pending(fixes, p, events[p], <<>>)
      BY <1>1, <1>2, <2>3 DEF UnderWay
    <3> QED
      BY <3>1, NothingLeft
  <2> QED
    BY <2>1, <2>2, <2>3
<1> DEFINE new == Latest(fixes)
<1>5. DOMAIN fixes \subseteq Times /\ Times \subseteq Nat
  BY GeofenceAssumption DEF GeoTypes
<1>6. new \in Times \cup {Zero} /\ (DOMAIN fixes # {} => new \in DOMAIN fixes)
      /\ (DOMAIN fixes = {} => new = Zero) /\ \A u \in DOMAIN fixes : u <= new
  BY <1>5, LatestOf
<1> HIDE DEF new
<1>7. new \in Int /\ new \in DOMAIN fixes \cup {Zero}
  <2>1. \A x \in Times \cup {Zero} : x \in Int
    BY <1>5 DEF Zero
  <2> QED
    BY <1>6, <2>1
<1>8. {t \in DOMAIN fixes : t > new} = {} /\ {t \in DOMAIN fixes : t <= new} = DOMAIN fixes
  <2>1. \A t \in DOMAIN fixes : t <= new /\ ~(t > new)
    BY <1>5, <1>6, <1>7
  <2> QED
    BY <2>1
<1>9. Cardinality({t \in DOMAIN fixes : t > new}) <= 0
  BY <1>8, FS_EmptySet
<1>10. \A p \in Places : RowsUpTo(fixes, p, new) = Rows(fixes, p)
  BY <1>8 DEF RowsUpTo, Rows
<1>11. Backlog' = 0
  BY <1>1, <1>2 DEF Backlog
<1>12. CaughtUp(fixes', events', new, Backlog')
  BY <1>1, <1>4, <1>9, <1>10, <1>11 DEF CaughtUp
<1>13. \E c \in DOMAIN fixes' \cup {Zero} : CaughtUp(fixes', events', c, Backlog')
  BY <1>1, <1>7, <1>12
<1>14. \A s \in Requests : req'[s].pc = "idle" /\ req'[s].todo = <<>>
  BY <1>0, <1>2 DEF Healing, OnlyOf
<1>15. (streak <= missed)'
  BY <1>1 DEF GeoTypes
<1>16. \A p \in Places : LogOK(fixes', p, events'[p])
  BY <1>1 DEF Healing
<1> QED
  BY <1>13, <1>14, <1>15, <1>16 DEF Healing

\* A fix comes in order.
LEMMA ComesInOrder ==
  ASSUME GeoTypes, Healing, NEW r \in Requests, NEW t \in Times, Ingest(r, t), orderly'
  PROVE  Healing'
<1>0. /\ OnlyOf(r) /\ UNCHANGED <<events, streak, missed>> /\ req'[r].pc = "prior"
      /\ req'[r].around = t /\ req'[r].place = 1
  BY IngestStep DEF Ingest
<1>1. Settled /\ t > Latest(fixes)
  BY DEF Ingest
<1>2. PICK cover \in SUBSET Places :
        fixes' = [u \in DOMAIN fixes \cup {t} |-> IF u = t THEN cover ELSE fixes[u]]
  BY DEF Ingest
<1>3. t \notin DOMAIN fixes
  BY DEF Ingest
<1>4. DOMAIN fixes' = DOMAIN fixes \cup {t} /\ \A u \in DOMAIN fixes : fixes'[u] = fixes[u]
  BY <1>2, <1>3
<1>5. DOMAIN fixes \subseteq Times /\ Times \subseteq Nat /\ IsFiniteSet(Times) /\ Zero \in Int
  BY GeofenceAssumption DEF GeoTypes, Zero
<1>6. Latest(fixes) \in Times \cup {Zero} /\ \A u \in DOMAIN fixes : u <= Latest(fixes)
  BY <1>5, LatestOf
<1>7. t \in Nat /\ \A u \in DOMAIN fixes : u \in Nat /\ u < t
  <2>1. Latest(fixes) \in Int /\ t \in Nat
    <3>1. \A x \in Times \cup {Zero} : x \in Int
      BY <1>5
    <3> QED
      BY <1>5, <1>6, <3>1
  <2>2. ASSUME NEW u \in DOMAIN fixes PROVE u \in Nat /\ u < t
    <3>1. u \in Nat /\ u <= Latest(fixes)
      BY <1>5, <1>6
    <3> QED
      BY <1>1, <2>1, <3>1
  <2> QED
    BY <2>1, <2>2
<1>8. Latest(fixes') = t
  <2>1. DOMAIN fixes' \subseteq Times /\ t \in DOMAIN fixes'
    BY <1>4, <1>5
  <2>2. Latest(fixes') \in DOMAIN fixes' /\ \A u \in DOMAIN fixes' : u <= Latest(fixes')
    BY <2>1, LatestOf
  <2>3. Latest(fixes') = t \/ Latest(fixes') < t
    BY <1>4, <1>7, <2>2
  <2>4. t <= Latest(fixes') /\ Latest(fixes') \in Nat
    BY <1>5, <2>1, <2>2
  <2> QED
    BY <1>7, <2>3, <2>4
<1>9. \A p \in Places :
        /\ \A f : LogOK(fixes, p, f) => LogOK(fixes', p, f)
        /\ \A b \in Int : b < t => RowsUpTo(fixes', p, b) = RowsUpTo(fixes, p, b)
  <2> TAKE p \in Places
  <2>1. DOMAIN fixes \subseteq Nat /\ \A u \in DOMAIN fixes : u < t
    BY <1>7
  <2> DEFINE fx == fixes
             gx == fixes'
  <2>2. /\ DOMAIN fx \subseteq Nat /\ (\A u \in DOMAIN fx : u < t)
        /\ DOMAIN gx = DOMAIN fx \cup {t} /\ \A u \in DOMAIN fx : gx[u] = fx[u]
    BY <1>4, <2>1
  <2> HIDE DEF fx, gx
  <2>3. /\ \A f : LogOK(fx, p, f) => LogOK(gx, p, f)
        /\ \A b \in Int : b < t => RowsUpTo(gx, p, b) = RowsUpTo(fx, p, b)
    BY <1>7, <2>2, NewFix
  <2> QED
    BY <2>3 DEF fx, gx
<1>10. PICK b \in DOMAIN fixes \cup {Zero} : CaughtUp(fixes, events, b, Backlog)
  BY DEF Healing
<1>11. b \in Int /\ b < t
  BY <1>7 DEF Zero
<1>12. CaughtUp(fixes', events', b, streak + 1)
  <2> DEFINE A == {u \in DOMAIN fixes : u > b}
             B == {u \in DOMAIN fixes' : u > b}
  <2>1. B = A \cup {t} /\ t \notin A
    <3>1. t > b
      BY <1>7, <1>11
    <3> QED
      BY <1>3, <1>4, <3>1
  <2>2. A \in SUBSET Times
    BY <1>5
  <2>3. Cardinality(A) <= streak + 0
    BY <1>1, <1>10 DEF CaughtUp, Backlog
  <2> HIDE DEF A, B
  <2>4. IsFiniteSet(A) /\ Cardinality(A) \in Nat
    BY <1>5, <2>2, FS_Subset, FS_CardinalityType
  <2>5. Cardinality(B) = Cardinality(A) + 1
    BY <2>1, <2>4, FS_AddElement
  <2>6. Cardinality(B) <= streak + 1
    BY <2>3, <2>4, <2>5 DEF GeoTypes
  <2>7. \A p \in Places : RowsUpTo(fixes', p, b) \subseteq DOMAIN events'[p]
    BY <1>0, <1>9, <1>10, <1>11 DEF CaughtUp
  <2> QED
    BY <2>6, <2>7 DEF CaughtUp, B
<1>13. Backlog' = streak + 1
  <2>1. ~Settled'
    BY <1>0 DEF Settled
  <2> QED
    BY <1>0, <2>1 DEF Backlog
<1>14. \E c \in DOMAIN fixes' \cup {Zero} : CaughtUp(fixes', events', c, Backlog')
  BY <1>4, <1>12, <1>13
<1>15. \A s \in Requests \ {r} : req'[s].pc = "idle"
  BY <1>0, <1>1 DEF OnlyOf, Settled
<1>16. UnderWay(req'[r], fixes', events')
  <2>1. \A p \in Places : ~(p < 1)
    <3>1. Places = 1 .. Cardinality(Places) /\ Cardinality(Places) \in Nat
      BY GeofenceAssumption, FS_CardinalityType
    <3> QED
      BY <3>1
  <2> QED
    BY <1>0, <1>8, <2>1 DEF UnderWay
<1>17. \A p \in Places : LogOK(fixes', p, events'[p])
  BY <1>0, <1>9 DEF Healing
<1>18. (streak <= missed)'
  BY <1>0 DEF Healing
<1>19. \A s, q \in Requests : req'[s].pc # "idle" /\ req'[q].pc # "idle" => s = q
  BY <1>15
<1>20. \A s \in Requests : req'[s].pc # "idle" => UnderWay(req'[s], fixes', events')
  BY <1>15, <1>16
<1>21. \A s \in Requests : req'[s].pc = "idle" => req'[s].todo = <<>>
  BY <1>0, <1>1 DEF Healing, OnlyOf
<1> QED
  BY <1>14, <1>17, <1>18, <1>19, <1>20, <1>21 DEF Healing

\* The neighbourhood is read, and what the log lacks is in hand.
LEMMA ReadsWhatIsMissing ==
  ASSUME GeoTypes, Healing, missed + Debounce + 2 <= Neighbours, NEW r \in Requests, ReadWindow(r)
  PROVE  Pending(fixes, req[r].place, events[req[r].place], req'[r].todo)
<1> DEFINE p == req[r].place
           f == events[p]
           ts == Sorted(Window(req[r].around, req[r].floor))
           out == confirmTransitions(ts, Inside(p, ts), req[r].seed)
<1>0. OnlyOf(r) /\ p \in Places /\ req[r].pc = "window" /\ ReqOK(req[r])
  BY ReadWindowStep DEF ReadWindow, GeoTypes
<1>1. Backlog = streak + 1 /\ UnderWay(req[r], fixes, events)
  BY <1>0, OneUnderWay
<1>2. req[r].around = Latest(fixes) /\ req[r].floor = Latest(f) /\ req[r].seed = SeedOf(f)
  BY <1>0, <1>1 DEF UnderWay
<1>3. PICK b \in DOMAIN fixes \cup {Zero} : CaughtUp(fixes, events, b, Backlog)
  BY DEF Healing
<1>4. Backlog \in Nat /\ Backlog + Debounce + 1 <= Neighbours
  <2>1. streak \in Nat /\ missed \in Nat /\ streak <= missed /\ Debounce \in Nat /\ Neighbours \in Nat
    BY GeofenceAssumption DEF GeoTypes, Healing
  <2> QED
    BY <1>1, <2>1
<1>5. LogOK(fixes, p, f)
  BY <1>0 DEF Healing
<1>6. req'[r].todo = out
  <2>1. req' = [req EXCEPT ![r].pc = "append", ![r].todo = out]
    BY DEF ReadWindow
  <2> HIDE DEF out, ts, p, f
  <2> QED
    BY <1>0, <2>1 DEF ReqOK, Fields, GeoTypes
<1>7. /\ ts = Sorted(Window(Latest(fixes), Latest(events[p])))
      /\ out = confirmTransitions(ts, Inside(p, ts), SeedOf(events[p]))
  BY <1>2
<1> HIDE DEF ts, out, p
<1>8. Pending(fixes, p, events[p], out)
  BY <1>0, <1>3, <1>4, <1>5, <1>7, EvaluationCatchesUp
<1> QED
  BY <1>6, <1>8 DEF p

\* Every step.
LEMMA HealStep ==
  ASSUME GeoTypes, HealInv, [Next]_vars
  PROVE  HealInv'
<1> SUFFICES ASSUME orderly', missed' + Debounce + 2 <= Neighbours PROVE Healing'
  BY DEF HealInv
<1>0. Debounce \in Nat /\ Neighbours \in Nat /\ missed \in Nat /\ streak \in Nat
  BY GeofenceAssumption DEF GeoTypes
<1>1. CASE UNCHANGED vars
  <2>1. Healing /\ UNCHANGED <<fixes, events, req, streak, missed>>
    BY <1>1 DEF vars, HealInv
  <2>2. Backlog' = Backlog
    BY <2>1 DEF Backlog, Settled
  <2> QED
    BY <2>1, <2>2 DEF Healing
<1>2. CASE Next
  <2>1. PICK r \in Requests :
          \/ \E t \in Times : Ingest(r, t)
          \/ ReadPrior(r) \/ ReadWindow(r) \/ AppendEvent(r) \/ NextPlace(r)
          \/ EndEvaluation(r) \/ Fail(r) \/ FailCommitted(r)
    BY <1>2 DEF Next
  <2>2. orderly
    <3>1. CASE \E t \in Times : Ingest(r, t)
      <4>1. PICK t \in Times : Ingest(r, t)
        BY <3>1
      <4>2. orderly' = (orderly /\ Settled /\ t > Latest(fixes))
        BY <4>1, Zenon DEF Ingest
      <4>3. orderly /\ Settled /\ t > Latest(fixes)
        BY <4>2, Zenon
      <4> QED
        BY <4>3, Zenon
    <3>2. CASE ReadPrior(r) \/ ReadWindow(r) \/ AppendEvent(r) \/ NextPlace(r)
      <4>1. orderly' = orderly
        BY <3>2, ReadPriorStep, ReadWindowStep, AppendStep, NextPlaceStep
      <4> QED
        BY <4>1, Zenon
    <3>3. CASE EndEvaluation(r) \/ Fail(r) \/ FailCommitted(r)
      <4>1. orderly' = orderly
        BY <3>3 DEF EndEvaluation, Fail, FailCommitted
      <4> QED
        BY <4>1, Zenon
    <3> QED
      BY <2>1, <3>1, <3>2, <3>3, Zenon
  <2>3. missed + Debounce + 2 <= Neighbours
    <3>1. missed' = missed \/ Failed
      <4>1. CASE \E t \in Times : Ingest(r, t)
        BY <4>1 DEF Ingest
      <4>2. CASE ReadPrior(r) \/ ReadWindow(r) \/ AppendEvent(r) \/ NextPlace(r)
        BY <4>2, ReadPriorStep, ReadWindowStep, AppendStep, NextPlaceStep
      <4>3. CASE EndEvaluation(r) \/ Fail(r) \/ FailCommitted(r)
        BY <4>3 DEF EndEvaluation, Fail, FailCommitted
      <4> QED
        BY <2>1, <4>1, <4>2, <4>3
    <3>2. missed' \in Nat /\ missed <= missed'
      BY <1>0, <3>1 DEF Failed
    <3>3. \A m, n \in Nat : m <= n /\ n + Debounce + 2 <= Neighbours => m + Debounce + 2 <= Neighbours
      BY <1>0
    <3>4. missed' + Debounce + 2 <= Neighbours
      OBVIOUS
    <3> QED
      BY <1>0, <3>2, <3>3, <3>4, Zenon
  <2>4. Healing
    BY <2>2, <2>3, Zenon DEF HealInv
  <2>5. ASSUME req[r].pc # "idle", OnlyOf(r) PROVE UnderWay(req[r], fixes, events)
    BY <2>4, <2>5, OneUnderWay
  <2>6. \A p \in Places : LogOK(fixes, p, events[p])
    BY <2>4 DEF Healing
  <2>7. CASE \E t \in Times : Ingest(r, t)
    BY <2>4, <2>7, ComesInOrder
  <2>8. CASE ReadPrior(r)
    <3>1. /\ OnlyOf(r) /\ UNCHANGED <<fixes, events, streak, missed>> /\ req'[r].place = req[r].place
          /\ req'[r].pc = "window" /\ req'[r].around = req[r].around
          /\ req'[r].floor = Latest(events[req[r].place]) /\ req'[r].seed = SeedOf(events[req[r].place])
      BY <2>8, ReadPriorStep
    <3>2. req[r].pc # "idle"
      BY <2>8 DEF ReadPrior
    <3>3. UnderWay(req'[r], fixes, events')
      BY <2>5, <3>1, <3>2 DEF UnderWay
    <3> QED
      BY <2>4, <2>6, <3>1, <3>2, <3>3, GoesOn
  <2>9. CASE ReadWindow(r)
    <3>1. /\ OnlyOf(r) /\ UNCHANGED <<fixes, events, streak, missed>> /\ req'[r].place = req[r].place
          /\ req'[r].pc = "append" /\ req'[r].around = req[r].around
      BY <2>9, ReadWindowStep
    <3>2. req[r].pc # "idle"
      BY <2>9 DEF ReadWindow
    <3>3. Pending(fixes, req[r].place, events[req[r].place], req'[r].todo)
      BY <2>3, <2>4, <2>9, ReadsWhatIsMissing
    <3>4. UnderWay(req'[r], fixes, events')
      BY <2>5, <3>1, <3>2, <3>3 DEF UnderWay
    <3> QED
      BY <2>4, <2>6, <3>1, <3>2, <3>4, GoesOn
  <2>10. ASSUME req[r].place \in Places, req[r].pc = "append", req[r].todo # <<>>, OnlyOf(r),
                req[r].todo \in Seq(Times \X Kinds), InsertEvent(req[r].place, Head(req[r].todo))
         PROVE  /\ \A p \in Places : LogOK(fixes, p, events'[p]) /\ DOMAIN events[p] \subseteq DOMAIN events'[p]
                /\ Pending(fixes, req[r].place, events'[req[r].place], Tail(req[r].todo))
    <3>1. /\ Pending(fixes, req[r].place, events[req[r].place], req[r].todo)
          /\ LogOK(fixes, req[r].place, events[req[r].place])
      BY <2>5, <2>6, <2>10 DEF UnderWay
    <3>2. /\ LogOK(fixes, req[r].place, events'[req[r].place])
          /\ Pending(fixes, req[r].place, events'[req[r].place], Tail(req[r].todo))
          /\ \A q \in Places \ {req[r].place} : events'[q] = events[q]
          /\ \A q \in Places : DOMAIN events[q] \subseteq DOMAIN events'[q]
      BY <2>10, <3>1, HeadRecorded DEF GeoTypes
    <3> QED
      BY <2>6, <3>2
  <2>11. CASE AppendEvent(r)
    <3>1. /\ OnlyOf(r) /\ UNCHANGED <<fixes, streak, missed>> /\ req[r].place \in Places
          /\ req[r].pc = "append" /\ req[r].todo # <<>> /\ req[r].todo \in Seq(Times \X Kinds)
          /\ InsertEvent(req[r].place, Head(req[r].todo))
          /\ req'[r].place = req[r].place /\ req'[r].pc = "append" /\ req'[r].todo = Tail(req[r].todo)
          /\ req'[r].around = req[r].around
      BY <2>11, AppendStep
    <3>2. /\ \A p \in Places : LogOK(fixes, p, events'[p]) /\ DOMAIN events[p] \subseteq DOMAIN events'[p]
          /\ Pending(fixes, req[r].place, events'[req[r].place], Tail(req[r].todo))
      BY <2>10, <3>1
    <3>3. UnderWay(req'[r], fixes, events')
      BY <2>5, <3>1, <3>2 DEF UnderWay
    <3> QED
      BY <2>4, <3>1, <3>2, <3>3, GoesOn
  <2>12. CASE NextPlace(r)
    <3>1. /\ OnlyOf(r) /\ UNCHANGED <<fixes, events, streak, missed>>
          /\ req'[r].pc = "prior" /\ req'[r].around = req[r].around /\ req'[r].place = req[r].place + 1
      BY <2>12, NextPlaceStep
    <3>2. req[r].pc = "append" /\ req[r].todo = <<>> /\ req[r].place \in Places
      BY <2>12 DEF NextPlace, GeoTypes, ReqOK
    <3>3. UnderWay(req[r], fixes, events)
      BY <2>5, <3>1, <3>2
    <3>4. Rows(fixes, req[r].place) \subseteq DOMAIN events[req[r].place]
      BY <3>2, <3>3, NothingLeft DEF UnderWay
    <3>5. \A p \in Places : p < req[r].place + 1 => Rows(fixes, p) \subseteq DOMAIN events[p]
      <4> SUFFICES ASSUME NEW p \in Places, p < req[r].place + 1
                   PROVE  Rows(fixes, p) \subseteq DOMAIN events[p]
        OBVIOUS
      <4>1. p \in Nat /\ req[r].place \in Nat
        <5>1. Places = 1 .. Cardinality(Places) /\ Cardinality(Places) \in Nat
          BY GeofenceAssumption, FS_CardinalityType
        <5> QED
          BY <3>2, <5>1
      <4>2. p < req[r].place \/ p = req[r].place
        BY <4>1
      <4> QED
        BY <3>3, <3>4, <4>2 DEF UnderWay
    <3>6. UnderWay(req'[r], fixes, events')
      BY <3>1, <3>3, <3>5 DEF UnderWay
    <3> QED
      BY <2>4, <2>6, <3>1, <3>2, <3>6, GoesOn
  <2>13. CASE EndEvaluation(r)
    BY <2>4, <2>13, GoesThrough
  <2>14. CASE Fail(r)
    <3>1. OnlyOf(r) /\ req'[r] = Idle /\ Failed /\ UNCHANGED <<fixes, events>>
      BY <2>14, EndSteps DEF Fail
    <3>2. req[r].pc # "idle"
      BY <2>4, <2>14 DEF Fail, Healing
    <3> QED
      BY <2>4, <2>6, <3>1, <3>2, GivesUp
  <2>15. CASE FailCommitted(r)
    <3>1. OnlyOf(r) /\ req'[r] = Idle /\ Failed /\ UNCHANGED fixes
      BY <2>15, EndSteps DEF FailCommitted
    <3>2. /\ req[r].place \in Places /\ req[r].pc = "append" /\ req[r].todo # <<>>
          /\ req[r].todo \in Seq(Times \X Kinds) /\ InsertEvent(req[r].place, Head(req[r].todo))
      BY <2>15 DEF FailCommitted, GeoTypes, ReqOK
    <3>3. \A p \in Places : LogOK(fixes, p, events'[p]) /\ DOMAIN events[p] \subseteq DOMAIN events'[p]
      BY <2>10, <3>1, <3>2
    <3> QED
      BY <2>4, <3>1, <3>2, <3>3, GivesUp
  <2> QED
    BY <2>1, <2>7, <2>8, <2>9, <2>11, <2>12, <2>13, <2>14, <2>15
<1> QED
  BY <1>1, <1>2

\* A log that has caught up with every fix is the projection.
LEMMA HealedIsProjection == GeoTypes /\ HealInv => SelfHeals
<1> SUFFICES ASSUME GeoTypes, HealInv, Settled, orderly, streak = 0,
                    missed + Debounce + 2 <= Neighbours, NEW p \in Places
             PROVE  events[p] = Projection(p)
  BY DEF SelfHeals
<1>1. Healing
  BY DEF HealInv
<1>2. PICK b \in DOMAIN fixes \cup {Zero} : CaughtUp(fixes, events, b, Backlog)
  BY <1>1 DEF Healing
<1>3. Backlog = 0
  BY DEF Backlog
<1>4. DOMAIN fixes \in SUBSET Nat /\ IsFiniteSet(DOMAIN fixes)
  BY FS_Subset, GeofenceAssumption DEF GeoTypes
<1> DEFINE A == {t \in DOMAIN fixes : t > b}
<1>5. A = {}
  <2>1. Cardinality(A) <= 0
    BY <1>2, <1>3 DEF CaughtUp
  <2>2. A \in SUBSET DOMAIN fixes
    OBVIOUS
  <2> HIDE DEF A
  <2>3. IsFiniteSet(A)
    BY <1>4, <2>2, FS_Subset
  <2>4. Cardinality(A) \in Nat
    BY <2>3, FS_CardinalityType
  <2>5. Cardinality(A) = 0
    BY <2>1, <2>4
  <2> QED
    BY <2>3, <2>5, FS_EmptySet
<1>6. {t \in DOMAIN fixes : t <= b} = DOMAIN fixes
  <2>1. b \in Int
    BY <1>4 DEF Zero
  <2>2. \A t \in DOMAIN fixes : t \in Nat /\ ~(t > b)
    BY <1>4, <1>5
  <2>3. \A t \in DOMAIN fixes : t <= b
    BY <2>1, <2>2
  <2> QED
    BY <2>3
<1>7. Rows(fixes, p) \subseteq DOMAIN events[p]
  BY <1>2, <1>6 DEF CaughtUp, RowsUpTo, Rows
<1>8. LogOK(fixes, p, events[p])
  BY <1>1 DEF Healing
<1>9. events[p] = [t \in Rows(fixes, p) |-> KindAt(fixes, p, t)]
  <2>1. DOMAIN events[p] = Rows(fixes, p)
    BY <1>7, <1>8 DEF LogOK
  <2>2. events[p] = [t \in DOMAIN events[p] |-> KindAt(fixes, p, t)]
    BY <1>8 DEF LogOK
  <2> QED
    BY <2>1, <2>2
<1> QED
  BY <1>9, ProjectionIs

\* It starts with nothing to catch up with.
LEMMA HealInit == Init => HealInv
<1> SUFFICES ASSUME Init PROVE Healing
  BY GeoInit DEF HealInv
<1>0. GeoTypes
  BY GeoInit
<1>1. \A r \in Requests : req[r].pc = "idle" /\ req[r].todo = <<>>
  BY IdleOK DEF Init
<1>2. DOMAIN fixes = {} /\ streak = 0 /\ missed = 0
  BY DEF Init
<1>3. \A p \in Places : DOMAIN events[p] = {} /\ events[p] = <<>>
  BY DEF Init
<1>4. Backlog = 0
  BY <1>1, <1>2 DEF Backlog, Settled
<1>5. \A p \in Places : LogOK(fixes, p, events[p])
  <2> TAKE p \in Places
  <2>1. events[p] = [t \in DOMAIN events[p] |-> KindAt(fixes, p, t)]
    BY <1>3
  <2> QED
    BY <1>3, <2>1 DEF LogOK
<1>6. CaughtUp(fixes, events, Zero, Backlog)
  <2>1. {t \in DOMAIN fixes : t > Zero} = {} /\ {t \in DOMAIN fixes : t <= Zero} = {}
    BY <1>2
  <2>2. \A p : RowsUpTo(fixes, p, Zero) = {}
    BY <2>1 DEF RowsUpTo, Turning, Sure
  <2>3. Cardinality({t \in DOMAIN fixes : t > Zero}) = 0
    BY <2>1, FS_EmptySet
  <2> QED
    BY <1>4, <2>2, <2>3 DEF CaughtUp
<1> QED
  BY <1>1, <1>2, <1>5, <1>6 DEF Healing

\* The log of p holds nothing that the history does not amount to, and skips nothing.
PrefixOfProjection(p) ==
  \A t \in DOMAIN events[p] :
    /\ t \in DOMAIN Projection(p) /\ events[p][t] = Projection(p)[t]
    /\ \A u \in DOMAIN Projection(p) : u < t => u \in DOMAIN events[p]

\* While fixes come in order, the log is at every moment a beginning of what the
\* history amounts to: in the middle of an evaluation, after one that failed, and
\* after an insert whose acknowledgement was lost.
THEOREM LogIsAPrefix ==
  Spec => [](orderly /\ missed + Debounce + 2 <= Neighbours =>
               \A p \in Places : PrefixOfProjection(p))
<1>1. GeoTypes /\ HealInv => (orderly /\ missed + Debounce + 2 <= Neighbours =>
                                \A p \in Places : PrefixOfProjection(p))
  <2> SUFFICES ASSUME GeoTypes, HealInv, orderly, missed + Debounce + 2 <= Neighbours,
                      NEW p \in Places
               PROVE  PrefixOfProjection(p)
    OBVIOUS
  <2>1. LogOK(fixes, p, events[p])
    BY DEF HealInv, Healing
  <2>2. Projection(p) = [t \in Rows(fixes, p) |-> KindAt(fixes, p, t)]
    BY ProjectionIs
  <2>3. DOMAIN Projection(p) = Rows(fixes, p) /\ \A t \in Rows(fixes, p) : Projection(p)[t] = KindAt(fixes, p, t)
    BY <2>2
  <2>4. \A t \in DOMAIN events[p] : t \in Rows(fixes, p) /\ events[p][t] = KindAt(fixes, p, t)
    BY <2>1 DEF LogOK
  <2>5. ASSUME NEW t \in DOMAIN events[p], NEW u \in Rows(fixes, p), u < t PROVE u \in DOMAIN events[p]
    <3> SUFFICES ASSUME u \notin DOMAIN events[p] PROVE FALSE
      OBVIOUS
    <3>1. t < u
      BY <2>1 DEF LogOK
    <3>2. t \in DOMAIN fixes /\ u \in DOMAIN fixes
      BY <2>4 DEF Rows, Turning, Sure
    <3>3. t \in Nat /\ u \in Nat
      BY <3>2, GeofenceAssumption DEF GeoTypes
    <3> QED
      BY <2>5, <3>1, <3>3
  <2> QED
    BY <2>3, <2>4, <2>5 DEF PrefixOfProjection
<1>2. GeoTypes /\ HealInv /\ [Next]_vars => (GeoTypes /\ HealInv)'
  BY GeoStep, HealStep
<1> QED
  BY <1>1, <1>2, GeoInit, HealInit, PTL DEF Spec

\* "A transient failure self-heals on the next fix": while fixes come in order,
\* an evaluation that goes through leaves the log equal to what the whole history
\* amounts to, whatever evaluations failed before it and wherever, as long as the
\* neighbourhood is wide enough for the longest run of failures and one dwell.
THEOREM FailuresSelfHeal == Spec => []SelfHeals
<1>1. GeoTypes /\ HealInv /\ [Next]_vars => (GeoTypes /\ HealInv)'
  BY GeoStep, HealStep
<1> QED
  BY <1>1, GeoInit, HealInit, HealedIsProjection, PTL DEF Spec
=============================================================================
