----------------------------- MODULE AlertProofs -----------------------------
(***************************************************************************)
(* Proofs about an alert's way: the delivery ledger and the accounting of  *)
(* PushDelivery, for any number of requests, endpoints and keys and any    *)
(* bounds, and the phone's list of crossings (CrossingList), for any log.  *)
(***************************************************************************)
EXTENDS PushDelivery, CrossingList, FiniteSetTheorems, SequenceTheorems, NaturalsInduction,
        WellFoundedInduction, TLAPS
-----------------------------------------------------------------------------
(* Sequences without repetition.                                           *)

Once(s) == \A i, j \in 1 .. Len(s) : s[i] = s[j] => i = j

\* The empty sequence and a sequence of one.
LEMMA MembersOfFew ==
  /\ Members(<<>>) = {} /\ Once(<<>>)
  /\ \A x : Members(<<x>>) = {x} /\ Once(<<x>>)
BY DEF Members, Once

\* Append adds one member, and a new one is no repetition.
LEMMA MembersAppend ==
  ASSUME NEW S, NEW s \in Seq(S), NEW x \in S
  PROVE  /\ Append(s, x) \in Seq(S) /\ Append(s, x) # <<>> /\ Len(Append(s, x)) = Len(s) + 1
         /\ Members(Append(s, x)) = Members(s) \cup {x}
         /\ Once(s) /\ x \notin Members(s) => Once(Append(s, x))
<1>1. /\ Append(s, x) \in Seq(S) /\ Append(s, x) # <<>> /\ Len(Append(s, x)) = Len(s) + 1
      /\ \A i \in 1 .. Len(s) : Append(s, x)[i] = s[i]
      /\ Append(s, x)[Len(s) + 1] = x
  BY AppendProperties
<1>2. Len(s) \in Nat
  OBVIOUS
<1> DEFINE t == Append(s, x)
<1> HIDE DEF t
<1>3. \A i : i \in 1 .. Len(s) + 1 <=> i \in 1 .. Len(s) \/ i = Len(s) + 1
  BY <1>2
<1>4. Members(t) = Members(s) \cup {x}
  BY <1>1, <1>3 DEF Members, t
<1>5. ASSUME Once(s), x \notin Members(s) PROVE Once(t)
  <2> SUFFICES ASSUME NEW i \in 1 .. Len(s) + 1, NEW j \in 1 .. Len(s) + 1, t[i] = t[j]
               PROVE  i = j
    BY <1>1 DEF Once, t
  <2>1. \A k \in 1 .. Len(s) : s[k] \in Members(s) /\ t[k] = s[k]
    BY <1>1 DEF Members, t
  <2>2. t[Len(s) + 1] = x
    BY <1>1 DEF t
  <2> QED
    BY <1>3, <1>5, <2>1, <2>2 DEF Once
<1> QED
  BY <1>1, <1>4, <1>5 DEF t

\* The head and the tail share the members.
LEMMA MembersTail ==
  ASSUME NEW S, NEW s \in Seq(S), s # <<>>
  PROVE  /\ Head(s) \in S /\ Tail(s) \in Seq(S) /\ Len(Tail(s)) = Len(s) - 1
         /\ Members(s) = Members(Tail(s)) \cup {Head(s)}
         /\ Head(s) \in Members(s)
         /\ Once(s) => Once(Tail(s)) /\ Head(s) \notin Members(Tail(s))
<1>1. /\ Head(s) \in S /\ Tail(s) \in Seq(S) /\ Len(Tail(s)) = Len(s) - 1
      /\ \A i \in 1 .. Len(Tail(s)) : Tail(s)[i] = s[i + 1]
  BY HeadTailProperties
<1>2. Len(s) \in Nat /\ Len(s) >= 1 /\ Head(s) = s[1]
  OBVIOUS
<1> DEFINE t == Tail(s)
           h == Head(s)
<1> HIDE DEF t, h
<1>3. \A i \in 1 .. Len(s) : i = 1 \/ (i - 1 \in 1 .. Len(t) /\ s[i] = t[i - 1])
  <2> TAKE i \in 1 .. Len(s)
  <2>1. CASE i # 1
    <3>1. i - 1 \in 1 .. Len(t) /\ (i - 1) + 1 = i
      BY <1>1, <1>2, <2>1 DEF t
    <3>2. t[i - 1] = s[(i - 1) + 1]
      BY <1>1, <3>1 DEF t
    <3> QED
      BY <3>1, <3>2
  <2> QED
    BY <2>1
<1>4. \A i \in 1 .. Len(t) : i + 1 \in 1 .. Len(s) /\ i + 1 # 1 /\ t[i] = s[i + 1]
  BY <1>1, <1>2 DEF t
<1>5. 1 \in 1 .. Len(s) /\ s[1] = h
  BY <1>2 DEF h
<1>6. Members(s) = Members(t) \cup {h}
  <2>1. \A i \in 1 .. Len(s) : s[i] \in Members(t) \cup {h}
    BY <1>3, <1>5 DEF Members
  <2>2. \A i \in 1 .. Len(t) : t[i] \in Members(s)
    BY <1>4 DEF Members
  <2>3. h \in Members(s)
    BY <1>5 DEF Members
  <2> QED
    BY <2>1, <2>2, <2>3 DEF Members
<1>7. ASSUME Once(s) PROVE Once(t) /\ h \notin Members(t)
  <2>1. Once(t)
    <3> SUFFICES ASSUME NEW i \in 1 .. Len(t), NEW j \in 1 .. Len(t), t[i] = t[j]
                 PROVE  i = j
      BY DEF Once
    <3>1. i + 1 = j + 1
      BY <1>4, <1>7 DEF Once
    <3> QED
      BY <3>1
  <2>2. h \notin Members(t)
    <3> SUFFICES ASSUME NEW i \in 1 .. Len(t), h = t[i] PROVE FALSE
      BY DEF Members
    <3> QED
      BY <1>4, <1>5, <1>7 DEF Once
  <2> QED
    BY <2>1, <2>2
<1> QED
  BY <1>1, <1>5, <1>6, <1>7 DEF t, h, Members

\* A sequence without repetition has as many members as places.
LEMMA MembersCount ==
  ASSUME NEW S, NEW s \in Seq(S), Once(s)
  PROVE  IsFiniteSet(Members(s)) /\ Cardinality(Members(s)) = Len(s)
<1>1. Len(s) \in Nat /\ DOMAIN s = 1 .. Len(s) /\ s \in [1 .. Len(s) -> S]
  OBVIOUS
<1>2. s \in [1 .. Len(s) -> Members(s)]
  BY <1>1 DEF Members
<1>3. s \in Injection(1 .. Len(s), Members(s))
  BY <1>2 DEF Once, Injection, IsInjective
<1>4. s \in Surjection(1 .. Len(s), Members(s))
  BY <1>2 DEF Surjection, Members
<1>5. ExistsBijection(1 .. Len(s), Members(s))
  BY <1>3, <1>4 DEF ExistsBijection, Bijection
<1>6. IsFiniteSet(1 .. Len(s)) /\ Cardinality(1 .. Len(s)) = Len(s)
  <2>1. 1 \in Int /\ Len(s) \in Int
    BY <1>1
  <2>2. IsFiniteSet(1 .. Len(s)) /\
        Cardinality(1 .. Len(s)) = IF 1 > Len(s) THEN 0 ELSE Len(s) - 1 + 1
    BY <2>1, FS_Interval
  <2> QED
    BY <1>1, <2>2
<1> QED
  BY <1>5, <1>6, FS_Bijection
-----------------------------------------------------------------------------
(* The ledger.                                                             *)

\* The map and the list name the same endpoints, each once.
LedgerOK ==
  /\ order \in Seq(Endpoints) /\ Once(order) /\ Len(order) <= MaxTracked
  /\ DOMAIN pending = Members(order)
  /\ pending \in [DOMAIN pending -> [Keys -> Nat]]

\* An endpoint's keys are counts, tracked or not.
LEMMA KeysOfType ==
  ASSUME LedgerOK, NEW e
  PROVE  KeysOf(e) \in [Keys -> Nat]
BY DEF LedgerOK, KeysOf, NoKeys

\* Whatever is evicted, the endpoint just tracked is not.
LEMMA TrackedKeeps ==
  ASSUME LedgerOK, NEW e \in Endpoints
  PROVE  /\ Tracked(e) \in Seq(Endpoints) /\ Once(Tracked(e)) /\ Len(Tracked(e)) <= MaxTracked
         /\ e \in Members(Tracked(e))
         /\ Members(Tracked(e)) \subseteq Members(order) \cup {e}
<1>1. CASE e \in DOMAIN pending
  BY <1>1 DEF LedgerOK, Tracked
<1>2. CASE e \notin DOMAIN pending
  <2> DEFINE o == Append(order, e)
  <2>1. /\ o \in Seq(Endpoints) /\ Len(o) = Len(order) + 1 /\ Once(o) /\ o # <<>>
        /\ Members(o) = Members(order) \cup {e}
    BY <1>2, MembersAppend DEF LedgerOK
  <2>2. Tracked(e) = evictLocked(o)
    BY <1>2 DEF Tracked
  <2>3. Len(order) \in Nat /\ MaxTracked \in Nat /\ MaxTracked >= 1 /\ Len(order) <= MaxTracked
    BY PushDeliveryAssumption DEF LedgerOK
  <2>4. CASE ~(Len(o) > MaxTracked)
    BY <2>1, <2>2, <2>3, <2>4 DEF evictLocked
  <2>5. CASE Len(o) > MaxTracked
    <3>1. /\ Tail(o) \in Seq(Endpoints) /\ Len(Tail(o)) = Len(o) - 1 /\ Once(Tail(o))
          /\ Members(o) = Members(Tail(o)) \cup {Head(o)}
      <4> HIDE DEF o
      <4> QED BY <2>1, MembersTail
    <3>2. Head(o) # e
      <4>1. order # <<>>
        BY <2>1, <2>3, <2>5
      <4>2. Head(o) = order[1] /\ 1 \in 1 .. Len(order)
        BY <2>3, <4>1 DEF LedgerOK
      <4> QED
        BY <1>2, <4>2 DEF LedgerOK, Members
    <3>3. e \in Members(Tail(o))
      BY <2>1, <3>1, <3>2
    <3> HIDE DEF o
    <3> QED
      BY <2>1, <2>2, <2>3, <2>5, <3>1, <3>3 DEF evictLocked
  <2> QED
    BY <2>4, <2>5
<1> QED
  BY <1>1, <1>2

\* A classification tracks the endpoint and counts its key.
LEMMA ClassifyLedger ==
  ASSUME LedgerOK, NEW d \in Delivery, Classify(d)
  PROVE  LedgerOK'
<1>1. d.ep \in Endpoints /\ d.key \in Keys
  BY DEF Delivery
<1>2. order' = Tracked(d.ep)
  BY DEF Classify
<1>3. /\ order' \in Seq(Endpoints) /\ Once(order') /\ Len(order') <= MaxTracked
      /\ Members(order') \subseteq Members(order) \cup {d.ep}
  BY <1>1, <1>2, TrackedKeeps
<1>4. DOMAIN pending' = Members(order')
  BY DEF Classify
<1>5. ASSUME NEW e \in Members(order') PROVE pending'[e] \in [Keys -> Nat]
  <2>1. CASE e # d.ep
    BY <1>3, <1>5, <2>1 DEF Classify, LedgerOK
  <2>2. CASE e = d.ep
    <3>1. KeysOf(e) \in [Keys -> Nat]
      BY KeysOfType
    <3>2. [KeysOf(e) EXCEPT ![d.key] = @ + 1] \in [Keys -> Nat]
      BY <1>1, <3>1
    <3> QED
      BY <1>5, <2>2, <3>1, <3>2 DEF Classify
  <2> QED
    BY <2>1, <2>2
<1>6. pending' \in [DOMAIN pending' -> [Keys -> Nat]]
  <2>1. pending' = [e \in DOMAIN pending' |-> pending'[e]]
    BY DEF Classify
  <2> QED
    BY <1>4, <1>5, <2>1
<1> QED
  BY <1>3, <1>4, <1>6 DEF LedgerOK

\* A delivery taken back keeps its endpoint tracked.
LEMMA NotHandedOverLedger ==
  ASSUME LedgerOK, NEW d \in Delivery, NotHandedOver(d)
  PROVE  LedgerOK'
<1>1. order' = order
  BY DEF NotHandedOver
<1>2. CASE pending' = pending
  BY <1>1, <1>2 DEF LedgerOK
<1>3. CASE /\ d.ep \in DOMAIN pending /\ pending[d.ep][d.key] > 0
           /\ pending' = [pending EXCEPT ![d.ep][d.key] = @ - 1]
  <2>1. d.key \in Keys /\ pending[d.ep] \in [Keys -> Nat]
    BY <1>3 DEF Delivery, LedgerOK
  <2>2. [pending[d.ep] EXCEPT ![d.key] = @ - 1] \in [Keys -> Nat]
    BY <1>3, <2>1
  <2> QED
    BY <1>1, <1>3, <2>2 DEF LedgerOK
<1> QED
  BY <1>2, <1>3 DEF NotHandedOver

\* A forgotten endpoint leaves both.
LEMMA ForgetLedger ==
  ASSUME LedgerOK, NEW e, forget(e)
  PROVE  LedgerOK' /\ DOMAIN pending' = DOMAIN pending \ {e}
         /\ \A x \in DOMAIN pending' : pending'[x] = pending[x]
<1>1. CASE e \notin DOMAIN pending
  BY <1>1 DEF forget, LedgerOK
<1>2. CASE e \in DOMAIN pending
  <2> DEFINE first(j) == order[j] = e /\ \A k \in 1 .. j - 1 : order[k] # e
             i == CHOOSE j \in 1 .. Len(order) : first(j)
  <2>1. Len(order) \in Nat /\ order \in [1 .. Len(order) -> Endpoints]
    BY DEF LedgerOK
  <2>2. PICK p \in 1 .. Len(order) : order[p] = e
    BY <1>2 DEF LedgerOK, Members
  <2>3. \A k \in 1 .. Len(order) : order[k] = e => k = p
    BY <2>2 DEF LedgerOK, Once
  <2>4. first(p)
    <3>1. \A k \in 1 .. p - 1 : k \in 1 .. Len(order) /\ k # p
      BY <2>1
    <3> QED
      BY <2>2, <2>3, <3>1
  <2>5. i \in 1 .. Len(order) /\ i = p
    BY <2>2, <2>3, <2>4
  <2>6. /\ order' = [j \in 1 .. Len(order) - 1 |-> order[IF j < i THEN j ELSE j + 1]]
        /\ pending' = Without(pending, e)
    BY <1>2 DEF forget, OrderWithout
  <2> HIDE DEF i, first
  <2> DEFINE from(j) == IF j < p THEN j ELSE j + 1
  <2>7. \A j \in 1 .. Len(order) - 1 : from(j) \in 1 .. Len(order) /\ from(j) # p
    BY <2>1
  <2>8. \A j, k \in 1 .. Len(order) - 1 : from(j) = from(k) => j = k
    BY <2>1
  <2>9. \A k \in 1 .. Len(order) : k # p => \E j \in 1 .. Len(order) - 1 : from(j) = k
    <3> SUFFICES ASSUME NEW k \in 1 .. Len(order), k # p
                 PROVE  \E j \in 1 .. Len(order) - 1 : from(j) = k
      OBVIOUS
    <3>1. CASE k < p
      <4>1. k \in 1 .. Len(order) - 1 /\ from(k) = k
        BY <2>1, <3>1
      <4> QED
        BY <4>1
    <3>2. CASE k > p
      <4>1. k - 1 \in 1 .. Len(order) - 1 /\ from(k - 1) = k
        BY <2>1, <3>2
      <4> QED
        BY <4>1
    <3> QED
      BY <2>1, <3>1, <3>2
  <2>10. order' = [j \in 1 .. Len(order) - 1 |-> order[from(j)]]
    BY <2>5, <2>6
  <2> HIDE DEF from
  <2>11. Len(order) - 1 \in Nat
    BY <2>1, <2>2
  <2>12. order' \in Seq(Endpoints) /\ Len(order') = Len(order) - 1
    BY <2>1, <2>7, <2>10, <2>11
  <2>13. Once(order')
    BY <2>7, <2>8, <2>10, <2>12 DEF Once, LedgerOK
  <2>14. Members(order') = Members(order) \ {e}
    <3>1. \A j \in 1 .. Len(order) - 1 : order'[j] \in Members(order) /\ order'[j] # e
      BY <2>3, <2>7, <2>10 DEF Members
    <3>2. \A k \in 1 .. Len(order) : order[k] # e => \E j \in 1 .. Len(order) - 1 : order'[j] = order[k]
      BY <2>2, <2>9, <2>10
    <3> QED
      BY <2>12, <3>1, <3>2 DEF Members
  <2>15. MaxTracked \in Nat /\ Len(order) <= MaxTracked
    BY PushDeliveryAssumption DEF LedgerOK
  <2>16. Len(order') <= MaxTracked
    BY <2>1, <2>12, <2>15
  <2>17. DOMAIN pending' = DOMAIN pending \ {e} /\ \A x \in DOMAIN pending' : pending'[x] = pending[x]
    BY <2>6 DEF Without
  <2>18. pending' \in [DOMAIN pending' -> [Keys -> Nat]]
    BY <2>6, <2>17 DEF Without, LedgerOK
  <2> QED
    BY <2>12, <2>13, <2>14, <2>16, <2>17, <2>18 DEF LedgerOK
<1> QED
  BY <1>1, <1>2
-----------------------------------------------------------------------------
(* The types, and what each program counter says of what is in hand.       *)

NotifierType ==
  [pc : {"idle", "classify", "enqueue"}, events : Seq(Keys), fanout : SUBSET Endpoints,
   left : SUBSET Endpoints, made : Seq(Delivery)]

WorkerType == [pc : {"idle", "send", "exited"}, job : Seq(Delivery), attempt : Nat]

RegistrarType ==
  [pc : {"idle", "stored", "reset", "removed"}, ep : Endpoints \cup {Nothing},
   old : Endpoints \cup {Nothing}]

\* An activation that classifies has crossings left, one that enqueues has
\* deliveries left, and an idle one has none.
NotifierReady(a) ==
  /\ a \in NotifierType
  /\ a.pc = "classify" => a.events # <<>>
  /\ a.pc = "enqueue" => a.made # <<>>
  /\ a.pc = "idle" => a.made = <<>>

WorkerReady(w) ==
  /\ w \in WorkerType
  /\ w.pc = "send" => Len(w.job) = 1
  /\ w.pc # "send" => w.job = <<>>

PushTypes ==
  /\ LedgerOK
  /\ queue \in Seq(Delivery)
  /\ WorkerReady(worker)
  /\ DOMAIN nt = Notifiers /\ \A n \in Notifiers : NotifierReady(nt[n])
  /\ nt = [n \in Notifiers |-> nt[n]]
  /\ rg \in [Registrars -> RegistrarType]
  /\ subs \subseteq Endpoints
  /\ phase \in {"serving", "draining", "closed", "ended"}
  /\ log \subseteq (Delivery \X (Outcome \cup {"dropped"}))
  /\ issued \in Nat /\ calls \in Nat /\ registered \in Nat
  /\ credit \subseteq Delivery /\ panicked \subseteq Delivery

\* The type invariant is the visible part of it.
LEMMA PushTypesImplyTypeOK == PushTypes => TypeOK
<1> SUFFICES ASSUME PushTypes PROVE TypeOK
  OBVIOUS
<1>1. DOMAIN pending \subseteq Endpoints
  BY DEF PushTypes, LedgerOK, Members
<1>2. nt \in [Notifiers -> NotifierType]
  <2>1. \A n \in Notifiers : nt[n] \in NotifierType
    BY DEF PushTypes, NotifierReady
  <2>2. nt = [n \in Notifiers |-> nt[n]]
    BY DEF PushTypes
  <2> QED
    BY <2>1, <2>2
<1> QED
  BY <1>1, <1>2 DEF PushTypes, TypeOK, LedgerOK, NotifierType, WorkerType, RegistrarType, WorkerReady

\* An idle activation is in order.
LEMMA IdleReady == NotifierReady(NotifierIdle) /\ WorkerReady(WorkerIdle) /\ RegistrarIdle \in RegistrarType
<1>1. <<>> \in Seq(Keys) /\ <<>> \in Seq(Delivery)
  OBVIOUS
<1>2. NotifierReady(NotifierIdle)
  BY <1>1 DEF NotifierReady, NotifierIdle, NotifierType
<1>3. WorkerReady(WorkerIdle)
  BY <1>1 DEF WorkerReady, WorkerIdle, WorkerType
<1> QED
  BY <1>2, <1>3 DEF RegistrarIdle, RegistrarType

\* Replacing one activation leaves the others.
LEMMA NotifierStep ==
  ASSUME PushTypes, NEW n \in Notifiers, NEW a, NotifierReady(a), nt' = [nt EXCEPT ![n] = a]
  PROVE  /\ DOMAIN nt' = Notifiers /\ \A m \in Notifiers : NotifierReady(nt'[m])
         /\ nt' = [m \in Notifiers |-> nt'[m]]
         /\ nt'[n] = a /\ \A m \in Notifiers \ {n} : nt'[m] = nt[m]
<1>1. /\ DOMAIN nt' = Notifiers /\ nt' = [m \in Notifiers |-> nt'[m]]
      /\ nt'[n] = a /\ \A m \in Notifiers \ {n} : nt'[m] = nt[m]
  BY DEF PushTypes
<1> QED
  BY <1>1 DEF PushTypes

\* Enqueue and its refusals take the first delivery off the activation.
LEMMA NextMadeStep ==
  ASSUME PushTypes, NEW n \in Notifiers, nt[n].pc = "enqueue", NextMade(n)
  PROVE  /\ DOMAIN nt' = Notifiers /\ \A m \in Notifiers : NotifierReady(nt'[m])
         /\ nt' = [m \in Notifiers |-> nt'[m]]
         /\ nt'[n].made = Tail(nt[n].made) /\ \A m \in Notifiers \ {n} : nt'[m] = nt[m]
         /\ nt[n].made \in Seq(Delivery) /\ nt[n].made # <<>>
         /\ Head(nt[n].made) \in Delivery
<1> DEFINE b == [nt[n] EXCEPT !.made = Tail(nt[n].made)]
           a == IF Len(nt[n].made) = 1 THEN NotifierIdle ELSE b
<1>1. nt[n] \in NotifierType /\ nt[n].made # <<>> /\ nt[n].made \in Seq(Delivery)
  BY DEF PushTypes, NotifierReady, NotifierType
<1>2. /\ Tail(nt[n].made) \in Seq(Delivery) /\ Len(Tail(nt[n].made)) = Len(nt[n].made) - 1
      /\ Head(nt[n].made) \in Delivery
  BY <1>1, MembersTail
<1>3. Len(nt[n].made) \in Nat /\ Len(nt[n].made) >= 1
  BY <1>1
<1>6. nt' = [nt EXCEPT ![n] = a]
  BY DEF NextMade
<1>4. CASE Len(nt[n].made) = 1
  <2>1. Tail(nt[n].made) = <<>>
    <3>1. Len(Tail(nt[n].made)) = 0
      BY <1>2, <1>4
    <3> QED
      BY <1>2, <3>1, EmptySeq
  <2>2. a.made = Tail(nt[n].made) /\ NotifierReady(a)
    BY <1>4, <2>1, IdleReady DEF NotifierIdle
  <2> HIDE DEF a
  <2> QED
    BY <1>1, <1>2, <1>6, <2>2, NotifierStep
<1>5. CASE Len(nt[n].made) # 1
  <2>1. Tail(nt[n].made) # <<>>
    <3>1. Len(Tail(nt[n].made)) # 0
      BY <1>2, <1>3, <1>5
    <3> QED
      BY <1>2, <3>1, EmptySeq
  <2>2. b \in NotifierType /\ b.pc = "enqueue" /\ b.made = Tail(nt[n].made)
    BY <1>1, <1>2 DEF NotifierType
  <2>3. NotifierReady(b) /\ a = b
    BY <1>5, <2>1, <2>2 DEF NotifierReady
  <2>4. nt' = [nt EXCEPT ![n] = b]
    BY <1>6, <2>3
  <2> HIDE DEF a, b
  <2> QED
    BY <1>1, <1>2, <2>2, <2>3, <2>4, NotifierStep
<1> QED
  BY <1>4, <1>5
-----------------------------------------------------------------------------
(* What a step does to the deliveries in hand, to the ledger and to the    *)
(* log, told apart into six moves and stillness.                           *)

Others(n) == \A m \in Notifiers \ {n} : nt'[m].made = nt[m].made

Hands == \A m \in Notifiers : nt'[m].made = nt[m].made

\* A delivery is made.
Makes(n, d) ==
  /\ d \in Delivery /\ d.id = issued /\ d.bound = Bound(d.ep) /\ Classify(d)
  /\ nt'[n].made = Append(nt[n].made, d) /\ Others(n)
  /\ issued' = issued + 1 /\ UNCHANGED <<queue, worker, log, panicked>>

\* An activation lets its first delivery go: into the queue, or dropped.
Hands1(n) ==
  /\ nt[n].made \in Seq(Delivery) /\ nt[n].made # <<>>
  /\ nt'[n].made = Tail(nt[n].made) /\ Others(n)

Offers(n) ==
  /\ Hands1(n) /\ queue' = Append(queue, Head(nt[n].made))
  /\ UNCHANGED <<ledger, worker, log, panicked, issued>>

Refuses(n) ==
  /\ Hands1(n) /\ Drop(Head(nt[n].made))
  /\ UNCHANGED <<queue, worker, panicked, issued>>

Panics(n) ==
  /\ nt'[n].made = <<>> /\ Others(n) /\ panicked' = panicked \cup Members(nt[n].made)
  /\ UNCHANGED <<ledger, queue, worker, log, issued>>

Takes ==
  /\ Hands /\ worker.job = <<>> /\ queue # <<>>
  /\ worker'.job = <<Head(queue)>> /\ queue' = Tail(queue)
  /\ UNCHANGED <<ledger, log, panicked, issued>>

\* The worker lets its delivery go: taken by the backend, or dropped.
Finishes(d) ==
  /\ Hands /\ d \in Delivery /\ worker.job = <<d>> /\ worker'.job = <<>>
  /\ (Drop(d) \/ (Record(d, d.bound) /\ UNCHANGED ledger))
  /\ UNCHANGED <<queue, panicked, issued>>

Forgets(e) == Hands /\ forget(e) /\ UNCHANGED <<queue, worker, log, panicked, issued>>

Rests ==
  /\ Hands /\ worker'.job = worker.job /\ UNCHANGED <<ledger, queue, log, panicked, issued>>

Move ==
  \/ \E n \in Notifiers : (\E d \in Delivery : Makes(n, d)) \/ Offers(n) \/ Refuses(n) \/ Panics(n)
  \/ Takes \/ (\E d \in Delivery : Finishes(d)) \/ (\E e \in Endpoints \cup {Nothing} : Forgets(e)) \/ Rests

\* A delivery dropped keeps the ledger and the log in order.
LEMMA DropTypes ==
  ASSUME PushTypes, NEW d \in Delivery, Drop(d)
  PROVE  /\ LedgerOK' /\ credit' = credit
         /\ log' \subseteq (Delivery \X (Outcome \cup {"dropped"}))
<1>1. LedgerOK'
  BY NotHandedOverLedger DEF Drop, PushTypes
<1> QED
  BY <1>1 DEF Drop, NotHandedOver, Record, PushTypes

\* A forgotten endpoint takes its credit along.
LEMMA ForgetTypes ==
  ASSUME PushTypes, NEW e, forget(e)
  PROVE  LedgerOK' /\ credit' \subseteq Delivery
<1>1. LedgerOK'
  BY ForgetLedger DEF PushTypes
<1> QED
  BY <1>1 DEF forget, PushTypes

\* The steps of a notifier.
LEMMA NotifierMoves ==
  ASSUME PushTypes, NEW n \in Notifiers, Lookup(n) \/ Notify(n)
  PROVE  PushTypes' /\ Move
<1> USE DEF PushTypes
<1>1. CASE Lookup(n)
  <2>1. PICK len \in 1 .. MaxEvents : \E evs \in [1 .. len -> Keys] :
          nt' = [nt EXCEPT ![n] = [pc |-> "classify", events |-> evs, fanout |-> subs,
                                   left |-> subs, made |-> <<>>]]
    BY <1>1 DEF Lookup
  <2>2. PICK evs \in [1 .. len -> Keys] :
          nt' = [nt EXCEPT ![n] = [pc |-> "classify", events |-> evs, fanout |-> subs,
                                   left |-> subs, made |-> <<>>]]
    BY <2>1
  <2> DEFINE a == [pc |-> "classify", events |-> evs, fanout |-> subs, left |-> subs, made |-> <<>>]
  <2>4. evs \in Seq(Keys) /\ evs # <<>>
    <3>1. len \in Nat /\ len >= 1
      BY PushDeliveryAssumption
    <3>2. evs \in Seq(Keys) /\ Len(evs) = len
      BY <3>1
    <3> QED
      BY <3>1, <3>2
  <2>5. <<>> \in Seq(Delivery)
    OBVIOUS
  <2>6. NotifierReady(a)
    BY <2>4, <2>5 DEF NotifierReady, NotifierType
  <2>7. nt' = [nt EXCEPT ![n] = a] /\ a.made = <<>>
    BY <2>2
  <2>8. nt[n].made = <<>>
    BY <1>1 DEF Lookup, NotifierReady
  <2> HIDE DEF a, PushTypes
  <2>9. /\ DOMAIN nt' = Notifiers /\ \A m \in Notifiers : NotifierReady(nt'[m])
        /\ nt' = [m \in Notifiers |-> nt'[m]]
        /\ nt'[n] = a /\ \A m \in Notifiers \ {n} : nt'[m] = nt[m]
    BY <2>6, <2>7, NotifierStep
  <2>10. calls' \in Nat
    BY <1>1 DEF Lookup, PushTypes
  <2>11. PushTypes'
    BY <1>1, <2>9, <2>10 DEF Lookup, PushTypes, ledger, LedgerOK
  <2>12. Hands
    BY <2>7, <2>8, <2>9 DEF Hands
  <2>13. Rests
    BY <1>1, <2>12 DEF Rests, Lookup
  <2> QED
    BY <2>11, <2>13 DEF Move
<1>2. CASE ClassifyNext(n)
  <2> DEFINE dl(e) == [id |-> issued, ep |-> e, key |-> Head(nt[n].events), bound |-> Bound(e)]
             ev(e) == IF nt[n].left # {e} THEN nt[n].events ELSE Tail(nt[n].events)
             ac(e) == [pc |-> IF ev(e) = <<>> THEN "enqueue" ELSE "classify",
                       events |-> ev(e),
                       fanout |-> nt[n].fanout,
                       left |-> IF nt[n].left # {e} THEN nt[n].left \ {e} ELSE nt[n].fanout,
                       made |-> Append(nt[n].made, dl(e))]
  <2>1. PICK e \in nt[n].left : Classify(dl(e)) /\ nt' = [nt EXCEPT ![n] = ac(e)]
    BY <1>2 DEF ClassifyNext
  <2>2. /\ nt[n] \in NotifierType /\ nt[n].events # <<>> /\ nt[n].events \in Seq(Keys)
        /\ nt[n].fanout \subseteq Endpoints /\ nt[n].left \subseteq Endpoints
        /\ nt[n].made \in Seq(Delivery)
    BY <1>2 DEF ClassifyNext, NotifierReady, NotifierType
  <2>3. Head(nt[n].events) \in Keys /\ Tail(nt[n].events) \in Seq(Keys)
    BY <2>2
  <2>4. dl(e) \in Delivery /\ dl(e).id = issued /\ dl(e).ep = e /\ dl(e).bound = Bound(e)
    BY <2>2, <2>3 DEF Delivery, Outcome, Bound
  <2> DEFINE d == dl(e)
  <2> HIDE DEF d, dl
  <2>5. d \in Delivery /\ d.id = issued /\ d.bound = Bound(d.ep) /\ Classify(d)
    BY <2>1, <2>4 DEF d
  <2>6. Append(nt[n].made, d) \in Seq(Delivery) /\ Append(nt[n].made, d) # <<>>
    BY <2>2, <2>5, MembersAppend
  <2>7. /\ ev(e) \in Seq(Keys)
        /\ (IF nt[n].left # {e} THEN nt[n].left \ {e} ELSE nt[n].fanout) \subseteq Endpoints
    BY <2>2, <2>3
  <2> HIDE DEF ev
  <2>8. NotifierReady(ac(e)) /\ ac(e).made = Append(nt[n].made, d)
    BY <2>6, <2>7 DEF NotifierReady, NotifierType, d
  <2> HIDE DEF ac, PushTypes
  <2>9. /\ DOMAIN nt' = Notifiers /\ \A m \in Notifiers : NotifierReady(nt'[m])
        /\ nt' = [m \in Notifiers |-> nt'[m]]
        /\ nt'[n] = ac(e) /\ \A m \in Notifiers \ {n} : nt'[m] = nt[m]
    BY <2>1, <2>8, NotifierStep
  <2>10. LedgerOK'
    BY <2>5, ClassifyLedger DEF PushTypes
  <2>11. credit' \subseteq Delivery
    BY <2>5 DEF Classify, PushTypes
  <2>12. issued' = issued + 1 /\ issued' \in Nat
    BY <1>2 DEF ClassifyNext, PushTypes
  <2>13. PushTypes'
    BY <1>2, <2>9, <2>10, <2>11, <2>12 DEF ClassifyNext, PushTypes, counters
  <2>14. Makes(n, d)
    BY <1>2, <2>5, <2>8, <2>9, <2>12 DEF Makes, Others, ClassifyNext
  <2> QED
    BY <2>5, <2>13, <2>14 DEF Move
<1>3. CASE Enqueue(n)
  <2> HIDE DEF PushTypes
  <2>1. /\ DOMAIN nt' = Notifiers /\ \A m \in Notifiers : NotifierReady(nt'[m])
        /\ nt' = [m \in Notifiers |-> nt'[m]]
        /\ nt'[n].made = Tail(nt[n].made) /\ \A m \in Notifiers \ {n} : nt'[m] = nt[m]
        /\ nt[n].made \in Seq(Delivery) /\ nt[n].made # <<>>
        /\ Head(nt[n].made) \in Delivery
    BY <1>3, NextMadeStep DEF Enqueue
  <2>2. queue' \in Seq(Delivery)
    BY <1>3, <2>1, MembersAppend DEF Enqueue, PushTypes
  <2>3. PushTypes'
    BY <1>3, <2>1, <2>2 DEF Enqueue, PushTypes, counters, ledger, LedgerOK
  <2>4. Offers(n)
    BY <1>3, <2>1 DEF Offers, Hands1, Others, Enqueue
  <2> QED
    BY <2>3, <2>4 DEF Move
<1>4. CASE EnqueueFull(n)
  <2> HIDE DEF PushTypes
  <2>1. /\ DOMAIN nt' = Notifiers /\ \A m \in Notifiers : NotifierReady(nt'[m])
        /\ nt' = [m \in Notifiers |-> nt'[m]]
        /\ nt'[n].made = Tail(nt[n].made) /\ \A m \in Notifiers \ {n} : nt'[m] = nt[m]
        /\ nt[n].made \in Seq(Delivery) /\ nt[n].made # <<>>
        /\ Head(nt[n].made) \in Delivery
    BY <1>4, NextMadeStep DEF EnqueueFull
  <2>2. /\ LedgerOK' /\ credit' = credit
        /\ log' \subseteq (Delivery \X (Outcome \cup {"dropped"}))
    BY <1>4, <2>1, DropTypes DEF EnqueueFull
  <2>3. PushTypes'
    BY <1>4, <2>1, <2>2 DEF EnqueueFull, PushTypes, counters
  <2>4. Refuses(n)
    BY <1>4, <2>1 DEF Refuses, Hands1, Others, EnqueueFull
  <2> QED
    BY <2>3, <2>4 DEF Move
<1>5. CASE EnqueuePanic(n)
  <2>1. nt[n].made \in Seq(Delivery)
    BY DEF NotifierReady, NotifierType
  <2>2. panicked' \subseteq Delivery
    <3>1. \A i \in 1 .. Len(nt[n].made) : nt[n].made[i] \in Delivery
      BY <2>1
    <3> QED
      BY <1>5, <3>1 DEF EnqueuePanic, Members
  <2> HIDE DEF PushTypes
  <2>3. nt' = [nt EXCEPT ![n] = NotifierIdle] /\ NotifierReady(NotifierIdle) /\ NotifierIdle.made = <<>>
    BY <1>5, IdleReady DEF EnqueuePanic, NotifierIdle
  <2>4. /\ DOMAIN nt' = Notifiers /\ \A m \in Notifiers : NotifierReady(nt'[m])
        /\ nt' = [m \in Notifiers |-> nt'[m]]
        /\ nt'[n] = NotifierIdle /\ \A m \in Notifiers \ {n} : nt'[m] = nt[m]
    BY <2>3, NotifierStep
  <2>5. PushTypes'
    BY <1>5, <2>2, <2>4 DEF EnqueuePanic, PushTypes, counters, ledger, LedgerOK
  <2>6. Panics(n)
    BY <1>5, <2>3, <2>4 DEF Panics, Others, EnqueuePanic
  <2> QED
    BY <2>5, <2>6 DEF Move
<1> QED
  BY <1>1, <1>2, <1>3, <1>4, <1>5 DEF Notify

\* The worker's steps.
LEMMA WorkerMoves ==
  ASSUME PushTypes, Worker
  PROVE  PushTypes' /\ Move
<1> USE DEF PushTypes
<1>0. worker \in WorkerType /\ worker.job \in Seq(Delivery)
  BY DEF WorkerReady, WorkerType
<1>1. CASE Take
  <2>1. Head(queue) \in Delivery /\ Tail(queue) \in Seq(Delivery)
    BY <1>1, MembersTail DEF Take
  <2>2. <<Head(queue)>> \in Seq(Delivery) /\ Len(<<Head(queue)>>) = 1
    BY <2>1
  <2>3. WorkerReady(worker') /\ worker'.job = <<Head(queue)>> /\ worker.job = <<>>
    BY <1>1, <2>2 DEF Take, WorkerReady, WorkerType
  <2>4. PushTypes'
    BY <1>1, <2>1, <2>3 DEF Take, counters, ledger, LedgerOK
  <2>5. Takes
    BY <1>1, <2>3 DEF Takes, Take, Hands
  <2> QED
    BY <2>4, <2>5 DEF Move
<1>2. ASSUME worker.pc = "send" PROVE Job \in Delivery /\ worker.job = <<Job>>
  BY <1>0, <1>2 DEF Job, WorkerReady
<1>3. WorkerReady(WorkerIdle) /\ WorkerIdle.job = <<>>
  BY IdleReady DEF WorkerIdle
<1>4. CASE SendOK
  <2>1. Job \in Delivery /\ worker.job = <<Job>> /\ Job.bound \in Outcome
    BY <1>2, <1>4 DEF SendOK, Delivery
  <2>2. log' \subseteq (Delivery \X (Outcome \cup {"dropped"}))
    BY <1>4, <2>1 DEF SendOK, Record
  <2>3. PushTypes'
    BY <1>3, <1>4, <2>2 DEF SendOK, counters, ledger, LedgerOK
  <2>4. Finishes(Job)
    BY <1>3, <1>4, <2>1 DEF Finishes, Hands, SendOK
  <2> QED
    BY <2>1, <2>3, <2>4 DEF Move
<1>5. CASE SendRetry
  <2>1. WorkerReady(worker') /\ worker'.job = worker.job
    BY <1>0, <1>5 DEF SendRetry, WorkerReady, WorkerType
  <2>2. PushTypes'
    BY <1>5, <2>1 DEF SendRetry, counters, ledger, LedgerOK
  <2>3. Rests
    BY <1>5, <2>1 DEF Rests, Hands, SendRetry
  <2> QED
    BY <2>2, <2>3 DEF Move
<1>6. CASE SendDrop
  <2>1. Job \in Delivery /\ worker.job = <<Job>>
    BY <1>2, <1>6 DEF SendDrop
  <2>2. /\ LedgerOK' /\ credit' = credit
        /\ log' \subseteq (Delivery \X (Outcome \cup {"dropped"}))
    BY <1>6, <2>1, DropTypes DEF SendDrop
  <2>3. PushTypes'
    BY <1>3, <1>6, <2>2 DEF SendDrop, counters
  <2>4. Finishes(Job)
    BY <1>3, <1>6, <2>1 DEF Finishes, Hands, SendDrop
  <2> QED
    BY <2>1, <2>3, <2>4 DEF Move
<1>7. CASE Exit
  <2> DEFINE w == [pc |-> "exited", job |-> <<>>, attempt |-> 0]
  <2>1. worker' = w
    BY <1>7 DEF Exit, WorkerIdle
  <2>2. WorkerReady(w) /\ w.job = worker.job
    BY <1>0, <1>7 DEF WorkerReady, WorkerType, Exit
  <2>3. PushTypes'
    BY <1>7, <2>1, <2>2 DEF Exit, counters, ledger, LedgerOK
  <2>4. Rests
    BY <1>7, <2>1, <2>2 DEF Rests, Hands, Exit
  <2> QED
    BY <2>3, <2>4 DEF Move
<1> QED
  BY <1>1, <1>4, <1>5, <1>6, <1>7 DEF Worker

\* A registrar's steps, the way out, and stuttering.
LEMMA OtherMoves ==
  ASSUME PushTypes,
         (\E r \in Registrars : Register(r) \/ Registrar(r)) \/ Shutdown \/ Close \/ End \/ UNCHANGED vars
  PROVE  PushTypes' /\ Move
<1> USE DEF PushTypes
<1>1. ASSUME NEW r \in Registrars, Register(r) PROVE PushTypes' /\ Move
  <2>1. PICK e \in Endpoints, old \in Endpoints \cup {Nothing} :
          /\ subs' = subs \cup {e}
          /\ rg' = [rg EXCEPT ![r] = [pc |-> "stored", ep |-> e, old |-> old]]
    BY <1>1 DEF Register
  <2>2. [pc |-> "stored", ep |-> e, old |-> old] \in RegistrarType
    BY DEF RegistrarType
  <2>3. rg' \in [Registrars -> RegistrarType] /\ subs' \subseteq Endpoints /\ registered' \in Nat
    BY <1>1, <2>1, <2>2 DEF Register
  <2>4. PushTypes'
    BY <1>1, <2>3 DEF Register, ledger, LedgerOK
  <2>5. Rests
    BY <1>1 DEF Rests, Hands, Register
  <2> QED
    BY <2>4, <2>5 DEF Move
<1>2. ASSUME NEW r \in Registrars PROVE rg[r] \in RegistrarType /\ RegistrarIdle \in RegistrarType
            /\ rg[r].ep \in Endpoints \cup {Nothing} /\ rg[r].old \in Endpoints \cup {Nothing}
  BY IdleReady DEF RegistrarType
<1>3. ASSUME NEW r \in Registrars, EndpointRegistered(r) PROVE PushTypes' /\ Move
  <2>1. LedgerOK' /\ credit' \subseteq Delivery
    BY <1>3, ForgetTypes DEF EndpointRegistered
  <2>2. [rg[r] EXCEPT !.pc = "reset"] \in RegistrarType
    BY <1>2 DEF RegistrarType
  <2>3. rg' \in [Registrars -> RegistrarType]
    BY <1>2, <1>3, <2>2 DEF EndpointRegistered
  <2>4. PushTypes'
    BY <1>3, <2>1, <2>3 DEF EndpointRegistered, counters
  <2>5. Forgets(rg[r].ep)
    BY <1>3 DEF Forgets, Hands, EndpointRegistered
  <2> QED
    BY <1>2, <2>4, <2>5 DEF Move
<1>4. ASSUME NEW r \in Registrars, Supersede(r) PROVE PushTypes' /\ Move
  <2>1. [rg[r] EXCEPT !.pc = "removed"] \in RegistrarType
    BY <1>2 DEF RegistrarType
  <2>2. rg' \in [Registrars -> RegistrarType] /\ subs' \subseteq Endpoints
    <3>1. CASE rg' = [rg EXCEPT ![r].pc = "removed"] /\ subs' = subs \ {rg[r].old}
      BY <2>1, <3>1
    <3>2. CASE rg' = [rg EXCEPT ![r] = RegistrarIdle] /\ subs' = subs
      BY <1>2, <3>2
    <3> QED
      BY <1>4, <3>1, <3>2 DEF Supersede
  <2>3. PushTypes'
    BY <1>4, <2>2 DEF Supersede, counters, ledger, LedgerOK
  <2>4. Rests
    BY <1>4 DEF Rests, Hands, Supersede
  <2> QED
    BY <2>3, <2>4 DEF Move
<1>5. ASSUME NEW r \in Registrars, EndpointRemoved(r) PROVE PushTypes' /\ Move
  <2>1. LedgerOK' /\ credit' \subseteq Delivery
    BY <1>5, ForgetTypes DEF EndpointRemoved
  <2>2. rg' \in [Registrars -> RegistrarType]
    BY <1>2, <1>5 DEF EndpointRemoved
  <2>3. PushTypes'
    BY <1>5, <2>1, <2>2 DEF EndpointRemoved, counters
  <2>4. Forgets(rg[r].old)
    BY <1>5 DEF Forgets, Hands, EndpointRemoved
  <2> QED
    BY <1>2, <2>3, <2>4 DEF Move
<1>6. CASE Shutdown
  <2>1. PushTypes'
    BY <1>6 DEF Shutdown, counters, ledger, LedgerOK
  <2>2. Rests
    BY <1>6 DEF Rests, Hands, Shutdown
  <2> QED
    BY <2>1, <2>2 DEF Move
<1>7. CASE Close
  <2>1. PushTypes'
    BY <1>7 DEF Close, counters, ledger, LedgerOK
  <2>2. Rests
    BY <1>7 DEF Rests, Hands, Close
  <2> QED
    BY <2>1, <2>2 DEF Move
<1>8. CASE End
  <2>1. PushTypes'
    BY <1>8 DEF End, counters, ledger, LedgerOK
  <2>2. Rests
    BY <1>8 DEF Rests, Hands, End
  <2> QED
    BY <2>1, <2>2 DEF Move
<1>9. CASE UNCHANGED vars
  <2>1. PushTypes'
    BY <1>9 DEF vars, LedgerOK
  <2>2. Rests
    BY <1>9 DEF vars, Rests, Hands, ledger
  <2> QED
    BY <2>1, <2>2 DEF Move
<1> QED
  BY <1>1, <1>3, <1>4, <1>5, <1>6, <1>7, <1>8, <1>9 DEF Registrar

\* Every step of the specification is one of the moves.
LEMMA EveryStepIsAMove == PushTypes /\ [Next]_vars => PushTypes' /\ Move
BY NotifierMoves, WorkerMoves, OtherMoves DEF Next

\* It starts with nothing in hand.
LEMMA PushInit == Init => PushTypes
<1> SUFFICES ASSUME Init PROVE PushTypes
  OBVIOUS
<1> USE DEF Init
<1>1. LedgerOK
  <2>1. order \in Seq(Endpoints) /\ Len(order) = 0 /\ Members(order) = {} /\ Once(order)
    BY MembersOfFew
  <2>2. DOMAIN pending = {} /\ pending = [e \in {} |-> e]
    OBVIOUS
  <2>3. pending \in [{} -> [Keys -> Nat]]
    BY <2>2
  <2>4. Len(order) <= MaxTracked
    BY <2>1, PushDeliveryAssumption
  <2> QED
    BY <2>1, <2>2, <2>3, <2>4 DEF LedgerOK
<1>2. queue \in Seq(Delivery)
  OBVIOUS
<1>3. rg \in [Registrars -> RegistrarType]
  BY IdleReady
<1> QED
  BY <1>1, <1>2, <1>3, IdleReady DEF PushTypes

\* PushDelivery keeps its types, for every number of requests and endpoints.
THEOREM PushTypeCorrect == Spec => []TypeOK
<1>1. Spec => []PushTypes
  BY PushInit, EveryStepIsAMove, PTL DEF Spec
<1> QED
  BY <1>1, PushTypesImplyTypeOK, PTL

\* The memory of DeliveryLedger is bounded, and its map and its list name the
\* same endpoints, each once, whatever is classified, dropped and forgotten.
THEOREM TheLedgerIsBounded == Spec => []LedgerBounded
<1>1. PushTypes => LedgerBounded
  <2> SUFFICES ASSUME PushTypes PROVE LedgerBounded
    OBVIOUS
  <2>1. Cardinality(Members(order)) = Len(order)
    BY MembersCount DEF PushTypes, LedgerOK
  <2> QED
    BY <2>1 DEF PushTypes, LedgerOK, LedgerBounded
<1>2. Spec => []PushTypes
  BY PushInit, EveryStepIsAMove, PTL DEF Spec
<1> QED
  BY <1>1, <1>2, PTL
-----------------------------------------------------------------------------
(* Delivery identities are fresh, and so the counts never exceed what      *)
(* stands behind them.                                                     *)

\* Every delivery known to anybody was issued before.
Fresh ==
  /\ \A n \in Notifiers : \A x \in Members(nt[n].made) : x.id < issued
  /\ \A x \in Members(queue) \cup Members(worker.job) \cup credit \cup panicked : x.id < issued
  /\ \A r \in log : r[1].id < issued

\* What a sequence of deliveries holds are deliveries.
LEMMA MembersType ==
  ASSUME NEW s \in Seq(Delivery)
  PROVE  \A x \in Members(s) : x \in Delivery /\ x.id \in Nat
<1>1. \A i \in 1 .. Len(s) : s[i] \in Delivery
  OBVIOUS
<1> QED
  BY <1>1 DEF Members, Delivery

\* The places deliveries are held at.
LEMMA HeldTypes ==
  ASSUME PushTypes
  PROVE  /\ \A n \in Notifiers : nt[n].made \in Seq(Delivery)
         /\ worker.job \in Seq(Delivery) /\ queue \in Seq(Delivery)
BY DEF PushTypes, NotifierReady, NotifierType, WorkerReady, WorkerType

\* Only a delivery just made has a new identity.
LEMMA FreshStep == PushTypes /\ Fresh /\ Move => Fresh'
<1> SUFFICES ASSUME PushTypes, Fresh, Move PROVE Fresh'
  OBVIOUS
<1>1. ASSUME NEW n \in Notifiers, NEW d \in Delivery, Makes(n, d) PROVE Fresh'
  <2>1. issued \in Nat /\ issued' = issued + 1 /\ d.id = issued
    BY <1>1 DEF PushTypes, Makes
  <2>2. nt[n].made \in Seq(Delivery)
    BY HeldTypes
  <2>3. Members(nt'[n].made) = Members(nt[n].made) \cup {d}
    BY <1>1, <2>2, MembersAppend DEF Makes
  <2>4. ASSUME NEW x, x.id \in Nat, x.id < issued PROVE x.id < issued'
    BY <2>1, <2>4
  <2>5. \A m \in Notifiers : \A x \in Members(nt[m].made) : x.id < issued'
    BY <2>4, HeldTypes, MembersType DEF Fresh
  <2>6. d.id < issued'
    BY <2>1
  <2>7. \A m \in Notifiers : \A x \in Members(nt'[m].made) : x.id < issued'
    BY <1>1, <2>3, <2>5, <2>6 DEF Makes, Others
  <2>8. \A x \in Members(queue) \cup Members(worker.job) : x.id < issued'
    BY <2>4, HeldTypes, MembersType DEF Fresh
  <2>9. \A x \in credit \cup panicked : x.id < issued'
    BY <2>4 DEF Fresh, PushTypes, Delivery
  <2>10. \A r \in log : r[1].id < issued'
    BY <2>4 DEF Fresh, PushTypes, Delivery
  <2>11. credit' \subseteq credit \cup {d}
    BY <1>1 DEF Makes, Classify
  <2> QED
    BY <1>1, <2>6, <2>7, <2>8, <2>9, <2>10, <2>11 DEF Fresh, Makes
<1>2. ASSUME NEW n \in Notifiers, Hands1(n)
      PROVE  /\ \A m \in Notifiers : Members(nt'[m].made) \subseteq Members(nt[m].made)
             /\ Head(nt[n].made) \in Members(nt[n].made) /\ Head(nt[n].made) \in Delivery
  BY <1>2, MembersTail DEF Hands1, Others
<1>3. ASSUME NEW n \in Notifiers, Offers(n) PROVE Fresh'
  <2>1. Hands1(n) /\ queue' = Append(queue, Head(nt[n].made))
    BY <1>3 DEF Offers
  <2>2. Members(queue') = Members(queue) \cup {Head(nt[n].made)}
    BY <1>2, <2>1, HeldTypes, MembersAppend
  <2> QED
    BY <1>2, <1>3, <2>1, <2>2 DEF Fresh, Offers, ledger
<1>4. ASSUME NEW d, Drop(d) PROVE credit' = credit /\ log' = log \cup {<<d, "dropped">>}
  BY <1>4 DEF Drop, NotHandedOver, Record
<1>5. ASSUME NEW n \in Notifiers, Refuses(n) PROVE Fresh'
  BY <1>2, <1>4, <1>5 DEF Fresh, Refuses
<1>6. ASSUME NEW n \in Notifiers, Panics(n) PROVE Fresh'
  <2>1. Members(nt'[n].made) = {}
    BY <1>6, MembersOfFew DEF Panics
  <2> QED
    BY <1>6, <2>1 DEF Fresh, Panics, Others, ledger
<1>7. CASE Takes
  <2>1. Head(queue) \in Members(queue) /\ Members(queue') \subseteq Members(queue)
    BY <1>7, HeldTypes, MembersTail DEF Takes
  <2>2. Members(worker'.job) = {Head(queue)}
    BY <1>7, MembersOfFew DEF Takes
  <2> QED
    BY <1>7, <2>1, <2>2 DEF Fresh, Takes, Hands, ledger
<1>8. ASSUME NEW d \in Delivery, Finishes(d) PROVE Fresh'
  <2>1. Members(worker.job) = {d} /\ Members(worker'.job) = {}
    BY <1>8, MembersOfFew DEF Finishes
  <2>2. credit' = credit /\ \E o : log' = log \cup {<<d, o>>}
    BY <1>4, <1>8 DEF Finishes, Record, ledger
  <2> QED
    BY <1>8, <2>1, <2>2 DEF Fresh, Finishes, Hands
<1>9. ASSUME NEW e, Forgets(e) PROVE Fresh'
  BY <1>9 DEF Fresh, Forgets, Hands, forget
<1>10. CASE Rests
  BY <1>10 DEF Fresh, Rests, Hands, ledger
<1> QED
  BY <1>1, <1>3, <1>5, <1>6, <1>7, <1>8, <1>9, <1>10 DEF Move

\* Only deliveries classified handed-over stand behind a count.
CreditOK ==
  /\ IsFiniteSet(credit) /\ \A c \in credit : c.bound = "handed-over"
  /\ NeverOverCounts

\* The deliveries behind one count are finitely many.
LEMMA CreditCount ==
  ASSUME IsFiniteSet(credit), NEW e, NEW k
  PROVE  IsFiniteSet(Credit(e, k)) /\ Cardinality(Credit(e, k)) \in Nat
<1>1. Credit(e, k) \subseteq credit
  BY DEF Credit
<1> QED
  BY <1>1, FS_Subset, FS_CardinalityType

\* A classification adds at most one to a count, and one delivery behind it.
LEMMA MakesCount ==
  ASSUME PushTypes, Fresh, CreditOK, NEW n \in Notifiers, NEW d \in Delivery, Makes(n, d)
  PROVE  CreditOK'
<1>1. /\ d.ep \in Endpoints /\ d.key \in Keys /\ Classify(d) /\ log' = log
  BY DEF Makes, Delivery
<1>2. ~(d.id < issued)
  BY DEF Makes, PushTypes
<1>3. d \notin credit /\ \A o : <<d, o>> \notin log
  BY <1>2 DEF Fresh
<1>4. credit' \subseteq credit \cup {d} /\ (d \in credit' => d.bound = "handed-over")
  BY <1>1, <1>3 DEF Classify
<1>5. IsFiniteSet(credit')
  <2>1. IsFiniteSet(credit \cup {d})
    BY FS_AddElement DEF CreditOK
  <2> QED
    BY <1>4, <2>1, FS_Subset
<1>6. \A c \in credit' : c.bound = "handed-over"
  BY <1>4 DEF CreditOK
<1>7. ASSUME NEW e \in Endpoints, NEW k \in Keys
      PROVE  KeysOf(e)[k] \in Nat /\ KeysOf(e)[k] <= Cardinality(Credit(e, k))
  <2>1. KeysOf(e) \in [Keys -> Nat]
    BY KeysOfType DEF PushTypes
  <2>2. Cardinality(Credit(e, k)) \in Nat
    BY CreditCount DEF CreditOK
  <2> QED
    BY <2>1, <2>2 DEF KeysOf, NoKeys, CreditOK, NeverOverCounts
<1>8. ASSUME NEW e \in DOMAIN pending', NEW k \in Keys
      PROVE  pending'[e][k] <= Cardinality(Credit(e, k)')
  <2>1. e \in Members(order') /\ order' = Tracked(d.ep)
    BY <1>1, <1>8 DEF Classify
  <2>2. e \in Members(order) \cup {d.ep}
    BY <1>1, <2>1, TrackedKeeps DEF PushTypes
  <2>3. e \in Endpoints
    BY <1>1, <2>2 DEF PushTypes, LedgerOK, Members
  <2>4. CASE e = d.ep /\ k = d.key /\ d.bound = "handed-over"
    <3>1. Credit(e, k)' = Credit(e, k) \cup {d} /\ d \notin Credit(e, k)
      BY <1>1, <1>3, <2>1, <2>4 DEF Credit, Classify
    <3>2. Cardinality(Credit(e, k)') = Cardinality(Credit(e, k)) + 1
      BY <3>1, CreditCount, FS_AddElement DEF CreditOK
    <3>3. KeysOf(e) \in [Keys -> Nat]
      BY KeysOfType DEF PushTypes
    <3>4. pending'[e] = [KeysOf(e) EXCEPT ![d.key] = @ + 1]
      BY <1>1, <1>8, <2>1, <2>4 DEF Classify
    <3>5. pending'[e][k] = KeysOf(e)[k] + 1
      BY <2>4, <3>3, <3>4
    <3>6. Cardinality(Credit(e, k)) \in Nat
      BY CreditCount DEF CreditOK
    <3> QED
      BY <1>7, <2>3, <3>2, <3>5, <3>6
  <2>5. CASE ~(e = d.ep /\ k = d.key /\ d.bound = "handed-over")
    <3>1. Credit(e, k)' = Credit(e, k)
      BY <1>1, <1>3, <2>1, <2>5 DEF Credit, Classify
    <3>2. pending'[e][k] = KeysOf(e)[k]
      <4>1. CASE e # d.ep
        BY <1>1, <1>8, <2>1, <2>2, <4>1 DEF Classify, KeysOf, PushTypes, LedgerOK
      <4>2. CASE e = d.ep /\ d.bound = "handed-over"
        <5>1. pending'[e] = [KeysOf(e) EXCEPT ![d.key] = @ + 1] /\ k # d.key
          BY <1>1, <1>8, <2>1, <2>5, <4>2 DEF Classify
        <5>2. KeysOf(e) \in [Keys -> Nat]
          BY KeysOfType DEF PushTypes
        <5> QED
          BY <5>1, <5>2
      <4>3. CASE e = d.ep /\ d.bound # "handed-over"
        BY <1>1, <1>8, <2>1, <4>3 DEF Classify
      <4> QED
        BY <4>1, <4>2, <4>3
    <3> QED
      BY <1>7, <2>3, <3>1, <3>2
  <2> QED
    BY <2>4, <2>5
<1> QED
  BY <1>5, <1>6, <1>8 DEF CreditOK, NeverOverCounts

\* A drop takes at most its own delivery from behind its own count, which it
\* lowers first.
LEMMA DropCount ==
  ASSUME PushTypes, CreditOK, NEW d \in Delivery, Drop(d)
  PROVE  CreditOK'
<1>1. credit' = credit /\ log' = log \cup {<<d, "dropped">>} /\ NotHandedOver(d)
  BY DEF Drop, NotHandedOver, Record
<1>2. ASSUME NEW e \in DOMAIN pending', NEW k \in Keys
      PROVE  pending'[e][k] <= Cardinality(Credit(e, k)')
  <2>1. DOMAIN pending' = DOMAIN pending
    BY <1>1 DEF NotHandedOver
  <2>2. /\ pending[e][k] \in Nat /\ pending[e][k] <= Cardinality(Credit(e, k))
        /\ IsFiniteSet(Credit(e, k)) /\ Cardinality(Credit(e, k)) \in Nat
    BY <1>2, <2>1, CreditCount DEF PushTypes, LedgerOK, CreditOK, NeverOverCounts
  <2>3. IsFiniteSet(Credit(e, k)') /\ Cardinality(Credit(e, k)') \in Nat
    <3>1. Credit(e, k)' \subseteq credit
      BY <1>1 DEF Credit
    <3> QED
      BY <3>1, FS_Subset, FS_CardinalityType DEF CreditOK
  <2>4. CASE d \notin Credit(e, k)
    <3>1. Credit(e, k)' = Credit(e, k)
      BY <1>1, <2>4 DEF Credit
    <3>2. pending'[e][k] <= pending[e][k]
      <4>1. CASE pending' = pending
        BY <2>2, <4>1
      <4>2. CASE /\ d.ep \in DOMAIN pending
                 /\ pending' = [pending EXCEPT ![d.ep][d.key] = @ - 1]
        <5>1. pending[d.ep] \in [Keys -> Nat] /\ d.key \in Keys /\ pending[e] \in [Keys -> Nat]
          BY <1>2, <2>1, <4>2 DEF PushTypes, LedgerOK, Delivery
        <5>2. CASE e = d.ep /\ k = d.key
          <6>1. pending'[e] = [pending[e] EXCEPT ![k] = @ - 1]
            BY <4>2, <5>2
          <6>2. pending'[e][k] = pending[e][k] - 1
            BY <5>1, <6>1
          <6> QED
            BY <2>2, <6>2
        <5>3. CASE ~(e = d.ep /\ k = d.key)
          <6>1. pending'[e][k] = pending[e][k]
            BY <1>2, <2>1, <4>2, <5>1, <5>3
          <6> QED
            BY <2>2, <6>1
        <5> QED
          BY <5>2, <5>3
      <4> QED
        BY <1>1, <4>1, <4>2 DEF NotHandedOver
    <3>3. pending'[e][k] \in Nat
      <4>1. LedgerOK'
        BY <1>1, NotHandedOverLedger DEF PushTypes
      <4> QED
        BY <1>2, <4>1 DEF LedgerOK
    <3> QED
      BY <2>2, <3>1, <3>2, <3>3
  <2>5. CASE d \in Credit(e, k)
    <3>1. d.bound = "handed-over" /\ e = d.ep /\ k = d.key
      BY <2>5 DEF Credit, CreditOK
    <3>2. Credit(e, k)' = Credit(e, k) \ {d}
      BY <1>1 DEF Credit
    <3>3. Cardinality(Credit(e, k)') = Cardinality(Credit(e, k)) - 1
      BY <2>2, <2>5, <3>2, FS_RemoveElement
    <3>4. CASE pending[e][k] > 0
      <4>1. pending' = [pending EXCEPT ![e][k] = @ - 1]
        BY <1>1, <1>2, <2>1, <3>1, <3>4 DEF NotHandedOver
      <4>2. pending[e] \in [Keys -> Nat] /\ pending'[e] = [pending[e] EXCEPT ![k] = @ - 1]
        BY <1>2, <2>1, <4>1 DEF PushTypes, LedgerOK
      <4>3. pending'[e][k] = pending[e][k] - 1
        BY <4>2
      <4> QED
        BY <2>2, <3>3, <4>3
    <3>5. CASE ~(pending[e][k] > 0)
      <4>1. pending' = pending /\ pending[e][k] = 0
        BY <1>1, <2>2, <3>1, <3>5 DEF NotHandedOver
      <4> QED
        BY <2>3, <4>1
    <3> QED
      BY <3>4, <3>5
  <2> QED
    BY <2>4, <2>5
<1> QED
  BY <1>1, <1>2 DEF CreditOK, NeverOverCounts

\* What stands behind the counts of the others is not touched by forget.
LEMMA ForgetCount ==
  ASSUME PushTypes, CreditOK, NEW e, forget(e), UNCHANGED log
  PROVE  CreditOK'
<1>1. credit' = {c \in credit : c.ep # e} /\ credit' \subseteq credit
  BY DEF forget
<1>2. IsFiniteSet(credit')
  BY <1>1, FS_Subset DEF CreditOK
<1>3. /\ DOMAIN pending' = DOMAIN pending \ {e}
      /\ \A x \in DOMAIN pending' : pending'[x] = pending[x]
  BY ForgetLedger DEF PushTypes
<1>4. ASSUME NEW x \in DOMAIN pending', NEW k \in Keys
      PROVE  pending'[x][k] <= Cardinality(Credit(x, k)')
  <2>1. Credit(x, k)' = Credit(x, k)
    BY <1>1, <1>3, <1>4 DEF Credit
  <2> QED
    BY <1>3, <1>4, <2>1 DEF CreditOK, NeverOverCounts
<1> QED
  BY <1>1, <1>2, <1>4 DEF CreditOK, NeverOverCounts

\* Every move keeps the counts covered.
LEMMA CreditStep == PushTypes /\ Fresh /\ CreditOK /\ Move => CreditOK'
<1> SUFFICES ASSUME PushTypes, Fresh, CreditOK, Move PROVE CreditOK'
  OBVIOUS
<1>1. ASSUME UNCHANGED ledger, \A d : <<d, "dropped">> \in log' <=> <<d, "dropped">> \in log
      PROVE  CreditOK'
  <2>1. ASSUME NEW e, NEW k PROVE Credit(e, k)' = Credit(e, k)
    BY <1>1 DEF Credit, ledger
  <2> QED
    BY <1>1, <2>1 DEF CreditOK, NeverOverCounts, ledger
<1>2. ASSUME NEW n \in Notifiers, Refuses(n) PROVE CreditOK'
  <2>1. Head(nt[n].made) \in Delivery
    BY <1>2, MembersTail DEF Refuses, Hands1
  <2> QED
    BY <1>2, <2>1, DropCount DEF Refuses
<1>3. ASSUME NEW d \in Delivery, Finishes(d) PROVE CreditOK'
  <2>1. CASE Drop(d)
    BY <2>1, DropCount
  <2>2. CASE Record(d, d.bound) /\ UNCHANGED ledger
    <3>1. d.bound # "dropped"
      BY DEF Delivery, Outcome
    <3> QED
      BY <1>1, <2>2, <3>1 DEF Record
  <2> QED
    BY <1>3, <2>1, <2>2 DEF Finishes
<1>4. ASSUME NEW e, Forgets(e) PROVE CreditOK'
  BY <1>4, ForgetCount DEF Forgets
<1>5. ASSUME NEW n \in Notifiers, Offers(n) \/ Panics(n) PROVE CreditOK'
  BY <1>1, <1>5 DEF Offers, Panics
<1>6. CASE Takes \/ Rests
  BY <1>1, <1>6 DEF Takes, Rests
<1> QED
  BY <1>2, <1>3, <1>4, <1>5, <1>6, MakesCount DEF Move

\* The inductive invariant of the accounting's first half.
LEMMA CreditInvariant == Spec => [](PushTypes /\ Fresh /\ CreditOK)
<1>1. Init => PushTypes /\ Fresh /\ CreditOK
  <2> SUFFICES ASSUME Init PROVE Fresh /\ CreditOK
    BY PushInit
  <2>1. /\ \A n \in Notifiers : Members(nt[n].made) = {}
        /\ Members(queue) = {} /\ Members(worker.job) = {}
    BY MembersOfFew DEF Init, NotifierIdle, WorkerIdle
  <2>2. Fresh
    BY <2>1 DEF Init, Fresh
  <2>3. NeverOverCounts
    BY DEF Init, NeverOverCounts
  <2> QED
    BY <2>2, <2>3, FS_EmptySet DEF Init, CreditOK
<1>2. PushTypes /\ Fresh /\ CreditOK /\ [Next]_vars => (PushTypes /\ Fresh /\ CreditOK)'
  BY EveryStepIsAMove, FreshStep, CreditStep
<1> QED
  BY <1>1, <1>2, PTL DEF Spec

\* "Under-claiming is the point": a pending count never exceeds the deliveries
\* classified handed-over for that endpoint and key, and neither dropped nor
\* forgotten.
THEOREM CountsAreCovered == Spec => []NeverOverCounts
<1>1. PushTypes /\ Fresh /\ CreditOK => NeverOverCounts
  BY DEF CreditOK
<1> QED
  BY <1>1, CreditInvariant, PTL

\* A crossing is called beyond-collapse-bound only when at least KeyBound
\* distinct keys stood behind that when Classify said so.
THEOREM BeyondIsEverEarned == Spec => BeyondIsEarned
<1> DEFINE Earned(d) == d.id >= issued /\ d.bound = "beyond-collapse-bound"
                          => Cardinality({k \in Keys : Credit(d.ep, k) # {}}) >= KeyBound
<1>1. ASSUME PushTypes, Fresh, CreditOK, Move,
             NEW n \in Notifiers, NEW i \in 1 .. Len(nt'[n].made)
      PROVE  Earned(nt'[n].made[i])
  <2> DEFINE d == nt'[n].made[i]
  <2>1. d \in Members(nt'[n].made)
    BY <1>1 DEF Members
  <2> HIDE DEF d
  <2>2. ASSUME d \in Members(nt[n].made) PROVE Earned(d)
    <3>1. d.id < issued /\ d.id \in Nat /\ issued \in Nat
      BY <1>1, <2>2, HeldTypes, MembersType DEF Fresh, PushTypes
    <3> QED
      BY <3>1
  <2>3. ASSUME NEW m \in Notifiers, Hands1(m) PROVE Members(nt'[n].made) \subseteq Members(nt[n].made)
    BY <2>3, MembersTail DEF Hands1, Others
  <2>4. ASSUME NEW m \in Notifiers, Panics(m) PROVE Members(nt'[n].made) \subseteq Members(nt[n].made)
    BY <2>4, MembersOfFew DEF Panics, Others
  <2>5. ASSUME NEW m \in Notifiers, NEW c \in Delivery, Makes(m, c) PROVE Earned(d)
    <3>1. Members(nt'[n].made) \subseteq Members(nt[n].made) \cup {c}
      <4>1. nt[m].made \in Seq(Delivery)
        BY <1>1, HeldTypes
      <4>2. Members(nt'[m].made) = Members(nt[m].made) \cup {c}
        BY <2>5, <4>1, MembersAppend DEF Makes
      <4> QED
        BY <2>5, <4>2 DEF Makes, Others
    <3>2. CASE d = c /\ d.bound = "beyond-collapse-bound"
      <4> DEFINE Used == {k \in Keys : KeysOf(d.ep)[k] > 0}
                 Backed == {k \in Keys : Credit(d.ep, k) # {}}
      <4>1. Bound(d.ep) = "beyond-collapse-bound"
        BY <2>5, <3>2 DEF Makes
      <4>2. Cardinality(Used) >= KeyBound
        BY <4>1 DEF Bound, DistinctKeys
      <4>3. Used \subseteq Backed
        <5> SUFFICES ASSUME NEW k \in Keys, KeysOf(d.ep)[k] > 0 PROVE Credit(d.ep, k) # {}
          OBVIOUS
        <5>1. d.ep \in DOMAIN pending /\ pending[d.ep][k] > 0
          BY DEF KeysOf, NoKeys
        <5>2. pending[d.ep][k] <= Cardinality(Credit(d.ep, k)) /\ pending[d.ep][k] \in Nat
          BY <1>1, <5>1 DEF CreditOK, NeverOverCounts, PushTypes, LedgerOK
        <5>3. Cardinality(Credit(d.ep, k)) # 0
          BY <5>1, <5>2
        <5> QED
          BY <5>3, FS_EmptySet
      <4>4. IsFiniteSet(Backed) /\ Backed \subseteq Keys
        BY PushDeliveryAssumption, FS_Subset
      <4>5. /\ Cardinality(Used) <= Cardinality(Backed)
            /\ Cardinality(Used) \in Nat /\ Cardinality(Backed) \in Nat
        <5> HIDE DEF Used, Backed
        <5>1. IsFiniteSet(Used)
          BY <4>3, <4>4, FS_Subset
        <5> QED
          BY <4>3, <4>4, <5>1, FS_Subset, FS_CardinalityType
      <4>6. KeyBound \in Nat
        BY PushDeliveryAssumption
      <4> HIDE DEF Used
      <4>7. Cardinality(Backed) >= KeyBound
        BY <4>2, <4>5, <4>6
      <4> QED
        BY <4>7
    <3> QED
      BY <2>1, <2>2, <3>1, <3>2
  <2>6. ASSUME Hands PROVE Earned(d)
    <3> HIDE DEF Earned
    <3> QED
      BY <2>1, <2>2, <2>6 DEF Hands
  <2>7. Earned(d)
    <3> HIDE DEF Earned
    <3> QED
      BY <1>1, <2>1, <2>2, <2>3, <2>4, <2>5, <2>6 DEF Move, Offers, Refuses, Takes, Finishes, Forgets, Rests
  <2> QED
    BY <2>7 DEF d
<1>2. PushTypes /\ Fresh /\ CreditOK /\ [Next]_vars =>
        [\A n \in Notifiers : \A i \in 1 .. Len(nt'[n].made) :
           LET d == nt'[n].made[i] IN
           d.id >= issued /\ d.bound = "beyond-collapse-bound"
             => Cardinality({k \in Keys : Credit(d.ep, k) # {}}) >= KeyBound]_vars
  BY <1>1, EveryStepIsAMove
<1> QED
  BY <1>2, CreditInvariant, PTL DEF Spec, BeyondIsEarned
-----------------------------------------------------------------------------
(* Every delivery is at one place.                                         *)

\* Nobody holds a delivery twice, and no two hold the same.
Apart ==
  /\ Once(queue) /\ \A n \in Notifiers : Once(nt[n].made)
  /\ \A m, n \in Notifiers : m # n => Members(nt[m].made) \cap Members(nt[n].made) = {}
  /\ \A n \in Notifiers : Members(nt[n].made) \cap (Members(queue) \cup Members(worker.job)) = {}
  /\ Members(queue) \cap Members(worker.job) = {}

Counted ==
  /\ IsFiniteSet(InHand) /\ IsFiniteSet(log) /\ IsFiniteSet(Logged) /\ IsFiniteSet(panicked)
  /\ InHand \cap panicked = {}
  /\ Accounted

\* Who holds what is in hand, before and after a step.
LEMMA InHandIs ==
  /\ \A x : x \in InHand <=> \/ \E n \in Notifiers : x \in Members(nt[n].made)
                             \/ x \in Members(queue) \/ x \in Members(worker.job)
  /\ \A x : x \in InHand' <=> \/ \E n \in Notifiers : x \in Members(nt'[n].made)
                              \/ x \in Members(queue') \/ x \in Members(worker'.job)
<1>1. \A x : x \in InHand <=> (\E n \in Notifiers : x \in Members(nt[n].made))
                  \/ x \in Members(queue) \/ x \in Members(worker.job)
  <2> TAKE x
  <2> DEFINE U == UNION {Members(nt[n].made) : n \in Notifiers}
             Q == Members(queue)
             J == Members(worker.job)
  <2>1. x \in U <=> \E n \in Notifiers : x \in Members(nt[n].made)
    OBVIOUS
  <2>2. InHand = U \cup Q \cup J
    BY DEF InHand
  <2> HIDE DEF U, Q, J
  <2>3. x \in InHand <=> x \in U \/ x \in Q \/ x \in J
    BY <2>2
  <2> QED
    BY <2>1, <2>3 DEF Q, J
<1>2. \A x : x \in InHand' <=> (\E n \in Notifiers : x \in Members(nt'[n].made))
                  \/ x \in Members(queue') \/ x \in Members(worker'.job)
  <2> TAKE x
  <2> DEFINE U == UNION {Members(nt'[n].made) : n \in Notifiers}
             Q == Members(queue')
             J == Members(worker'.job)
  <2>1. x \in U <=> \E n \in Notifiers : x \in Members(nt'[n].made)
    OBVIOUS
  <2>2. InHand' = U \cup Q \cup J
    BY DEF InHand
  <2> HIDE DEF U, Q, J
  <2>3. x \in InHand' <=> x \in U \/ x \in Q \/ x \in J
    BY <2>2
  <2> QED
    BY <2>1, <2>3 DEF Q, J
<1> QED
  BY <1>1, <1>2

\* A new delivery joins what is in hand.
LEMMA MakesApart ==
  ASSUME PushTypes, Fresh, Apart, NEW n \in Notifiers, NEW d \in Delivery, Makes(n, d)
  PROVE  Apart' /\ InHand' = InHand \cup {d} /\ d \notin InHand
         /\ d \notin panicked /\ \A r \in log : r[1] # d
<1>1. nt[n].made \in Seq(Delivery)
  BY HeldTypes
<1>2. ~(d.id < issued)
  BY DEF Makes, PushTypes
<1>3. /\ \A m \in Notifiers : d \notin Members(nt[m].made)
      /\ d \notin Members(queue) /\ d \notin Members(worker.job) /\ d \notin panicked
      /\ \A r \in log : r[1] # d
  BY <1>2 DEF Fresh
<1>4. Members(nt'[n].made) = Members(nt[n].made) \cup {d} /\ Once(nt'[n].made)
  BY <1>1, <1>3, MembersAppend DEF Makes, Apart
<1>5. \A m \in Notifiers \ {n} : nt'[m].made = nt[m].made
  BY DEF Makes, Others
<1>6. queue' = queue /\ worker' = worker
  BY DEF Makes
<1>7. InHand' = InHand \cup {d} /\ d \notin InHand
  BY <1>3, <1>4, <1>5, <1>6, InHandIs
<1>8. Apart'
  BY <1>3, <1>4, <1>5, <1>6 DEF Apart
<1> QED
  BY <1>3, <1>7, <1>8

\* A delivery an activation lets go is nowhere else.
LEMMA HeadApart ==
  ASSUME Apart, NEW n \in Notifiers, Hands1(n)
  PROVE  /\ Head(nt[n].made) \in Delivery /\ Head(nt[n].made) \in Members(nt[n].made)
         /\ Once(nt'[n].made) /\ Members(nt'[n].made) = Members(nt[n].made) \ {Head(nt[n].made)}
         /\ \A m \in Notifiers \ {n} : nt'[m].made = nt[m].made /\ Head(nt[n].made) \notin Members(nt[m].made)
         /\ Head(nt[n].made) \notin Members(queue) /\ Head(nt[n].made) \notin Members(worker.job)
<1>1. /\ Head(nt[n].made) \in Delivery /\ Head(nt[n].made) \in Members(nt[n].made)
      /\ Members(nt[n].made) = Members(nt'[n].made) \cup {Head(nt[n].made)}
      /\ Once(nt'[n].made) /\ Head(nt[n].made) \notin Members(nt'[n].made)
  BY MembersTail DEF Hands1, Apart
<1>2. \A m \in Notifiers \ {n} : nt'[m].made = nt[m].made
  BY DEF Hands1, Others
<1> QED
  BY <1>1, <1>2 DEF Apart

\* A delivery offered moves into the queue.
LEMMA OffersApart ==
  ASSUME PushTypes, Apart, NEW n \in Notifiers, Offers(n)
  PROVE  Apart' /\ InHand' = InHand
<1> DEFINE h == Head(nt[n].made)
<1>1. /\ h \in Delivery /\ h \in Members(nt[n].made)
      /\ Once(nt'[n].made) /\ Members(nt'[n].made) = Members(nt[n].made) \ {h}
      /\ \A m \in Notifiers \ {n} : nt'[m].made = nt[m].made /\ h \notin Members(nt[m].made)
      /\ h \notin Members(queue) /\ h \notin Members(worker.job)
  BY HeadApart DEF Offers
<1>2. queue' = Append(queue, h) /\ worker' = worker
  BY DEF Offers
<1>3. Members(queue') = Members(queue) \cup {h} /\ Once(queue')
  BY <1>1, <1>2, HeldTypes, MembersAppend DEF Apart
<1> HIDE DEF h
<1>4. Apart'
  <2>1. /\ Once(queue') /\ \A m \in Notifiers : Once(nt'[m].made)
        /\ \A m \in Notifiers : Members(nt'[m].made) \subseteq Members(nt[m].made)
    BY <1>1, <1>3 DEF Apart
  <2>2. \A m \in Notifiers : h \notin Members(nt'[m].made)
    BY <1>1
  <2>3. \A m, l \in Notifiers : m # l => Members(nt'[m].made) \cap Members(nt'[l].made) = {}
    BY <2>1 DEF Apart
  <2>4. \A m \in Notifiers : Members(nt'[m].made) \cap (Members(queue') \cup Members(worker'.job)) = {}
    BY <1>2, <1>3, <2>1, <2>2 DEF Apart
  <2>5. Members(queue') \cap Members(worker'.job) = {}
    BY <1>1, <1>2, <1>3 DEF Apart
  <2> QED
    BY <2>1, <2>3, <2>4, <2>5 DEF Apart
<1>5. \A x : x \in InHand' <=> x \in InHand
  BY <1>1, <1>2, <1>3, InHandIs
<1> QED
  BY <1>4, <1>5, InHandIs DEF InHand

\* A delivery refused leaves.
LEMMA RefusesApart ==
  ASSUME PushTypes, Apart, NEW n \in Notifiers, Refuses(n)
  PROVE  /\ Apart' /\ InHand' = InHand \ {Head(nt[n].made)}
         /\ Head(nt[n].made) \in InHand
<1> DEFINE h == Head(nt[n].made)
<1>1. /\ h \in Delivery /\ h \in Members(nt[n].made)
      /\ Once(nt'[n].made) /\ Members(nt'[n].made) = Members(nt[n].made) \ {h}
      /\ \A m \in Notifiers \ {n} : nt'[m].made = nt[m].made /\ h \notin Members(nt[m].made)
      /\ h \notin Members(queue) /\ h \notin Members(worker.job)
  BY HeadApart DEF Refuses
<1>2. queue' = queue /\ worker' = worker
  BY DEF Refuses
<1> HIDE DEF h
<1>3. Apart'
  BY <1>1, <1>2 DEF Apart
<1>4. InHand' = InHand \ {h} /\ h \in InHand
  BY <1>1, <1>2, InHandIs
<1> QED
  BY <1>3, <1>4 DEF h

\* A panic takes all an activation holds.
LEMMA PanicsApart ==
  ASSUME PushTypes, Apart, NEW n \in Notifiers, Panics(n)
  PROVE  /\ Apart' /\ InHand' = InHand \ Members(nt[n].made) /\ Members(nt[n].made) \subseteq InHand
<1>1. Members(nt'[n].made) = {} /\ Once(nt'[n].made)
  BY MembersOfFew DEF Panics
<1>2. \A m \in Notifiers \ {n} : nt'[m].made = nt[m].made
  BY DEF Panics, Others
<1>3. queue' = queue /\ worker' = worker
  BY DEF Panics
<1>4. Apart'
  BY <1>1, <1>2, <1>3 DEF Apart
<1>5. /\ \A m \in Notifiers \ {n} : Members(nt[m].made) \cap Members(nt[n].made) = {}
      /\ Members(nt[n].made) \cap (Members(queue) \cup Members(worker.job)) = {}
  BY DEF Apart
<1>6. InHand' = InHand \ Members(nt[n].made) /\ Members(nt[n].made) \subseteq InHand
  BY <1>1, <1>2, <1>3, <1>5, InHandIs
<1> QED
  BY <1>4, <1>6

\* The worker takes the head of the queue.
LEMMA TakesApart ==
  ASSUME PushTypes, Apart, Takes
  PROVE  Apart' /\ InHand' = InHand
<1> DEFINE h == Head(queue)
<1>1. /\ Members(queue) = Members(queue') \cup {h}
      /\ Once(queue') /\ h \notin Members(queue')
  BY HeldTypes, MembersTail DEF Takes, Apart
<1>2. Members(worker.job) = {} /\ Members(worker'.job) = {h}
  BY MembersOfFew DEF Takes
<1>3. \A m \in Notifiers : nt'[m].made = nt[m].made
  BY DEF Takes, Hands
<1> HIDE DEF h
<1>4. Apart'
  BY <1>1, <1>2, <1>3 DEF Apart
<1>5. \A x : x \in InHand' <=> x \in InHand
  BY <1>1, <1>2, <1>3, InHandIs
<1> QED
  BY <1>4, <1>5, InHandIs DEF InHand

\* The worker's delivery leaves.
LEMMA FinishesApart ==
  ASSUME PushTypes, Apart, NEW d \in Delivery, Finishes(d)
  PROVE  Apart' /\ InHand' = InHand \ {d} /\ d \in InHand
<1>1. Members(worker.job) = {d} /\ Members(worker'.job) = {}
  BY MembersOfFew DEF Finishes
<1>2. queue' = queue /\ \A m \in Notifiers : nt'[m].made = nt[m].made
  BY DEF Finishes, Hands
<1>3. Apart'
  BY <1>1, <1>2 DEF Apart
<1>4. InHand' = InHand \ {d} /\ d \in InHand
  BY <1>1, <1>2, InHandIs DEF Apart
<1> QED
  BY <1>3, <1>4

\* One record more, of a delivery that leaves.
LEMMA RecordCounted ==
  ASSUME PushTypes, Counted, NEW d \in InHand, NEW o, o \in {d.bound, "dropped"},
         InHand' = InHand \ {d}, Record(d, o), panicked' = panicked, issued' = issued
  PROVE  Counted'
<1>1. log' = log \cup {<<d, o>>}
  BY DEF Record
<1>2. d \notin Logged /\ <<d, o>> \notin log
  BY DEF Counted, Accounted, Logged
<1>3. Logged' = Logged \cup {d}
  <2>1. <<d, o>>[1] = d
    OBVIOUS
  <2>2. Logged' = {r[1] : r \in log \cup {<<d, o>>}}
    BY <1>1 DEF Logged
  <2> QED
    BY <2>1, <2>2 DEF Logged
<1>4. IsFiniteSet(log') /\ Cardinality(log') = Cardinality(log) + 1
  BY <1>1, <1>2, FS_AddElement DEF Counted
<1>5. IsFiniteSet(Logged') /\ Cardinality(Logged') = Cardinality(Logged) + 1
  BY <1>2, <1>3, FS_AddElement DEF Counted
<1>6. IsFiniteSet(InHand') /\ Cardinality(InHand') = Cardinality(InHand) - 1
  BY FS_RemoveElement DEF Counted
<1>7. /\ Cardinality(InHand) \in Nat /\ Cardinality(log) \in Nat /\ Cardinality(panicked) \in Nat
      /\ Cardinality(Logged) \in Nat
  BY FS_CardinalityType DEF Counted
<1>8. Cardinality(InHand') + Cardinality(log') + Cardinality(panicked') = issued'
  BY <1>4, <1>6, <1>7 DEF Counted, Accounted
<1>9. Cardinality(log') = Cardinality(Logged')
  BY <1>4, <1>5, <1>7 DEF Counted, Accounted
<1>10. InHand' \cap Logged' = {} /\ InHand' \cap panicked' = {}
  BY <1>3 DEF Counted, Accounted
<1>11. \A r \in log' : r[2] \in {r[1].bound, "dropped"}
  BY <1>1 DEF Counted, Accounted
<1> QED
  BY <1>4, <1>5, <1>6, <1>8, <1>9, <1>10, <1>11 DEF Counted, Accounted

\* A panic moves what an activation held to the panicked ones.
LEMMA PanicsCounted ==
  ASSUME PushTypes, Counted, NEW M, M \subseteq InHand, InHand' = InHand \ M,
         panicked' = panicked \cup M, log' = log, issued' = issued
  PROVE  Counted'
<1>1. IsFiniteSet(M) /\ IsFiniteSet(InHand \ M)
  BY FS_Subset DEF Counted
<1>2. M \cap panicked = {} /\ InHand \cap M = M /\ panicked \cap M = {}
  BY DEF Counted
<1>3. Cardinality(InHand') = Cardinality(InHand) - Cardinality(M)
  BY <1>1, <1>2, FS_Difference DEF Counted
<1>4. /\ IsFiniteSet(panicked')
      /\ Cardinality(panicked') = Cardinality(panicked) + Cardinality(M) - Cardinality(panicked \cap M)
  BY <1>1, FS_Union DEF Counted
<1>5. Cardinality(panicked \cap M) = 0
  BY <1>2, FS_EmptySet
<1>6. /\ Cardinality(InHand) \in Nat /\ Cardinality(log) \in Nat /\ Cardinality(panicked) \in Nat
      /\ Cardinality(M) \in Nat
  BY <1>1, FS_CardinalityType DEF Counted
<1>7. Cardinality(InHand') + Cardinality(log') + Cardinality(panicked') = issued'
  BY <1>3, <1>4, <1>5, <1>6 DEF Counted, Accounted
<1>8. Logged' = Logged
  BY DEF Logged
<1>9. InHand' \cap Logged' = {} /\ InHand' \cap panicked' = {}
  BY <1>8 DEF Counted, Accounted
<1> QED
  BY <1>1, <1>4, <1>7, <1>8, <1>9 DEF Counted, Accounted

\* Every move keeps the places apart and the account balanced.
LEMMA AccountStep ==
  PushTypes /\ Fresh /\ Apart /\ Counted /\ Move => Apart' /\ Counted'
<1> SUFFICES ASSUME PushTypes, Fresh, Apart, Counted, Move PROVE Apart' /\ Counted'
  OBVIOUS
<1>1. ASSUME NEW n \in Notifiers, NEW d \in Delivery, Makes(n, d) PROVE Apart' /\ Counted'
  <2>1. /\ Apart' /\ InHand' = InHand \cup {d} /\ d \notin InHand
        /\ d \notin panicked /\ \A r \in log : r[1] # d
    BY <1>1, MakesApart
  <2>2. log' = log /\ panicked' = panicked /\ issued' = issued + 1
    BY <1>1 DEF Makes
  <2>3. Logged' = Logged /\ d \notin Logged
    BY <2>1, <2>2 DEF Logged
  <2>4. IsFiniteSet(InHand') /\ Cardinality(InHand') = Cardinality(InHand) + 1
    BY <2>1, FS_AddElement DEF Counted
  <2>5. Cardinality(InHand) \in Nat /\ Cardinality(log) \in Nat /\ Cardinality(panicked) \in Nat
    BY FS_CardinalityType DEF Counted
  <2>6. Cardinality(InHand') + Cardinality(log') + Cardinality(panicked') = issued'
    BY <2>2, <2>4, <2>5 DEF Counted, Accounted
  <2>7. InHand' \cap Logged' = {} /\ InHand' \cap panicked' = {}
    BY <2>1, <2>2, <2>3 DEF Counted, Accounted
  <2> QED
    BY <2>1, <2>2, <2>3, <2>4, <2>6, <2>7 DEF Counted, Accounted
<1>2. ASSUME InHand' = InHand, log' = log, panicked' = panicked, issued' = issued PROVE Counted'
  <2>1. Logged' = Logged
    BY <1>2 DEF Logged
  <2> QED
    BY <1>2, <2>1 DEF Counted, Accounted
<1>3. ASSUME NEW n \in Notifiers, Offers(n) PROVE Apart' /\ Counted'
  BY <1>2, <1>3, OffersApart DEF Offers
<1>4. ASSUME NEW n \in Notifiers, Refuses(n) PROVE Apart' /\ Counted'
  <2>1. /\ Apart' /\ InHand' = InHand \ {Head(nt[n].made)} /\ Head(nt[n].made) \in InHand
    BY <1>4, RefusesApart
  <2>2. Record(Head(nt[n].made), "dropped") /\ panicked' = panicked /\ issued' = issued
    BY <1>4 DEF Refuses, Drop
  <2> QED
    BY <2>1, <2>2, RecordCounted
<1>5. ASSUME NEW n \in Notifiers, Panics(n) PROVE Apart' /\ Counted'
  BY <1>5, PanicsApart, PanicsCounted DEF Panics
<1>6. CASE Takes
  BY <1>2, <1>6, TakesApart DEF Takes
<1>7. ASSUME NEW d \in Delivery, Finishes(d) PROVE Apart' /\ Counted'
  <2>1. Apart' /\ InHand' = InHand \ {d} /\ d \in InHand
    BY <1>7, FinishesApart
  <2>2. (Record(d, d.bound) \/ Record(d, "dropped")) /\ panicked' = panicked /\ issued' = issued
    BY <1>7 DEF Finishes, Drop
  <2> QED
    BY <2>1, <2>2, RecordCounted
<1>8. ASSUME Hands, queue' = queue, worker'.job = worker.job PROVE Apart' /\ InHand' = InHand
  <2>1. \A x : x \in InHand' <=> x \in InHand
    BY <1>8, InHandIs DEF Hands
  <2> QED
    BY <1>8, <2>1 DEF Apart, Hands, InHand
<1>9. ASSUME NEW e, Forgets(e) PROVE Apart' /\ Counted'
  BY <1>2, <1>8, <1>9 DEF Forgets
<1>10. CASE Rests
  BY <1>2, <1>8, <1>10 DEF Rests
<1> QED
  BY <1>1, <1>3, <1>4, <1>5, <1>6, <1>7, <1>9, <1>10 DEF Move

\* Every delivery ever made is, once, in somebody's hands, panicked away or in
\* the log, and the log has one outcome for it: the one Classify gave, or dropped.
THEOREM EveryDeliveryIsAccounted == Spec => []Accounted
<1>1. Init => PushTypes /\ Fresh /\ Apart /\ Counted
  <2> SUFFICES ASSUME Init PROVE Fresh /\ Apart /\ Counted
    BY PushInit
  <2>1. /\ \A n \in Notifiers : Members(nt[n].made) = {} /\ Once(nt[n].made)
        /\ Members(queue) = {} /\ Once(queue) /\ Members(worker.job) = {}
    BY MembersOfFew DEF Init, NotifierIdle, WorkerIdle
  <2>2. Fresh
    BY <2>1 DEF Init, Fresh
  <2>3. Apart
    BY <2>1 DEF Apart
  <2>4. InHand = {} /\ Logged = {} /\ log = {} /\ panicked = {} /\ issued = 0
    BY <2>1 DEF Init, InHand, Logged
  <2>5. IsFiniteSet({}) /\ Cardinality({}) = 0
    BY FS_EmptySet
  <2>6. Counted
    BY <2>4, <2>5 DEF Counted, Accounted
  <2> QED
    BY <2>2, <2>3, <2>6
<1>2. /\ PushTypes /\ Fresh /\ Apart /\ Counted /\ [Next]_vars
      => (PushTypes /\ Fresh /\ Apart /\ Counted)'
  BY EveryStepIsAMove, FreshStep, AccountStep
<1>3. PushTypes /\ Fresh /\ Apart /\ Counted => Accounted
  BY DEF Counted
<1> QED
  BY <1>1, <1>2, <1>3, PTL DEF Spec
-----------------------------------------------------------------------------
(* The phone's list of crossings.                                          *)

\* An answer that lists crossings came from the token's own server, and one
\* that lists none is of a family that had none.
AnswerOK(x) ==
  /\ x.is # "empty"
  /\ x.is = "ok" => x.token = x.url /\ (x.rows = {} => x.none)

\* What is known of the read under way and of the last one.
ListIInv ==
  /\ recorded \subseteq Crossings /\ (\E n \in Nat : \A c \in recorded : c.at <= n)
  /\ AnswerOK(reading) /\ AnswerOK(lastRead)

\* The newest of a log that is not empty are some.
LEMMA NewestOfSome ==
  ASSUME NEW S \in SUBSET Crossings, S # {}, NEW n \in Nat, \A c \in S : c.at <= n
  PROVE  Newest(S) # {}
<1> DEFINE less == {p \in Nat \X Nat : p[1] < p[2]}
           gaps == {n - c.at : c \in S}
<1>1. IsWellFoundedOn(less, Nat)
  <2>1. OpToRel(<, Nat) = less
    BY DEF OpToRel
  <2>2. QED
    BY <2>1, NatLessThanWellFounded
<1>2. \A c \in S : c.at \in Nat /\ n - c.at \in Nat
  BY ListAssumption
<1>3. gaps \subseteq Nat /\ gaps # {}
  BY <1>2
<1>4. PICK m \in gaps : \A k \in gaps : ~ (<<k, m>> \in less)
  <2> HIDE DEF less, gaps
  <2> QED
    BY <1>1, <1>3, WFMin
<1>5. PICK c \in S : m = n - c.at
  OBVIOUS
<1>6. \A d \in S : ~(d.at > c.at)
  <2> TAKE d \in S
  <2>1. n - d.at \in Nat /\ m \in Nat /\ n - d.at \in gaps
    BY <1>2, <1>3
  <2>2. n - d.at < m => <<n - d.at, m>> \in less
    BY <2>1
  <2>3. ~(n - d.at < m)
    BY <1>4, <2>1, <2>2
  <2> QED
    BY <1>2, <1>5, <2>3
<1>7. {d \in S : d.at > c.at} = {}
  BY <1>6
<1>8. Cardinality({d \in S : d.at > c.at}) < Limit
  <2>1. Cardinality({}) = 0
    BY FS_EmptySet
  <2>2. 0 < Limit
    BY ListAssumption
  <2> QED
    BY <1>7, <2>1, <2>2
<1> QED
  BY <1>8 DEF Newest

\* The read's steps keep what its answer says true.
LEMMA ReaderStep ==
  ASSUME ListIInv, Reader
  PROVE  ListIInv'
<1>1. CASE ReadBack
  <2>1. lastRead' = lastRead /\ recorded' = recorded
    BY <1>1 DEF ReadBack, surfaceVars
  <2>2. reading'.is \in {"none", "asking"}
    BY <1>1 DEF ReadBack, None
  <2> QED
    BY <2>1, <2>2 DEF ListIInv, AnswerOK
<1>2. CASE crossings
  <2>1. lastRead' = lastRead /\ recorded' = recorded
    BY <1>2 DEF crossings, surfaceVars
  <2>2. CASE reading.token = reading.url /\ reading' = Listed(Newest(LogOf(reading.url)))
    <3>1. /\ reading'.is = "ok" /\ reading'.rows = Newest(LogOf(reading.url))
          /\ reading'.url = reading.url /\ reading'.token = reading.token
          /\ reading'.none = (LogOf(reading.url) = {})
      BY <2>2 DEF Listed
    <3>2. PICK n \in Nat : \A c \in recorded : c.at <= n
      BY DEF ListIInv
    <3>3. LogOf(reading.url) \subseteq Crossings /\ \A c \in LogOf(reading.url) : c.at <= n
      BY <3>2 DEF ListIInv, LogOf
    <3>4. Newest(LogOf(reading.url)) = {} => LogOf(reading.url) = {}
      BY <3>3, NewestOfSome
    <3>5. AnswerOK(reading')
      BY <2>2, <3>1, <3>4 DEF AnswerOK
    <3> QED
      BY <2>1, <3>5 DEF ListIInv, AnswerOK
  <2>3. CASE \E kind \in {"credentialRejected", "serverUnreachable", "serverError"} :
               reading' = Failed(kind)
    <3>1. reading'.is \notin {"ok", "empty"}
      BY <2>3 DEF Failed
    <3> QED
      BY <2>1, <3>1 DEF ListIInv, AnswerOK
  <2> QED
    BY <1>2, <2>2, <2>3 DEF crossings
<1>3. CASE recordRead
  <2>1. lastRead' = reading /\ recorded' = recorded /\ reading'.is = "none"
    BY <1>3 DEF recordRead, None
  <2> QED
    BY <2>1 DEF ListIInv, AnswerOK
<1> QED
  BY <1>1, <1>2, <1>3 DEF Reader

\* The others touch neither the read nor, but for clearing them, its answer.
LEMMA ListStep ==
  ASSUME ListIInv, [ListNext]_listVars
  PROVE  ListIInv'
<1>1. CASE AppendGeofenceEvent
  <2>1. PICK c \in Crossings : recorded' = recorded \cup {c}
    BY <1>1 DEF AppendGeofenceEvent
  <2>2. reading' = reading /\ lastRead' = lastRead
    BY <1>1 DEF AppendGeofenceEvent, threadVars, surfaceVars
  <2>3. \E n \in Nat : \A x \in recorded' : x.at <= n
    <3>1. PICK n \in Nat : \A x \in recorded : x.at <= n
      BY DEF ListIInv
    <3>2. /\ c.at \in Nat /\ \A x \in recorded : x.at \in Nat
      BY ListAssumption DEF ListIInv
    <3>3. n + c.at \in Nat /\ \A x \in recorded' : x.at <= n + c.at
      BY <2>1, <3>1, <3>2
    <3> QED
      BY <3>3
  <2>4. recorded' \subseteq Crossings
    BY <2>1 DEF ListIInv
  <2> QED
    BY <2>2, <2>3, <2>4 DEF ListIInv, AnswerOK
<1>2. CASE resetList \/ ListProcessDies
  <2>1. /\ reading' = reading \/ reading'.is = "none"
        /\ recorded' = recorded /\ lastRead'.is = "none"
    BY <1>2 DEF resetList, ListProcessDies, Cleared, None
  <2> QED
    BY <2>1 DEF ListIInv, AnswerOK
<1>3. ASSUME reading' = reading, recorded' = recorded, lastRead' = lastRead PROVE ListIInv'
  BY <1>3 DEF ListIInv, AnswerOK
<1>4. CASE \/ Refresh \/ WriteSettings \/ RemovePlace \/ onMessageReceived \/ recordDiscardedPush
           \/ UNCHANGED listVars
  BY <1>3, <1>4 DEF Refresh, WriteSettings, RemovePlace, onMessageReceived, recordDiscardedPush,
                    listVars, threadVars, surfaceVars
<1> QED
  BY <1>1, <1>2, <1>4, ReaderStep DEF ListNext

\* CrossingListView says "no crossings" only of a family that had none when it
\* was asked, with its own token: never for a refused, failed or unread answer.
THEOREM EmptyIsEverTheLog == ListSpec => []EmptyIsTheLog
<1>1. ListInit => ListIInv
  BY DEF ListInit, ListIInv, AnswerOK, None
<1>2. ListIInv => EmptyIsTheLog
  <2> SUFFICES ASSUME ListIInv, listState = "empty"
               PROVE  lastRead.none /\ lastRead.token = lastRead.url
    BY DEF EmptyIsTheLog
  <2>1. lastRead.is = "ok" /\ Rows = {}
    <3>1. CASE lastRead.is = "none"
      BY <3>1, Zenon DEF listState
    <3>2. CASE lastRead.is = "ok"
      BY <3>2, Zenon DEF listState
    <3>3. CASE lastRead.is # "none" /\ lastRead.is # "ok"
      <4>1. listState = lastRead.is
        BY <3>3, Zenon DEF listState
      <4> QED
        BY <4>1 DEF ListIInv, AnswerOK
    <3> QED
      BY <3>1, <3>2, <3>3
  <2>2. lastRead.rows = {}
    BY <2>1 DEF Rows
  <2> QED
    BY <2>1, <2>2 DEF ListIInv, AnswerOK
<1>3. ListIInv /\ [ListNext]_listVars => ListIInv'
  BY ListStep
<1> QED
  BY <1>1, <1>2, <1>3, PTL DEF ListSpec

\* A read made with other settings than the present ones.
Other(x) == x.url # url \/ x.token # token

\* A read with other settings is under way only with the next one behind it: Save
\* asks for one when it has stored the last of the settings, and only the end of the
\* read before lets it begin.
FreshIInv ==
  /\ readTasks \in Nat
  /\ reading.is # "none" /\ Other(reading) => saving.is # "none" \/ readTasks > 0
  /\ StaleListIsReplaced

\* Save and the end of the process.
LEMMA SettingsKeepFresh ==
  ASSUME FreshIInv, WriteSettings \/ resetList \/ ListProcessDies
  PROVE  FreshIInv'
<1>1. CASE WriteSettings
  <2>1. saving'.is # "none" /\ readTasks' = readTasks
    BY <1>1 DEF WriteSettings, SaveUrl, SaveViewerToken, threadVars
  <2> QED
    BY <2>1 DEF FreshIInv, StaleListIsReplaced
<1>2. CASE resetList
  <2>1. readTasks' = readTasks + 1 /\ readTasks' \in Nat /\ readTasks' > 0
    BY <1>2 DEF resetList, refreshInBackground, FreshIInv
  <2> QED
    BY <2>1 DEF FreshIInv, StaleListIsReplaced
<1>3. CASE ListProcessDies
  <2>1. readTasks' = 0 /\ reading'.is = "none" /\ lastRead'.is = "none"
    BY <1>3 DEF ListProcessDies, Cleared, None
  <2> QED
    BY <2>1 DEF FreshIInv, StaleListIsReplaced
<1> QED
  BY <1>1, <1>2, <1>3

\* The thread, which takes the next task when the read before has been recorded.
LEMMA ReaderKeepsFresh ==
  ASSUME FreshIInv, Reader
  PROVE  FreshIInv'
<1>1. CASE ReadBack
  <2>1. /\ readTasks > 0 /\ readTasks' = readTasks - 1 /\ UNCHANGED <<url, token, saving, lastRead>>
        /\ IF readViewerConfig THEN reading' = [is |-> "asking", url |-> url, token |-> token]
                               ELSE reading' = None
    BY <1>1 DEF ReadBack, settingsVars, surfaceVars
  <2>2. readTasks' \in Nat
    BY <2>1 DEF FreshIInv
  <2>3. readViewerConfig' = readViewerConfig
    BY <2>1 DEF readViewerConfig, hasViewerCredential
  <2>4. CASE readViewerConfig
    <3>1. reading'.is = "asking" /\ ~Other(reading)'
      BY <2>1, <2>4 DEF Other
    <3> QED
      BY <2>2, <3>1 DEF FreshIInv, StaleListIsReplaced
  <2>5. CASE ~readViewerConfig
    <3>1. reading'.is = "none"
      BY <2>1, <2>5 DEF None
    <3> QED
      BY <2>2, <2>3, <2>5, <3>1 DEF FreshIInv, StaleListIsReplaced
  <2> QED
    BY <2>4, <2>5
<1>2. CASE crossings
  <2>1. /\ reading.is = "asking" /\ UNCHANGED <<url, token, saving, lastRead, readTasks>>
    BY <1>2 DEF crossings, Untroubled, Troubled, settingsVars, surfaceVars
  <2>2. reading'.is # "none" /\ reading'.url = reading.url /\ reading'.token = reading.token
    BY <1>2 DEF crossings, Listed, Failed
  <2> QED
    BY <2>1, <2>2 DEF FreshIInv, StaleListIsReplaced, Other, readViewerConfig, hasViewerCredential
<1>3. CASE recordRead
  <2>1. /\ reading.is # "none" /\ lastRead' = reading /\ reading'.is = "none"
        /\ UNCHANGED <<url, token, saving, readTasks>>
    BY <1>3 DEF recordRead, settingsVars, None
  <2> QED
    BY <2>1 DEF FreshIInv, StaleListIsReplaced, Other
<1> QED
  BY <1>1, <1>2, <1>3 DEF Reader

\* A configured phone shows another family's list only while a read with its present
\* settings is still to come, for any number of presses of Save, of openings of the
\* app and of deaths of its process (ui/MainActivity.kt:800-809,
\* alert/CrossingsRefresher.kt:22-42).
THEOREM OtherListsAreReplaced == ListSpec => []StaleListIsReplaced
<1>1. ListInit => FreshIInv
  BY DEF ListInit, FreshIInv, StaleListIsReplaced, None
<1>2. ASSUME FreshIInv, [ListNext]_listVars PROVE FreshIInv'
  <2>1. ASSUME UNCHANGED <<url, token, saving, lastRead, reading>>,
               readTasks' \in Nat, readTasks' >= readTasks
        PROVE  FreshIInv'
    BY <1>2, <2>1 DEF FreshIInv, StaleListIsReplaced, Other, readViewerConfig, hasViewerCredential
  <2>2. CASE Refresh
    <3>1. readTasks' = readTasks + 1 /\ UNCHANGED <<url, token, saving, lastRead, reading>>
      BY <2>2 DEF Refresh, refreshInBackground, settingsVars, surfaceVars
    <3> QED
      BY <1>2, <2>1, <3>1 DEF FreshIInv
  <2>3. CASE \/ AppendGeofenceEvent \/ RemovePlace \/ onMessageReceived \/ recordDiscardedPush
             \/ UNCHANGED listVars
    <3>1. UNCHANGED <<url, token, saving, lastRead, reading, readTasks>>
      BY <2>3 DEF AppendGeofenceEvent, RemovePlace, onMessageReceived, recordDiscardedPush,
                  Troubled, listVars, settingsVars, surfaceVars, threadVars
    <3> QED
      BY <1>2, <2>1, <3>1 DEF FreshIInv
  <2> QED
    BY <1>2, <2>2, <2>3, SettingsKeepFresh, ReaderKeepsFresh DEF ListNext
<1>3. FreshIInv => StaleListIsReplaced
  BY DEF FreshIInv
<1> QED
  BY <1>1, <1>2, <1>3, PTL DEF ListSpec
=============================================================================
