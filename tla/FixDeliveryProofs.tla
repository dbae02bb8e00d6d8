-------------------------- MODULE FixDeliveryProofs --------------------------
(***************************************************************************)
(* Proofs about FixDelivery, for every set of fixes and of workers, every  *)
(* capacity and batch limit, and any number of process deaths.             *)
(***************************************************************************)
EXTENDS FixDelivery, TLAPS, FiniteSetTheorems, WellFoundedInduction

\* A worker inside a post has an entry in hand.
EntryInHand == \A w \in Workers : wk[w].pc \in {"wait", "answer"} => wk[w].batch # {}

\* A worker has at most one exchange under way.
OneExchange == \A m, n \in wire : m.by \in Workers /\ m.by = n.by => m = n

\* What is on the wire or in a worker's batch was once committed to disk: it is
\* still there, or the server has it, or it was counted as lost.
Known == queue \cup rows \cup lost

OnceQueued ==
  /\ \A m \in wire : m.fix \in Known
  /\ \A w \in Workers : wk[w].batch \subseteq Known

\* enqueue writes one fix at a time.
OneMeasured == main.pc = "temp" => \E f \in Fix : main.fix = {f}

\* The inductive invariant.
IInv == TypeOK /\ AnswersMatch /\ EntryInHand /\ OneExchange /\ OnceQueued /\ OneMeasured

\* FixQueue.oldest's head: a batch that is not empty has an oldest entry.
LEMMA OldestIsLeast ==
  ASSUME NEW s \in SUBSET Fix, s # {}
  PROVE  Oldest(s) \in s /\ \A g \in s : Oldest(s) <= g
<1>1. s \subseteq Nat
  BY FixDeliveryAssumption
<1> DEFINE less == {p \in Nat \X Nat : p[1] < p[2]}
<1>2. IsWellFoundedOn(less, Nat)
  <2>1. OpToRel(<, Nat) = less
    BY DEF OpToRel
  <2>2. QED
    BY <2>1, NatLessThanWellFounded
<1>3. PICK x \in s : \A y \in s : ~ (<<y, x>> \in less)
  <2> HIDE DEF less
  <2> QED BY <1>1, <1>2, WFMin
<1>4. \A y \in s : x <= y
  <2> TAKE y \in s
  <2>1. y \in Nat /\ x \in Nat
    BY <1>1
  <2>2. y < x => <<y, x>> \in less
    BY <2>1
  <2>3. ~ (<<y, x>> \in less)
    BY <1>3
  <2> QED
    BY <2>1, <2>2, <2>3
<1> QED
  BY <1>4 DEF Oldest

\* It is one of the batch.
LEMMA OldestIsMember ==
  ASSUME NEW s \in SUBSET Fix, s # {}
  PROVE  Oldest(s) \in s
BY OldestIsLeast

\* The initial states satisfy the inductive invariant.
LEMMA InitIInv == Init => IInv
BY FixDeliveryAssumption
DEF Init, IInv, TypeOK, AnswersMatch, EntryInHand, OneExchange, OnceQueued, OneMeasured,
    Activation, Message, Idle, MainIdle, Status, Delivered, Credential, Permanent,
    Transient, Outcomes

\* Every step of the phone, of WorkManager and of the server preserves it.
LEMMA NextIInv == IInv /\ [Next]_vars => IInv'
<1> SUFFICES ASSUME IInv, [Next]_vars PROVE IInv'
  OBVIOUS
<1> USE DEF IInv, phone, manager, server
<1>1. ASSUME NEW f \in Fix, EnqueueRefused(f) PROVE IInv'
  BY <1>1
  DEF EnqueueRefused, TypeOK, AnswersMatch, EntryInHand, OneExchange, OnceQueued, Known,
      OneMeasured
<1>2. ASSUME NEW f \in Fix, EnqueueWrite(f) PROVE IInv'
  BY <1>2
  DEF EnqueueWrite, TypeOK, AnswersMatch, EntryInHand, OneExchange, OnceQueued, Known,
      OneMeasured
<1>3. ASSUME EnqueueFailed PROVE IInv'
  BY <1>3
  DEF EnqueueFailed, MainIdle, TypeOK, AnswersMatch, EntryInHand, OneExchange, OnceQueued,
      Known, OneMeasured
<1>4. ASSUME EnqueueCommit PROVE IInv'
  BY <1>4
  DEF EnqueueCommit, TypeOK, AnswersMatch, EntryInHand, OneExchange, OnceQueued, Known,
      OneMeasured
<1>5. ASSUME trimToCapacity PROVE IInv'
  BY <1>5
  DEF trimToCapacity, Kept, TypeOK, AnswersMatch, EntryInHand, OneExchange, OnceQueued, Known,
      OneMeasured
<1>6. ASSUME RecordQueued PROVE IInv'
  BY <1>6
  DEF RecordQueued, enqueueFlush, MainIdle, TypeOK, AnswersMatch, EntryInHand, OneExchange,
      OnceQueued, Known, OneMeasured
<1>7. ASSUME OpenApp PROVE IInv'
  BY <1>7
  DEF OpenApp, enqueueFlush, TypeOK, AnswersMatch, EntryInHand, OneExchange, OnceQueued,
      Known, OneMeasured
<1>8. ASSUME SaveConfig PROVE IInv'
  BY <1>8
  DEF SaveConfig, enqueueFlush, TypeOK, AnswersMatch, EntryInHand, OneExchange, OnceQueued,
      Known, OneMeasured
<1>9. ASSUME StopWork PROVE IInv'
  BY <1>9
  DEF StopWork, TypeOK, AnswersMatch, EntryInHand, OneExchange, OnceQueued, Known, OneMeasured
<1>10. ASSUME NEW f \in Fix, AgeOut(f) PROVE IInv'
  BY <1>10
  DEF AgeOut, TypeOK, AnswersMatch, EntryInHand, OneExchange, OnceQueued, Known, OneMeasured
<1>11. ASSUME Crash PROVE IInv'
  <2>1. Idle \in Activation
    BY DEF Idle, Activation, Status, Transient, Outcomes
  <2>2. /\ wire' \subseteq Message
        /\ \A m \in wire' : m.by = Nobody /\ \E n \in wire : m.fix = n.fix
    BY <1>11 DEF Crash, TypeOK, Message
  <2> QED
    BY <1>11, <2>1, <2>2, FixDeliveryAssumption
    DEF Crash, MainIdle, Idle, TypeOK, AnswersMatch, EntryInHand, OneExchange, OnceQueued,
        Known, OneMeasured
<1>12. ASSUME NEW w \in Workers, StartWork(w) PROVE IInv'
  BY <1>12
  DEF StartWork, Idle, Activation, Status, Transient, Outcomes, TypeOK, AnswersMatch,
      EntryInHand, OneExchange, OnceQueued, Known, OneMeasured
<1>13. ASSUME NEW w \in Workers, doWork(w) PROVE IInv'
  BY <1>13
  DEF doWork, Finish, Idle, Activation, Status, Transient, Outcomes, TypeOK, AnswersMatch,
      EntryInHand, OneExchange, OnceQueued, Known, OneMeasured
<1>14. ASSUME NEW w \in Workers, Publish(w) PROVE IInv'
  BY <1>14
  DEF Publish, Finish, Idle, Activation, Status, Transient, Outcomes, TypeOK, AnswersMatch,
      EntryInHand, OneExchange, OnceQueued, Known, OneMeasured
<1>15. ASSUME NEW w \in Workers, StopFlush(w) PROVE IInv'
  <2>1. PICK o \in Outcomes : wk' = [wk EXCEPT ![w] = [@ EXCEPT !.pc = "publish", !.batch = {}, !.outcome = o]]
    BY <1>15 DEF StopFlush, Outcomes
  <2>2. [wk[w] EXCEPT !.pc = "publish", !.batch = {}, !.outcome = o] \in Activation
    BY DEF TypeOK, Activation
  <2> QED
    BY <1>15, <2>1, <2>2
    DEF StopFlush, Activation, TypeOK, AnswersMatch, EntryInHand, OneExchange, OnceQueued, Known,
        OneMeasured
<1>16. ASSUME NEW w \in Workers, EndFlush(w) PROVE IInv'
  <2>1. PICK o \in Outcomes : wk' = [wk EXCEPT ![w] = [@ EXCEPT !.pc = "publish", !.outcome = o]]
    BY <1>16 DEF EndFlush, Outcomes
  <2>2. [wk[w] EXCEPT !.pc = "publish", !.outcome = o] \in Activation
    BY DEF TypeOK, Activation
  <2>3. TypeOK' /\ OneMeasured'
    BY <1>16, <2>1, <2>2 DEF EndFlush, TypeOK, OneMeasured
  <2>4. AnswersMatch' /\ EntryInHand' /\ OneExchange' /\ OnceQueued'
    BY <1>16, <2>1
    DEF EndFlush, TypeOK, Activation, AnswersMatch, EntryInHand, OneExchange, OnceQueued, Known
  <2> QED
    BY <2>3, <2>4
<1>17. ASSUME NEW w \in Workers, TakeBatch(w) PROVE IInv'
  <2>1. PICK bad \in SUBSET queue :
          LET gone == Scanned(bad) \cap bad IN
          /\ queue' = queue \ gone
          /\ lost' = lost \cup gone
          /\ wk' = [wk EXCEPT ![w] = [Idle EXCEPT !.pc = "post", !.batch = Scanned(bad) \ bad]]
    BY <1>17 DEF TakeBatch
  <2>2. Scanned(bad) \subseteq queue
    BY DEF Scanned
  <2>3. [Idle EXCEPT !.pc = "post", !.batch = Scanned(bad) \ bad] \in Activation
    BY <2>2 DEF TypeOK, Idle, Activation, Status, Transient, Outcomes
  <2> QED
    BY <1>17, <2>1, <2>2, <2>3
    DEF TakeBatch, Idle, TypeOK, AnswersMatch, EntryInHand, OneExchange, OnceQueued, Known,
        OneMeasured
<1>18. ASSUME NEW w \in Workers, Post(w) PROVE IInv'
  <2> DEFINE f == Oldest(wk[w].batch)
             r == [fix |-> f, by |-> w, status |-> "request"]
  <2>1. f \in wk[w].batch /\ wk[w].batch \subseteq Fix
    BY <1>18, OldestIsMember DEF Post, TypeOK, Activation
  <2>2. /\ wire' = wire \cup {r} /\ r \in Message
        /\ \A m \in wire : m.by # w
    BY <1>18, <2>1 DEF Post, Message, AnswersMatch
  <2>3. wk' = [wk EXCEPT ![w].pc = "wait"] /\ wk' \in [Workers -> Activation]
    BY <1>18 DEF Post, TypeOK, Activation
  <2>4. TypeOK' /\ OneMeasured'
    BY <1>18, <2>2, <2>3 DEF Post, TypeOK, OneMeasured
  <2>5. AnswersMatch' /\ EntryInHand'
    BY <1>18, <2>1, <2>2, <2>3 DEF Post, TypeOK, AnswersMatch, EntryInHand, Delivered
  <2>6. OneExchange'
    BY <2>2 DEF OneExchange
  <2>7. OnceQueued'
    BY <1>18, <2>1, <2>2, <2>3 DEF Post, TypeOK, OnceQueued, Known
  <2> QED
    BY <2>4, <2>5, <2>6, <2>7
<1>19. ASSUME NEW w \in Workers, Receive(w) PROVE IInv'
  <2>1. PICK m \in wire :
          /\ m.by = w /\ m.status # "request"
          /\ wire' = wire \ {m}
          /\ wk' = [wk EXCEPT ![w] = [@ EXCEPT !.pc = "answer", !.ans = m.status]]
    BY <1>19 DEF Receive
  <2>2. [wk[w] EXCEPT !.pc = "answer", !.ans = m.status] \in Activation
    BY <2>1 DEF TypeOK, Activation, Message
  <2>3. TypeOK' /\ OneMeasured'
    BY <1>19, <2>1, <2>2 DEF Receive, TypeOK, OneMeasured
  <2>4. \A n \in wire' : n.by # w
    BY <2>1 DEF OneExchange
  <2>5. /\ m.status \in Delivered => m.fix \in rows
        /\ m.fix = Oldest(wk[w].batch)
    BY <2>1 DEF AnswersMatch
  <2>6. AnswersMatch'
    BY <1>19, <2>1, <2>4, <2>5 DEF Receive, TypeOK, AnswersMatch, Activation
  <2>7. EntryInHand' /\ OneExchange' /\ OnceQueued'
    BY <1>19, <2>1 DEF Receive, TypeOK, Activation, EntryInHand, OneExchange, OnceQueued, Known
  <2> QED
    BY <2>3, <2>6, <2>7
<1>20. ASSUME NEW w \in Workers, IOFailure(w) PROVE IInv'
  <2>1. [wk[w] EXCEPT !.pc = "answer", !.ans = "io"] \in Activation
    BY DEF TypeOK, Activation, Status, Transient
  <2>2. wire' \subseteq Message /\ \A m \in wire' : m.by # w
    BY <1>20, FixDeliveryAssumption DEF IOFailure, TypeOK, Message
  <2>3. \A m \in wire' : m.by \in Workers => m \in wire
    BY <1>20, FixDeliveryAssumption DEF IOFailure, TypeOK, Message
  <2>4. \A m \in wire' : \E n \in wire : m.fix = n.fix
    BY <1>20 DEF IOFailure, TypeOK, Message
  <2>5. TypeOK' /\ OneMeasured'
    BY <1>20, <2>1, <2>2 DEF IOFailure, TypeOK, OneMeasured
  <2>6. AnswersMatch' /\ EntryInHand' /\ OneExchange'
    BY <1>20, <2>2, <2>3
    DEF IOFailure, TypeOK, Activation, AnswersMatch, EntryInHand, OneExchange, Delivered
  <2>7. OnceQueued'
    BY <1>20, <2>4 DEF IOFailure, TypeOK, Activation, OnceQueued, Known
  <2> QED
    BY <2>5, <2>6, <2>7
<1>21. ASSUME NEW w \in Workers, Deliver(w) PROVE IInv'
  <2> DEFINE f == Oldest(wk[w].batch)
             a == [wk[w] EXCEPT !.pc = "post", !.batch = wk[w].batch \ {f}]
  <2>1. f \in rows
    BY <1>21 DEF Deliver, AnswersMatch
  <2>2. wk' = [wk EXCEPT ![w] = a] /\ a \in Activation /\ a.batch \subseteq wk[w].batch
    <3>1. wk' = [wk EXCEPT ![w] = a]
      BY <1>21 DEF Deliver
    <3>2. a \in Activation /\ a.batch \subseteq wk[w].batch
      BY DEF TypeOK, Activation
    <3> QED
      BY <3>1, <3>2
  <2>3. TypeOK' /\ OneMeasured'
    BY <1>21, <2>2 DEF Deliver, TypeOK, OneMeasured
  <2>4. AnswersMatch' /\ EntryInHand' /\ OneExchange'
    BY <1>21 DEF Deliver, TypeOK, Activation, AnswersMatch, EntryInHand, OneExchange
  <2>5. OnceQueued'
    <3>1. Known' = Known
      BY <1>21, <2>1 DEF Deliver, Known
    <3>2. \A v \in Workers : wk'[v].batch \subseteq wk[v].batch
      BY <2>2 DEF TypeOK
    <3> QED
      BY <1>21, <3>1, <3>2 DEF Deliver, OnceQueued
  <2> QED
    BY <2>3, <2>4, <2>5
<1>22. ASSUME NEW w \in Workers, Discard(w) PROVE IInv'
  <2> DEFINE f == Oldest(wk[w].batch)
             a == [wk[w] EXCEPT !.pc = "post", !.batch = wk[w].batch \ {f}]
  <2>1. f \in Fix
    BY <1>22, OldestIsMember DEF Discard, TypeOK, Activation, EntryInHand
  <2>2. wk' = [wk EXCEPT ![w] = a] /\ a \in Activation /\ a.batch \subseteq wk[w].batch
    <3>1. wk' = [wk EXCEPT ![w] = a]
      BY <1>22 DEF Discard
    <3>2. a \in Activation /\ a.batch \subseteq wk[w].batch
      BY DEF TypeOK, Activation
    <3> QED
      BY <3>1, <3>2
  <2>3. TypeOK' /\ OneMeasured'
    BY <1>22, <2>1, <2>2 DEF Discard, TypeOK, OneMeasured
  <2>4. AnswersMatch' /\ EntryInHand' /\ OneExchange'
    BY <1>22 DEF Discard, TypeOK, Activation, AnswersMatch, EntryInHand, OneExchange
  <2>5. OnceQueued'
    <3>1. Known \subseteq Known'
      BY <1>22 DEF Discard, Known
    <3>2. \A v \in Workers : wk'[v].batch \subseteq wk[v].batch
      BY <2>2 DEF TypeOK
    <3> QED
      BY <1>22, <3>1, <3>2 DEF Discard, OnceQueued
  <2> QED
    BY <2>3, <2>4, <2>5
<1>23. ASSUME NEW r \in Requests, IngestFix(r) PROVE IInv'
  BY <1>23, FixDeliveryAssumption
  DEF IngestFix, Requests, Answer, Message, Status, Delivered, Credential, Permanent,
      Transient, TypeOK, AnswersMatch, EntryInHand, OneExchange, OnceQueued, Known, OneMeasured
<1>24. ASSUME NEW r \in Requests, Refuse(r) PROVE IInv'
  BY <1>24, FixDeliveryAssumption
  DEF Refuse, Requests, Answer, Message, Status, Delivered, Credential, Permanent, Transient,
      TypeOK, AnswersMatch, EntryInHand, OneExchange, OnceQueued, Known, OneMeasured
<1>25. ASSUME NEW r \in Requests, StoreFailure(r) PROVE IInv'
  BY <1>25, FixDeliveryAssumption
  DEF StoreFailure, Requests, Answer, Message, Status, Delivered, Credential, Permanent,
      Transient, TypeOK, AnswersMatch, EntryInHand, OneExchange, OnceQueued, Known, OneMeasured
<1>26. CASE UNCHANGED vars
  BY <1>26
  DEF vars, TypeOK, AnswersMatch, EntryInHand, OneExchange, OnceQueued, Known, OneMeasured
<1> QED
  BY <1>1, <1>2, <1>3, <1>4, <1>5, <1>6, <1>7, <1>8, <1>9, <1>10, <1>11, <1>12, <1>13, <1>14,
     <1>15, <1>16, <1>17, <1>18, <1>19, <1>20, <1>21, <1>22, <1>23, <1>24, <1>25, <1>26
  DEF Next, Main, Worker, Server

\* The pipeline's state satisfies the inductive invariant for ever.
LEMMA Invariance == Spec => []IInv
BY InitIInv, NextIInv, PTL DEF Spec

\* The state of FixQueue, FixUploadWorker, WorkManager and the server stays
\* within its types.
THEOREM TypeCorrect == Spec => []TypeOK
<1>1. IInv => TypeOK
  BY DEF IInv
<1> QED
  BY <1>1, Invariance, PTL

\* QueueFlusher removes an entry on a 2xx only when the server has that very fix:
\* an answer never retires another entry, whatever is lost, late or duplicated.
THEOREM AnswersAlwaysMatch == Spec => []AnswersMatch
<1>1. IInv => AnswersMatch
  BY DEF IInv
<1> QED
  BY <1>1, Invariance, PTL
-----------------------------------------------------------------------------
(* The queue's capacity.                                                   *)

\* A set of fixes is finite, and a part of it has no more elements.
LEMMA FixesAreFinite ==
  ASSUME NEW s \in SUBSET Fix, NEW t \in SUBSET s
  PROVE  /\ IsFiniteSet(s) /\ IsFiniteSet(t)
         /\ Cardinality(s) \in Nat /\ Cardinality(t) \in Nat /\ Cardinality(t) <= Cardinality(s)
<1>1. IsFiniteSet(s)
  BY FixDeliveryAssumption, FS_Subset
<1>2. IsFiniteSet(t) /\ Cardinality(t) <= Cardinality(s)
  BY <1>1, FS_Subset
<1> QED
  BY <1>1, <1>2, FS_CardinalityType

\* trimToCapacity: of the entries it keeps, all but the oldest are newer than
\* the oldest, and fewer than Capacity entries are.
LEMMA KeptFits ==
  ASSUME TypeOK
  PROVE  Kept \subseteq queue /\ Cardinality(Kept) \in Nat /\ Cardinality(Kept) <= Capacity
<1>1. Kept \subseteq queue /\ queue \in SUBSET Fix /\ Kept \in SUBSET Fix
  BY DEF Kept, TypeOK
<1>2. IsFiniteSet(Kept) /\ Cardinality(Kept) \in Nat
  BY <1>1, FixesAreFinite
<1>3. CASE Kept = {}
  BY <1>1, <1>3, FS_EmptySet, FixDeliveryAssumption
<1>4. CASE Kept # {}
  <2> DEFINE m     == Oldest(Kept)
             newer == {g \in queue : g > m}
             rest  == Kept \ {m}
  <2>1. m \in Kept /\ \A g \in Kept : m <= g
    BY <1>1, <1>4, OldestIsLeast
  <2>2. newer \in SUBSET queue /\ Cardinality(newer) < Capacity
    BY <2>1 DEF Kept
  <2>3. rest \in SUBSET newer
    <3> SUFFICES ASSUME NEW g \in Kept, g # m PROVE g \in queue /\ g > m
      OBVIOUS
    <3>1. g \in Nat /\ m \in Nat
      BY <1>1, <2>1, FixDeliveryAssumption
    <3> QED
      BY <1>1, <2>1, <3>1
  <2>4. newer \in SUBSET Fix
    BY <1>1, <2>2
  <2> HIDE DEF newer, rest
  <2>5. Cardinality(rest) \in Nat /\ Cardinality(newer) \in Nat /\ Cardinality(rest) <= Cardinality(newer)
    BY <2>3, <2>4, FixesAreFinite
  <2>6. Cardinality(rest) = Cardinality(Kept) - 1
    BY <1>2, <2>1, FS_RemoveElement DEF rest
  <2> QED
    BY <1>1, <1>2, <2>2, <2>5, <2>6, FixDeliveryAssumption
<1> QED
  BY <1>3, <1>4

\* Between rename and trim there may be one entry more.
Room == Cardinality(queue) <= Capacity + crashes + (IF main.pc = "trim" THEN 1 ELSE 0)

\* A step that adds no entry, and does not end the trimming, leaves room.
LEMMA RoomKept ==
  ASSUME TypeOK, Room, queue' \subseteq queue, crashes' \in Nat,
         \/ crashes <= crashes' /\ main'.pc = main.pc
         \/ crashes <= crashes' /\ main.pc # "trim"
         \/ crashes' = crashes + 1
  PROVE  Room'
<1>1. Cardinality(queue) \in Nat /\ Cardinality(queue') \in Nat /\ Cardinality(queue') <= Cardinality(queue)
  BY FixesAreFinite DEF TypeOK
<1>2. Capacity \in Nat /\ crashes \in Nat
  BY FixDeliveryAssumption DEF TypeOK
<1> QED
  BY <1>1, <1>2 DEF Room

\* Every step leaves room.
LEMMA RoomStep == IInv /\ Room /\ [Next]_vars => Room'
<1> SUFFICES ASSUME IInv, Room, [Next]_vars PROVE Room'
  OBVIOUS
<1>1. TypeOK /\ TypeOK'
  BY NextIInv DEF IInv
<1>2. Capacity \in Nat /\ crashes \in Nat /\ crashes' \in Nat
  BY <1>1, FixDeliveryAssumption DEF TypeOK
<1>3. CASE EnqueueCommit
  <2>1. PICK f \in Fix : main.fix = {f}
    BY <1>3 DEF EnqueueCommit, IInv, OneMeasured
  <2>2. IsFiniteSet(queue) /\ Cardinality(queue) \in Nat
    BY <1>1, FixesAreFinite DEF TypeOK
  <2>3. Cardinality(queue \cup {f}) = IF f \in queue THEN Cardinality(queue) ELSE Cardinality(queue) + 1
    BY <2>2, FS_AddElement, Zenon
  <2>4. /\ queue' = queue \cup {f} /\ main.pc = "temp" /\ main'.pc = "trim" /\ crashes' = crashes
    BY <1>3, <2>1 DEF EnqueueCommit
  <2> QED
    BY <1>2, <2>2, <2>3, <2>4 DEF Room
<1>4. CASE trimToCapacity
  <2>1. queue' = Kept /\ main'.pc = "record" /\ crashes' = crashes
    BY <1>1, <1>4 DEF trimToCapacity, TypeOK
  <2> QED
    BY <1>1, <1>2, <2>1, KeptFits DEF Room
<1>5. CASE Crash
  BY <1>1, <1>2, <1>5, RoomKept DEF Crash
<1>6. CASE (\E f \in Fix : EnqueueRefused(f) \/ EnqueueWrite(f)) \/ EnqueueFailed \/ RecordQueued \/ OpenApp
  <2>1. queue' = queue /\ crashes' = crashes /\ main.pc # "trim"
    BY <1>6 DEF EnqueueRefused, EnqueueWrite, EnqueueFailed, RecordQueued, OpenApp, phone
  <2> QED
    BY <1>1, <1>2, <2>1, RoomKept
<1>7. CASE (\E w \in Workers : StartWork(w) \/ Worker(w)) \/ SaveConfig \/ StopWork \/ Server
             \/ (\E f \in Fix : AgeOut(f)) \/ UNCHANGED vars
  <2>1. queue' \subseteq queue /\ crashes' = crashes /\ main' = main
    BY <1>7 DEF StartWork, Worker, doWork, TakeBatch, Post, Receive, IOFailure, Deliver, Discard, StopFlush,
                EndFlush, Publish, SaveConfig, StopWork, Server, IngestFix, Refuse, StoreFailure, AgeOut,
                phone, vars
  <2> QED
    BY <1>1, <1>2, <2>1, RoomKept
<1> QED
  BY <1>3, <1>4, <1>5, <1>6, <1>7 DEF Next, Main

\* However many entries are committed and however often the process dies in
\* between, FixQueue holds no more than its capacity and one entry per death
\* between rename and trim (queue/FixQueue.kt, enqueue and trimToCapacity).
THEOREM CapacityHolds == Spec => []WithinCapacity
<1>1. Init => Room
  BY FixDeliveryAssumption, FS_EmptySet DEF Init, Room, MainIdle
<1>2. IInv /\ Room => WithinCapacity
  <2> SUFFICES ASSUME IInv, Room, ~Locked PROVE Cardinality(queue) <= Capacity + crashes
    BY DEF WithinCapacity
  <2>1. Capacity + crashes \in Nat
    BY FixDeliveryAssumption DEF IInv, TypeOK
  <2>2. Cardinality(queue) <= Capacity + crashes + 0
    BY DEF Room, Locked
  <2> QED
    BY <2>1, <2>2
<1> QED
  BY <1>1, <1>2, RoomStep, Invariance, PTL DEF Spec
-----------------------------------------------------------------------------
(* The pipeline implements FixTrail.                                       *)

\* Where a fix stands depends on the disk, the rows and the losses alone.
LEMMA SameStanding ==
  ASSUME UNCHANGED <<queue, rows, lost>>
  PROVE  UNCHANGED Standing
BY DEF Standing

\* A fix is committed to disk.
LEMMA HoldStep ==
  ASSUME NEW f \in Fix, queue' = queue \cup {f}, UNCHANGED <<rows, lost>>
  PROVE  [Trail!TrailNext]_Standing
<1>1. CASE f \in queue \cup rows
  BY <1>1 DEF Standing
<1>2. CASE f \notin queue \cup rows
  <2>1. Trail!Hold(f)
    BY <1>2 DEF Trail!Hold, Standing
  <2> QED
    BY <2>1 DEF Trail!TrailNext
<1> QED
  BY <1>1, <1>2

\* The server commits a fix that was once on the phone's disk.
LEMMA StoreStep ==
  ASSUME NEW f \in Known, f \in Fix, rows' = rows \cup {f}, UNCHANGED <<queue, lost>>
  PROVE  [Trail!TrailNext]_Standing
<1>1. CASE f \in rows
  BY <1>1 DEF Standing
<1>2. CASE f \notin rows
  <2>1. Trail!Store(f)
    BY <1>2 DEF Trail!Store, Standing, Known
  <2> QED
    BY <2>1 DEF Trail!TrailNext
<1> QED
  BY <1>1, <1>2

\* The phone counts fixes as lost; those of them that were on disk are gone.
LEMMA GiveUpStep ==
  ASSUME NEW s \in SUBSET Fix, queue \ s \subseteq queue', queue' \subseteq queue,
         lost' = lost \cup s, rows' = rows
  PROVE  [Trail!TrailNext]_Standing
<1> DEFINE t == {f \in s : f \notin rows \cup queue' /\ (f \in queue \/ f \notin lost)}
<1>1. Trail!GiveUp(t)
  BY DEF Trail!GiveUp, Standing
<1>2. t \in SUBSET Fix
  OBVIOUS
<1> QED
  BY <1>1, <1>2 DEF Trail!TrailNext

\* An entry the server has leaves the disk.
LEMMA RetireStep ==
  ASSUME NEW f \in rows, queue' = queue \ {f}, UNCHANGED <<rows, lost>>
  PROVE  UNCHANGED Standing
BY DEF Standing

\* Every step of the pipeline is a step of FixTrail, or none.
LEMMA StepRefines == IInv /\ [Next]_vars => [Trail!TrailNext]_Standing
<1> SUFFICES ASSUME IInv, [Next]_vars PROVE [Trail!TrailNext]_Standing
  OBVIOUS
<1> USE DEF IInv
<1>1. ASSUME NEW f \in Fix, EnqueueRefused(f) PROVE [Trail!TrailNext]_Standing
  BY <1>1, GiveUpStep DEF EnqueueRefused, server
<1>2. CASE EnqueueFailed
  BY <1>2, GiveUpStep DEF EnqueueFailed, server, TypeOK
<1>3. CASE EnqueueCommit
  <2>1. PICK f \in Fix : main.fix = {f}
    BY <1>3 DEF EnqueueCommit, OneMeasured
  <2> QED
    BY <1>3, <2>1, HoldStep DEF EnqueueCommit, server
<1>4. CASE trimToCapacity
  <2>1. Kept \subseteq queue
    BY DEF Kept
  <2> QED
    BY <1>4, <2>1, GiveUpStep DEF trimToCapacity, server, TypeOK
<1>5. ASSUME NEW w \in Workers, TakeBatch(w) PROVE [Trail!TrailNext]_Standing
  <2>1. PICK gone \in SUBSET queue : queue' = queue \ gone /\ lost' = lost \cup gone
    BY <1>5 DEF TakeBatch, Scanned
  <2> QED
    BY <1>5, <2>1, GiveUpStep DEF TakeBatch, server, TypeOK
<1>6. ASSUME NEW w \in Workers, Deliver(w) PROVE [Trail!TrailNext]_Standing
  BY <1>6, RetireStep DEF Deliver, AnswersMatch, server
<1>7. ASSUME NEW w \in Workers, Discard(w) PROVE [Trail!TrailNext]_Standing
  <2>1. Oldest(wk[w].batch) \in Fix
    BY <1>7, OldestIsMember DEF Discard, TypeOK, Activation, EntryInHand
  <2> QED
    BY <1>7, <2>1, GiveUpStep DEF Discard, server
<1>8. ASSUME NEW r \in Requests, IngestFix(r) \/ StoreFailure(r)
      PROVE  [Trail!TrailNext]_Standing
  <2>1. r.fix \in Known /\ r.fix \in Fix
    BY DEF Requests, OnceQueued, TypeOK, Message
  <2>2. rows' = rows \/ rows' = rows \cup {r.fix}
    BY <1>8 DEF IngestFix, StoreFailure
  <2> QED
    BY <1>8, <2>1, <2>2, StoreStep, SameStanding DEF IngestFix, StoreFailure, phone
<1>9. CASE UNCHANGED <<queue, rows, lost>>
  BY <1>9, SameStanding
<1>10. \/ \E f \in Fix : EnqueueRefused(f)
       \/ EnqueueFailed \/ EnqueueCommit \/ trimToCapacity
       \/ \E w \in Workers : TakeBatch(w) \/ Deliver(w) \/ Discard(w)
       \/ \E r \in Requests : IngestFix(r) \/ StoreFailure(r)
       \/ UNCHANGED <<queue, rows, lost>>
  BY DEF Next, Main, Worker, Server, vars, phone, server, EnqueueWrite, RecordQueued, OpenApp,
         SaveConfig, Crash, StartWork, StopWork, doWork, Post, Receive, IOFailure, StopFlush,
         EndFlush, Publish, Refuse, AgeOut
<1> QED
  BY <1>1, <1>2, <1>3, <1>4, <1>5, <1>6, <1>7, <1>8, <1>9, <1>10

\* Durability, for every instance: the phone's queue, its workers and the server
\* implement FixTrail.  No fix leaves the disk unless the server has its row or
\* the loss has been counted, and no row is ever taken away.
THEOREM Durability == Spec => ImplementsTrail
<1>1. Init => Trail!TrailInit
  BY DEF Init, Trail!TrailInit, Standing
<1>2. IInv /\ [Next]_vars => [Trail!TrailNext]_Standing
  BY StepRefines
<1> QED
  BY <1>1, <1>2, Invariance, PTL DEF Spec, ImplementsTrail, Trail!TrailSpec
=============================================================================
