----------------------- MODULE CollectionReadoutProofs -----------------------
(***************************************************************************)
(* Proofs about CollectionReadout, on top of those about FixDelivery: the  *)
(* figures of the phone's screen against what became of the fixes.         *)
(***************************************************************************)
EXTENDS CollectionReadout, FixDeliveryProofs, FiniteSetTheorems

\* recordQueued comes after the eviction was counted: the main thread never
\* leaves its handler with an eviction in its hands.
CountedFirst == depth # NotRecorded => evicted = {}

\* A worker that is not inside a flush has published its last report: the next
\* flush opens an empty one.
ReportInHand ==
  \A w \in Workers : wk[w].pc \in {"idle", "start", "batch"} => tally[w] = NoTally

\* The inductive invariant.
RInv ==
  /\ IInv
  /\ ReadoutTypeOK /\ CountedFirst /\ ReportInHand
  /\ NoSilentLoss /\ DeliveredIsStored

\* The readout's part of it.
Figures == ReadoutTypeOK /\ CountedFirst /\ ReportInHand /\ NoSilentLoss /\ DeliveredIsStored

\* queue.size() and queue.depth() are figures the readout can hold.
LEMMA DepthIsACount ==
  ASSUME TypeOK
  PROVE  Depth \in Count /\ Depth # NotRecorded
<1>1. IsFiniteSet(Fix) /\ queue \in SUBSET Fix
  BY FixDeliveryAssumption DEF TypeOK
<1>2. IsFiniteSet(queue) /\ Cardinality(queue) <= Cardinality(Fix)
  BY <1>1, FS_Subset
<1>3. Cardinality(queue) \in Nat /\ Cardinality(Fix) \in Nat
  BY <1>1, <1>2, FS_CardinalityType
<1> QED
  BY <1>2, <1>3 DEF Depth, Count, NotRecorded

\* Every step of the readout is a step of the pipeline, or none of it.
LEMMA StepOfPipeline == ReadoutNext => [Next]_vars
BY DEF ReadoutNext, Next, Main, Worker, MeasureRefused, Measure, WriteFailed, Committed, Trimmed, ReportEvicted,
       Recorded, ReadDepth, Opened, Died, Started, BatchTaken, CountDelivered, CountDiscarded,
       StoppedReport, EndedReport, ReadSize, Published, vars

\* The server never takes a row away.
LEMMA RowsStay == [Next]_vars => rows \subseteq rows'
BY DEF Next, Main, Worker, Server, vars, phone, server, manager, EnqueueRefused, EnqueueWrite, EnqueueFailed,
       EnqueueCommit, trimToCapacity, RecordQueued, OpenApp, SaveConfig, Crash, StartWork, StopWork, doWork,
       TakeBatch, Post, Receive, IOFailure, Deliver, Discard, StopFlush, EndFlush, Publish,
       IngestFix, Refuse, StoreFailure, AgeOut

-----------------------------------------------------------------------------
(* The main thread.                                                        *)

\* What a handler of the main thread drops is counted at once or is in its
\* hands; the workers' reports are not touched.
LEMMA MainFigures ==
  ASSUME RInv, IInv', rows \subseteq rows',
         \/ \E f \in Fix : MeasureRefused(f) \/ Measure(f)
         \/ WriteFailed \/ Committed \/ Trimmed \/ ReportEvicted \/ Recorded
         \/ \E starting \in BOOLEAN : ReadDepth(starting)
         \/ Opened
  PROVE  Figures'
<1> USE DEF RInv, Figures, ReadoutTypeOK, CountedFirst, ReportInHand, NoSilentLoss, DeliveredIsStored
<1>1. ASSUME NEW f \in Fix, MeasureRefused(f) PROVE Figures'
  BY <1>1 DEF MeasureRefused, EnqueueRefused, recordDropped
<1>2. ASSUME NEW f \in Fix, Measure(f) PROVE Figures'
  BY <1>2 DEF Measure, EnqueueWrite, AtRest, readout
<1>3. CASE WriteFailed
  BY <1>3 DEF WriteFailed, EnqueueFailed, MainIdle, recordDropped, IInv, TypeOK
<1>4. CASE Committed
  BY <1>4 DEF Committed, EnqueueCommit, readout
<1>5. CASE Trimmed
  BY <1>5 DEF Trimmed, trimToCapacity, Gone, IInv, TypeOK
<1>6. CASE ReportEvicted
  BY <1>6, DepthIsACount DEF ReportEvicted, recordDroppedBatch, recordDropped, IInv, vars
<1>7. CASE Recorded
  BY <1>7 DEF Recorded, recordQueued, RecordQueued, MainIdle, AtRest, Count
<1>8. ASSUME NEW starting \in BOOLEAN, ReadDepth(starting) PROVE Figures'
  <2>1. /\ depth' = Depth /\ Depth \in Count /\ main.pc = "idle"
        /\ UNCHANGED <<main, wk, rows, tally, evicted>>
    BY <1>8, DepthIsACount DEF ReadDepth, IInv, vars
  <2>2. CASE reset
    <3>1. /\ shown' \in [delivered : SUBSET Fix, dropped : SUBSET Fix, queued : Count]
          /\ shown'.delivered = {} /\ holes' = {}
      BY <2>2 DEF reset
    <3> QED
      BY <2>1, <3>1
  <2>3. CASE UNCHANGED <<shown, holes>>
    BY <2>1, <2>3
  <2> QED
    BY <1>8, <2>2, <2>3 DEF ReadDepth
<1>9. CASE Opened
  BY <1>9 DEF Opened, OpenApp, recordQueued, AtRest, phone, Count
<1> QED
  BY <1>1, <1>2, <1>3, <1>4, <1>5, <1>6, <1>7, <1>8, <1>9

-----------------------------------------------------------------------------
(* The workers, and the process.                                           *)

\* Where a worker is after a step of the flush.  A step of worker w leaves the
\* others' activations alone.
LEMMA FlushStep ==
  ASSUME wk \in [Workers -> Activation], NEW w \in Workers,
         Receive(w) \/ EndFlush(w) \/ TakeBatch(w) \/ Deliver(w) \/ Discard(w)
  PROVE  /\ main' = main /\ \A v \in Workers \ {w} : wk'[v] = wk[v]
         /\ Receive(w)   => wk[w].pc = "wait" /\ wk'[w].pc = "answer"
         /\ EndFlush(w)  => wk[w].pc = "post" /\ wk'[w].pc = "publish"
         /\ TakeBatch(w) => wk[w].pc = "batch" /\ wk'[w].pc = "post"
         /\ Deliver(w) \/ Discard(w) => wk[w].pc = "answer" /\ wk'[w].pc = "post"
<1>1. CASE Receive(w)
  BY <1>1 DEF Receive, EndFlush, TakeBatch, Deliver, Discard, phone, Activation
<1>2. CASE EndFlush(w)
  <2>1. PICK o : wk' = [wk EXCEPT ![w] = [@ EXCEPT !.pc = "publish", !.outcome = o]]
    BY <1>2 DEF EndFlush
  <2> QED
    BY <1>2, <2>1 DEF Receive, EndFlush, TakeBatch, Deliver, Discard, phone, Activation
<1>3. CASE TakeBatch(w)
  <2>1. PICK s : wk' = [wk EXCEPT ![w] = [Idle EXCEPT !.pc = "post", !.batch = s]]
    BY <1>3 DEF TakeBatch
  <2> QED
    BY <1>3, <2>1 DEF Receive, EndFlush, TakeBatch, Deliver, Discard, Idle
<1>4. CASE Deliver(w) \/ Discard(w)
  <2>1. PICK s : wk' = [wk EXCEPT ![w] = [@ EXCEPT !.pc = "post", !.batch = s]]
    BY <1>4 DEF Deliver, Discard
  <2> QED
    BY <1>4, <2>1 DEF Receive, EndFlush, TakeBatch, Deliver, Discard, Activation
<1> QED
  BY <1>1, <1>2, <1>3, <1>4

\* What a worker discards is in its report, which it publishes before it starts
\* another; what it counts as delivered was answered 2xx.
LEMMA WorkerFigures ==
  ASSUME RInv, IInv', rows \subseteq rows', NEW w \in Workers,
         \/ Started(w) \/ BatchTaken(w) \/ CountDelivered(w) \/ CountDiscarded(w)
         \/ StoppedReport(w) \/ EndedReport(w) \/ ReadSize(w) \/ Published(w)
         \/ (StartWork(w) \/ Post(w) \/ Receive(w) \/ IOFailure(w)) /\ UNCHANGED readout
  PROVE  Figures'
<1> USE DEF RInv, Figures, ReadoutTypeOK, CountedFirst, ReportInHand, NoSilentLoss, DeliveredIsStored
<1>1. wk \in [Workers -> Activation] /\ wk' \in [Workers -> Activation]
  BY DEF IInv, TypeOK
<1>2. ASSUME main' = main, \A v \in Workers \ {w} : wk'[v] = wk[v], UNCHANGED readout,
             tally[w].size # NotRecorded => wk'[w].pc = "publish",
             wk'[w].pc \in {"idle", "start", "batch"} => tally[w] = NoTally
      PROVE  Figures'
  BY <1>2 DEF readout
<1>3. CASE Started(w)
  BY <1>1, <1>2, <1>3 DEF Started, doWork, phone, Idle, NoTally
<1>4. CASE (StartWork(w) \/ Post(w) \/ Receive(w) \/ IOFailure(w)) /\ UNCHANGED readout
  <2>1. CASE StartWork(w)
    BY <1>1, <1>2, <1>4, <2>1 DEF StartWork, phone, Idle, NoTally
  <2>2. CASE Post(w)
    BY <1>1, <1>2, <1>4, <2>2 DEF Post, phone, Activation
  <2>3. CASE Receive(w)
    BY <1>1, <1>2, <1>4, <2>3, FlushStep
  <2>4. CASE IOFailure(w)
    BY <1>1, <1>2, <1>4, <2>4 DEF IOFailure, phone, Activation
  <2> QED
    BY <1>4, <2>1, <2>2, <2>3, <2>4
<1>5. CASE StoppedReport(w)
  BY <1>1, <1>2, <1>5 DEF StoppedReport, StopFlush, phone, Activation
<1>6. CASE EndedReport(w)
  BY <1>1, <1>2, <1>6, FlushStep DEF EndedReport
<1>7. CASE BatchTaken(w)
  <2>1. /\ main' = main /\ wk[w].pc = "batch" /\ wk'[w].pc = "post"
        /\ \A v \in Workers \ {w} : wk'[v] = wk[v]
    BY <1>1, <1>7, FlushStep DEF BatchTaken
  <2>2. tally[w].discarded = {} /\ tally[w].delivered = {} /\ Gone \subseteq Fix
    BY <2>1 DEF NoTally, Gone, IInv, TypeOK
  <2>3. /\ tally' \in [Workers -> [delivered : SUBSET Fix, discarded : SUBSET Fix, size : Count]]
        /\ tally'[w].discarded = Gone /\ tally'[w].delivered = {} /\ tally'[w].size = NotRecorded
        /\ \A v \in Workers \ {w} : tally'[v] = tally[v]
    BY <1>7, <2>1, <2>2 DEF BatchTaken, NoTally, Count
  <2> QED
    BY <1>7, <2>1, <2>2, <2>3 DEF BatchTaken
<1>8. CASE CountDelivered(w) \/ CountDiscarded(w)
  <2> DEFINE f == Oldest(wk[w].batch)
  <2>1. /\ main' = main /\ wk[w].pc = "answer" /\ wk'[w].pc = "post"
        /\ \A v \in Workers \ {w} : wk'[v] = wk[v]
    BY <1>1, <1>8, FlushStep DEF CountDelivered, CountDiscarded
  <2>2. f \in Fix
    BY <1>1, <2>1, OldestIsMember DEF IInv, EntryInHand, Activation
  <2>3. CASE CountDelivered(w)
    <3>1. f \in rows
      BY <2>3 DEF CountDelivered, Deliver, IInv, AnswersMatch
    <3>2. tally' = [tally EXCEPT ![w].delivered = @ \cup {f}] /\ UNCHANGED <<shown, evicted, depth, holes>>
      BY <2>3 DEF CountDelivered
    <3> QED
      BY <2>1, <2>2, <3>1, <3>2
  <2>4. CASE CountDiscarded(w)
    <3>1. Gone \subseteq {f}
      BY <2>4 DEF CountDiscarded, Discard, Gone
    <3>2. tally' = [tally EXCEPT ![w].discarded = @ \cup {f}] /\ UNCHANGED <<shown, evicted, depth>>
      BY <2>4 DEF CountDiscarded
    <3>3. holes' = holes \cup Gone
      BY <2>4 DEF CountDiscarded
    <3> QED
      BY <2>1, <2>2, <3>1, <3>2, <3>3
  <2> QED
    BY <1>8, <2>3, <2>4
<1>9. CASE ReadSize(w)
  <2>1. wk[w].pc = "publish" /\ UNCHANGED <<main, wk, rows, shown, evicted, depth, holes>>
    BY <1>9 DEF ReadSize, vars
  <2>2. tally' = [tally EXCEPT ![w].size = Depth] /\ Depth \in Count
    BY <1>9, DepthIsACount DEF ReadSize, IInv
  <2> QED
    BY <2>1, <2>2
<1>10. CASE Published(w)
  <2>1. /\ main' = main /\ wk[w].pc = "publish" /\ wk'[w].pc \in {"idle", "batch"}
        /\ \A v \in Workers \ {w} : wk'[v] = wk[v]
    BY <1>1, <1>10 DEF Published, Publish, phone, Idle
  <2>2. /\ shown'.delivered = shown.delivered \cup tally[w].delivered
        /\ shown'.dropped = shown.dropped \cup tally[w].discarded
        /\ shown' \in [delivered : SUBSET Fix, dropped : SUBSET Fix, queued : Count]
    BY <1>10 DEF Published, recordFlush
  <2>3. /\ NoTally \in [delivered : SUBSET Fix, discarded : SUBSET Fix, size : Count]
        /\ NoTally.delivered = {} /\ NoTally.discarded = {} /\ NoTally.size = NotRecorded
    BY DEF NoTally, Count
  <2>4. tally' = [tally EXCEPT ![w] = NoTally] /\ UNCHANGED <<evicted, depth, holes>>
    BY <1>10 DEF Published
  <2> QED
    BY <2>1, <2>2, <2>3, <2>4
<1> QED
  BY <1>3, <1>4, <1>5, <1>6, <1>7, <1>8, <1>9, <1>10

\* The process's death forgets the figures with everything they were about.
LEMMA DeathFigures ==
  ASSUME RInv, Died
  PROVE  Figures'
BY DEF Died, Crash, NothingShown, NoTally, MainIdle, Idle, Count,
       Figures, ReadoutTypeOK, CountedFirst, ReportInHand, NoSilentLoss, DeliveredIsStored

\* What neither thread of the phone does leaves its threads as they are.
LEMMA ElsewhereFigures ==
  ASSUME RInv, rows \subseteq rows', UNCHANGED <<main, readout>>,
         UNCHANGED wk
  PROVE  Figures'
BY DEF RInv, readout, Figures, ReadoutTypeOK, CountedFirst, ReportInHand, NoSilentLoss, DeliveredIsStored

-----------------------------------------------------------------------------
(* The results.                                                            *)

\* The figures of a fresh process.
LEMMA ReadoutInitRInv == ReadoutInit => RInv
<1> SUFFICES ASSUME ReadoutInit PROVE RInv
  OBVIOUS
<1>1. IInv
  BY InitIInv DEF ReadoutInit
<1> QED
  BY <1>1
  DEF ReadoutInit, Init, RInv, ReadoutTypeOK, CountedFirst, ReportInHand, NoSilentLoss, DeliveredIsStored,
      NothingShown, NoTally, Count

\* Every step preserves the inductive invariant.
LEMMA ReadoutNextRInv == RInv /\ [ReadoutNext]_allVars => RInv'
<1> SUFFICES ASSUME RInv, [ReadoutNext]_allVars PROVE RInv'
  OBVIOUS
<1>1. [Next]_vars
  BY StepOfPipeline DEF allVars
<1>2. IInv' /\ rows \subseteq rows'
  BY <1>1, NextIInv, RowsStay DEF RInv
<1>3. CASE (SaveConfig \/ StopWork \/ Server \/ \E f \in Fix : AgeOut(f)) /\ UNCHANGED readout
  <2>1. UNCHANGED <<main, wk>>
    BY <1>3 DEF SaveConfig, StopWork, Server, IngestFix, Refuse, StoreFailure, AgeOut, phone
  <2> QED
    BY <1>2, <1>3, <2>1, ElsewhereFigures DEF Figures, RInv
<1>4. CASE UNCHANGED allVars
  <2>1. UNCHANGED <<main, wk, readout>>
    BY <1>4 DEF allVars, vars
  <2> QED
    BY <1>2, <2>1, ElsewhereFigures DEF Figures, RInv
<1>5. Figures' => RInv'
  BY <1>2 DEF Figures, RInv
<1> QED
  BY <1>2, <1>3, <1>4, <1>5, MainFigures, WorkerFigures, DeathFigures DEF ReadoutNext

\* The inductive invariant holds throughout.
LEMMA ReadoutInvariant == ReadoutSpec => []RInv
BY ReadoutInitRInv, ReadoutNextRInv, PTL DEF ReadoutSpec

\* With any number of workers flushing while the main thread evicts, and however
\* a flush ends, no fix is given up without being counted as dropped or being in
\* the hands of a thread that will count it (queue/QueueFlusher.kt,
\* collection/CollectionStatus.kt).
THEOREM NoLossIsSilent == ReadoutSpec => []NoSilentLoss
<1>1. RInv => NoSilentLoss
  BY DEF RInv
<1> QED
  BY ReadoutInvariant, <1>1, PTL

\* A fix that is counted as delivered, or is about to be, is in the database:
\* a late, lost or repeated answer never makes the figure too large.
THEOREM DeliveredFigureIsTrue == ReadoutSpec => []DeliveredIsStored
<1>1. RInv => DeliveredIsStored
  BY DEF RInv
<1> QED
  BY ReadoutInvariant, <1>1, PTL
=============================================================================
