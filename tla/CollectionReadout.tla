------------------------- MODULE CollectionReadout -------------------------
(***************************************************************************)
(* CollectionStatus, the figures the phone's screen shows about the        *)
(* pipeline of FixDelivery: how many fixes were delivered, dropped, and    *)
(* are still queued (the sentence about the last trouble is left out).     *)
(* FixDelivery's steps are taken with what they do to the figures; the     *)
(* reads of the queue's depth that precede an update are steps of their    *)
(* own, since another thread runs between the read and the update.         *)
(*                                                                         *)
(* `delivered' and `dropped' are modelled as the sets of fixes counted,    *)
(* and a counter that is not recorded yet (null) as the empty set.         *)
(***************************************************************************)
EXTENDS FixDelivery

VARIABLES
  shown,    \* what CollectionStatus holds
  tally,    \* each worker's FlushReport in the making
  evicted,  \* EnqueueResult.Queued.evicted, in the main thread's hands
  depth,    \* a depth() the main thread has read and not recorded yet
  holes     \* history: fixes given up since the figures were last reset

NotRecorded == -1

NoTally == [delivered |-> {}, discarded |-> {}, size |-> NotRecorded]

NothingShown == [delivered |-> {}, dropped |-> {}, queued |-> NotRecorded]

readout == <<shown, tally, evicted, depth, holes>>
allVars == <<vars, readout>>

Count == {NotRecorded} \cup (0 .. Cardinality(Fix))

ReadoutTypeOK ==
  /\ shown \in [delivered : SUBSET Fix, dropped : SUBSET Fix, queued : Count]
  /\ tally \in [Workers -> [delivered : SUBSET Fix, discarded : SUBSET Fix, size : Count]]
  /\ evicted \subseteq Fix /\ depth \in Count /\ holes \subseteq Fix
  /\ evicted # {} => main.pc = "record"
  /\ depth # NotRecorded => main.pc \in {"idle", "record"}
  /\ \A w \in Workers : tally[w].size # NotRecorded => wk[w].pc = "publish"

ReadoutInit ==
  /\ Init
  /\ shown = NothingShown
  /\ tally = [w \in Workers |-> NoTally]
  /\ evicted = {} /\ depth = NotRecorded /\ holes = {}

\* The entries the current step takes off the disk.
Gone == queue \ queue'
-----------------------------------------------------------------------------
(* The main thread.                                                        *)

\* The main thread is in none of its handlers.
AtRest == depth = NotRecorded

\* FixQueue's depth() and size(): the committed entries.
Depth == Cardinality(queue)

\* A collection run starts: its counters are zero, `queued' stays.
reset == shown' = [shown EXCEPT !.delivered = {}, !.dropped = {}] /\ holes' = {}

recordDropped(s) == shown' = [shown EXCEPT !.dropped = @ \cup s]

recordDroppedBatch(s) == IF s = {} THEN UNCHANGED shown ELSE recordDropped(s)

MeasureRefused(f) ==
  /\ AtRest /\ EnqueueRefused(f)
  /\ recordDropped({f}) /\ holes' = holes \cup {f}
  /\ UNCHANGED <<tally, evicted, depth>>

Measure(f) == AtRest /\ EnqueueWrite(f) /\ UNCHANGED readout

WriteFailed ==
  /\ EnqueueFailed
  /\ recordDropped(main.fix) /\ holes' = holes \cup main.fix
  /\ UNCHANGED <<tally, evicted, depth>>

Committed == EnqueueCommit /\ UNCHANGED readout

Trimmed ==
  /\ trimToCapacity
  /\ evicted' = Gone /\ holes' = holes \cup Gone
  /\ UNCHANGED <<shown, tally, depth>>

\* The eviction is counted, and queue.depth() read.
ReportEvicted ==
  /\ main.pc = "record" /\ AtRest
  /\ recordDroppedBatch(evicted)
  /\ evicted' = {} /\ depth' = Depth
  /\ UNCHANGED <<vars, tally, holes>>

recordQueued ==
  /\ ~AtRest
  /\ shown' = [shown EXCEPT !.queued = depth]
  /\ depth' = NotRecorded
  /\ UNCHANGED <<tally, evicted, holes>>

Recorded == RecordQueued /\ recordQueued

\* MainActivity.onCreate reads the depth; so does onStartCommand of a
\* configured service, after it has reset the counters of the run.
ReadDepth(starting) ==
  /\ main.pc = "idle" /\ AtRest
  /\ IF starting THEN config /\ reset ELSE UNCHANGED <<shown, holes>>
  /\ depth' = Depth
  /\ UNCHANGED <<vars, tally, evicted>>

Opened == OpenApp /\ recordQueued

\* The figures describe a process: after its death nothing is recorded.
Died ==
  /\ Crash
  /\ shown' = NothingShown /\ tally' = [w \in Workers |-> NoTally]
  /\ evicted' = {} /\ depth' = NotRecorded /\ holes' = {}
-----------------------------------------------------------------------------
(* The workers.                                                            *)

Started(w) == doWork(w) /\ UNCHANGED readout

\* The unreadable entries open the report.
BatchTaken(w) ==
  /\ TakeBatch(w)
  /\ tally' = [tally EXCEPT ![w] = [NoTally EXCEPT !.discarded = Gone]]
  /\ holes' = holes \cup Gone
  /\ UNCHANGED <<shown, evicted, depth>>

CountDelivered(w) ==
  /\ Deliver(w)
  /\ tally' = [tally EXCEPT ![w].delivered = @ \cup {Oldest(wk[w].batch)}]
  /\ UNCHANGED <<shown, evicted, depth, holes>>

CountDiscarded(w) ==
  /\ Discard(w)
  /\ tally' = [tally EXCEPT ![w].discarded = @ \cup {Oldest(wk[w].batch)}]
  /\ holes' = holes \cup Gone
  /\ UNCHANGED <<shown, evicted, depth>>

\* Mutant of StoppedReport: the early returns forget what was discarded so far.
StoppedReportEmpty(w) ==
  /\ StopFlush(w)
  /\ tally' = [tally EXCEPT ![w] = NoTally]
  /\ UNCHANGED <<shown, evicted, depth, holes>>

\* The reports of CredentialRejected and Deferred keep both counts so far.
StoppedReport(w) == StopFlush(w) /\ UNCHANGED readout

EndedReport(w) == EndFlush(w) /\ UNCHANGED readout

\* publish evaluates queue.size() before it enters recordFlush.
ReadSize(w) ==
  /\ wk[w].pc = "publish" /\ tally[w].size = NotRecorded /\ ~Locked
  /\ tally' = [tally EXCEPT ![w].size = Depth]
  /\ UNCHANGED <<vars, shown, evicted, depth, holes>>

recordFlush(w) ==
  LET t == tally[w] IN
  shown' = [delivered |-> shown.delivered \cup t.delivered,
            dropped |-> shown.dropped \cup t.discarded,
            queued |-> t.size]

Published(w) ==
  /\ tally[w].size # NotRecorded
  /\ Publish(w)
  /\ recordFlush(w)
  /\ tally' = [tally EXCEPT ![w] = NoTally]
  /\ UNCHANGED <<evicted, depth, holes>>
-----------------------------------------------------------------------------
ReadoutNext ==
  \/ \E f \in Fix : MeasureRefused(f) \/ Measure(f)
  \/ WriteFailed \/ Committed \/ Trimmed \/ ReportEvicted \/ Recorded
  \/ \E starting \in BOOLEAN : ReadDepth(starting)
  \/ Opened \/ Died
  \/ \E w \in Workers :
       \/ Started(w) \/ BatchTaken(w) \/ CountDelivered(w) \/ CountDiscarded(w)
       \/ StoppedReport(w) \/ EndedReport(w) \/ ReadSize(w) \/ Published(w)
       \/ (StartWork(w) \/ Post(w) \/ Receive(w) \/ IOFailure(w)) /\ UNCHANGED readout
  \/ (SaveConfig \/ StopWork \/ Server \/ \E f \in Fix : AgeOut(f)) /\ UNCHANGED readout

ReadoutSpec == ReadoutInit /\ [][ReadoutNext]_allVars
-----------------------------------------------------------------------------
\* Since the figures were last reset no fix has been given up without being
\* counted in `dropped', or being in the hands of a thread that will count it:
\* however a flush ends, and whoever evicts while it runs.
NoSilentLoss ==
  holes \subseteq shown.dropped \cup evicted \cup UNION {tally[w].discarded : w \in Workers}

\* "Fixes the server accepted": a fix counted as delivered is in the database,
\* and one that a report is going to count is.
DeliveredIsStored ==
  shown.delivered \cup UNION {tally[w].delivered : w \in Workers} \subseteq rows

\* Everybody is at rest: no handler, no flush, and none asked for.
Quiet ==
  /\ main.pc = "idle" /\ AtRest /\ work = "none"
  /\ \A w \in Workers : wk[w].pc = "idle"

\* CollectionStatus' class note: the queued figure never says 0 while fixes sit
\* on disk.  (Asked only where nobody is about to correct it.)
ZeroMeansEmpty == Quiet /\ shown.queued = 0 => queue = {}
=============================================================================
