---------------------------- MODULE FixDelivery ----------------------------
(***************************************************************************)
(* A measured fix's way from the phone to the server.                      *)
(*                                                                         *)
(*   main thread    LocationCollectionService writes each fix into the     *)
(*                  on-disk FixQueue and asks WorkManager for a flush;     *)
(*   workers        FixUploadWorker.doWork drives QueueFlusher.flush, one  *)
(*                  POST /v1/fixes per queued entry, oldest first;         *)
(*   server         ingest / IngestFix validates, upserts on (device, ts)  *)
(*                  and answers.                                           *)
(*                                                                         *)
(* One device is modelled, so a fix is its timestamp: the queue names the  *)
(* file by it and the server dedups on it.  The counters of                *)
(* CollectionStatus are modelled as the SETS of fixes they have counted.   *)
(***************************************************************************)
EXTENDS Integers, FiniteSets

CONSTANTS
  Fix,         \* the timestamps the phone may measure
  Invalid,     \* those of them whose payload the server refuses (400)
  MayAge,      \* those that may leave the server's 90-day ingest window
  Capacity,    \* FixQueue.capacity
  BatchLimit,  \* QueueFlusher.batchLimit
  Workers,     \* instances of FixUploadWorker
  Nobody,      \* "no worker": a request whose sender has given up
  MaxCrashes   \* bound on process deaths (model checking only)

ASSUME FixDeliveryAssumption ==
  /\ Fix \subseteq Nat /\ IsFiniteSet(Fix)
  /\ Invalid \subseteq Fix /\ MayAge \subseteq Fix
  /\ Capacity \in Nat \ {0} /\ BatchLimit \in Nat \ {0}
  /\ Nobody \notin Workers
  /\ MaxCrashes \in Nat

VARIABLES
  queue,    \* the committed .fix files of FixQueue.directory
  main,     \* the service's main thread inside enqueue()
  work,     \* WorkManager's state of the unique work: none, enqueued, running
  runner,   \* the worker WorkManager considers running, or Nobody
  wk,       \* each worker's doWork activation
  config,   \* whether a server URL and a token are configured
  wire,     \* requests and responses under way
  rows,     \* the fixes table's rows for this device
  aged,     \* fixes that have left the ingest window
  lost,     \* history: fixes the phone gave up other than on an answer 2xx
  crashes   \* number of process deaths so far

phone == <<queue, main, lost>>
manager == <<work, runner>>
server == <<wire, rows, aged>>
vars == <<queue, main, work, runner, wk, config, wire, rows, aged, lost, crashes>>

\* Statuses of POST /v1/fixes, as ReportOutcome.fromStatus tells them apart.
Delivered == {"200", "201"}
Credential == {"401"}
Permanent == {"400", "404"}
Transient == {"500", "io"}
Status == Delivered \cup Credential \cup Permanent \cup Transient

Outcomes == {"none", "Drained", "MoreQueued", "Deferred", "CredentialRejected"}

Idle == [pc |-> "idle", batch |-> {}, ans |-> "io", outcome |-> "none"]

MainIdle == [pc |-> "idle", fix |-> {}]

Oldest(s) == CHOOSE f \in s : \A g \in s : f <= g

Activation ==
  [pc : {"idle", "start", "batch", "post", "wait", "answer", "publish"},
   batch : SUBSET Fix, ans : Status, outcome : Outcomes]

Message == [fix : Fix, by : Workers \cup {Nobody}, status : Status \cup {"request"}]

TypeOK ==
  /\ queue \subseteq Fix
  /\ main \in [pc : {"idle", "temp", "trim", "record"}, fix : SUBSET Fix]
  /\ work \in {"none", "enqueued", "running"}
  /\ runner \in Workers \cup {Nobody}
  /\ wk \in [Workers -> Activation]
  /\ config \in BOOLEAN
  /\ wire \subseteq Message
  /\ rows \subseteq Fix /\ aged \subseteq Fix /\ lost \subseteq Fix
  /\ crashes \in Nat

Init ==
  /\ queue = {} /\ main = MainIdle
  /\ work = "none" /\ runner = Nobody
  /\ wk = [w \in Workers |-> Idle]
  /\ config \in BOOLEAN
  /\ wire = {} /\ rows = {} /\ aged = {}
  /\ lost = {} /\ crashes = 0
-----------------------------------------------------------------------------
(* WorkManager (external): unique work with ExistingWorkPolicy.KEEP.       *)

\* enqueueFlush: pending or running work absorbs the request.
enqueueFlush == work' = IF work = "none" THEN "enqueued" ELSE work

\* The network constraint holds and the backoff has passed.
StartWork(w) ==
  /\ work = "enqueued" /\ wk[w].pc = "idle"
  /\ work' = "running" /\ runner' = w
  /\ wk' = [wk EXCEPT ![w] = [Idle EXCEPT !.pc = "start"]]
  /\ UNCHANGED <<phone, config, server, crashes>>

\* The constraint is lost or the ten minutes are over: the work is rescheduled,
\* while the thread inside doWork, which never looks at isStopped, goes on.
StopWork ==
  /\ work = "running"
  /\ work' = "enqueued" /\ runner' = Nobody
  /\ UNCHANGED <<phone, wk, config, server, crashes>>

\* What WorkManager makes of a Result; that of a stopped worker is ignored.
Finish(w, result) ==
  /\ work' = IF runner # w THEN work
             ELSE IF result = "retry" THEN "enqueued" ELSE "none"
  /\ runner' = IF runner = w THEN Nobody ELSE runner
-----------------------------------------------------------------------------
(* The main thread: handleLocation, FixQueue.enqueue, and what follows.    *)

\* @Synchronized: the main thread is inside FixQueue.enqueue.
Locked == main.pc \in {"temp", "trim"}

\* FixResult.Refused, or EnqueueResult.Failed before the temporary file is
\* there: recordDropped.
EnqueueRefused(f) ==
  /\ main.pc = "idle" /\ f \notin queue
  /\ lost' = lost \cup {f}
  /\ UNCHANGED <<queue, main, manager, wk, config, server, crashes>>

\* EnqueueResult.AlreadyQueued leaves everything as it is, so enqueue starts
\* where no entry for this instant exists: it writes and syncs <name>.tmp.
EnqueueWrite(f) ==
  /\ main.pc = "idle" /\ f \notin queue
  /\ main' = [pc |-> "temp", fix |-> {f}]
  /\ UNCHANGED <<queue, lost, manager, wk, config, server, crashes>>

\* renameTo fails, or the write threw: the temporary file is deleted.
EnqueueFailed ==
  /\ main.pc = "temp"
  /\ lost' = lost \cup main.fix
  /\ main' = MainIdle
  /\ UNCHANGED <<queue, manager, wk, config, server, crashes>>

\* renameTo commits the entry.
EnqueueCommit ==
  /\ main.pc = "temp"
  /\ queue' = queue \cup main.fix
  /\ main' = [pc |-> "trim", fix |-> {}]
  /\ UNCHANGED <<lost, manager, wk, config, server, crashes>>

\* Mutant of Kept: off by one.
KeptOneMore == {f \in queue : Cardinality({g \in queue : g > f}) <= Capacity}

\* trimToCapacity keeps the newest Capacity entries.
Kept == {f \in queue : Cardinality({g \in queue : g > f}) < Capacity}

trimToCapacity ==
  /\ main.pc = "trim"
  /\ queue' = Kept
  /\ main' = [main EXCEPT !.pc = "record"]
  /\ lost' = lost \cup (queue \ Kept)
  /\ UNCHANGED <<manager, wk, config, server, crashes>>

\* EnqueueResult.Queued: the readout is updated and a flush is asked for.
RecordQueued ==
  /\ main.pc = "record"
  /\ main' = MainIdle
  /\ enqueueFlush
  /\ UNCHANGED <<queue, lost, runner, wk, config, server, crashes>>

\* MainActivity.onCreate, and onStartCommand of a configured service.
OpenApp ==
  /\ main.pc = "idle"
  /\ enqueueFlush
  /\ UNCHANGED <<phone, runner, wk, config, server, crashes>>

\* The settings screen stores a usable configuration, or an unusable one.
SaveConfig ==
  /\ config' = ~config
  /\ IF config' THEN enqueueFlush ELSE UNCHANGED work
  /\ UNCHANGED <<phone, runner, wk, server, crashes>>

\* The process dies: only the disk and WorkManager's database survive.  A
\* temporary file is never listed and the next enqueue sweeps it.
Crash ==
  /\ crashes < MaxCrashes /\ crashes' = crashes + 1
  /\ main' = MainIdle
  /\ wk' = [w \in Workers |-> Idle]
  /\ work' = IF work = "running" THEN "enqueued" ELSE work
  /\ runner' = Nobody
  /\ wire' = {[r EXCEPT !.by = Nobody] : r \in {m \in wire : m.status = "request"}}
  /\ UNCHANGED <<queue, lost, config, rows, aged>>
-----------------------------------------------------------------------------
(* FixUploadWorker.doWork and QueueFlusher.flush.                          *)

\* An empty queue is a success, a missing configuration a failure.
doWork(w) ==
  /\ wk[w].pc = "start" /\ ~Locked
  /\ \/ /\ queue = {} \/ ~config
        /\ Finish(w, "success")
        /\ wk' = [wk EXCEPT ![w] = Idle]
     \/ /\ queue # {} /\ config
        /\ wk' = [wk EXCEPT ![w].pc = "batch"]
        /\ UNCHANGED manager
  /\ UNCHANGED <<phone, config, server, crashes>>

\* The entries oldest(BatchLimit) reaches when those of `bad' cannot be read.
Scanned(bad) ==
  {f \in queue : Cardinality({g \in queue \ bad : g < f}) < BatchLimit}

\* flush: queue.oldest returns the readable ones and discards the others.
TakeBatch(w) ==
  /\ wk[w].pc = "batch" /\ ~Locked
  /\ \E bad \in SUBSET queue :
       LET gone == Scanned(bad) \cap bad IN
       /\ queue' = queue \ gone
       /\ lost' = lost \cup gone
       /\ wk' = [wk EXCEPT ![w] = [Idle EXCEPT !.pc = "post", !.batch = Scanned(bad) \ bad]]
  /\ UNCHANGED <<main, manager, config, server, crashes>>

\* reporter.post of the next entry.
Post(w) ==
  /\ wk[w].pc = "post" /\ wk[w].batch # {}
  /\ wire' = wire \cup {[fix |-> Oldest(wk[w].batch), by |-> w, status |-> "request"]}
  /\ wk' = [wk EXCEPT ![w].pc = "wait"]
  /\ UNCHANGED <<phone, manager, config, rows, aged, crashes>>

\* Mutant of Receive: the status is read although no response is there.
ReceiveEarly(w) ==
  /\ wk[w].pc = "wait"
  /\ \E m \in wire :
       /\ m.by = w
       /\ wire' = wire \ {m}
       /\ wk' = [wk EXCEPT ![w] = [@ EXCEPT !.pc = "answer", !.ans = m.status]]
  /\ UNCHANGED <<phone, manager, config, rows, aged, crashes>>

\* The response arrives.
Receive(w) ==
  /\ wk[w].pc = "wait"
  /\ \E m \in wire :
       /\ m.by = w /\ m.status # "request"
       /\ wire' = wire \ {m}
       /\ wk' = [wk EXCEPT ![w] = [@ EXCEPT !.pc = "answer", !.ans = m.status]]
  /\ UNCHANGED <<phone, manager, config, rows, aged, crashes>>

\* Mutant of IOFailure: the timed-out request's answer is still taken for the
\* worker's next one.
IOFailureStaysOpen(w) ==
  /\ wk[w].pc = "wait"
  /\ wire' \in {wire, {m \in wire : m.by # w}}
  /\ wk' = [wk EXCEPT ![w] = [@ EXCEPT !.pc = "answer", !.ans = "io"]]
  /\ UNCHANGED <<phone, manager, config, rows, aged, crashes>>

\* An IOException: no radio, a timeout, a lost response.  The request itself
\* may be anywhere: dropped on the way, or still to be handled.
IOFailure(w) ==
  /\ wk[w].pc = "wait"
  /\ \/ wire' = {m \in wire : m.by # w}
     \/ wire' = {m \in wire : m.by # w} \cup
                {[m EXCEPT !.by = Nobody] : m \in {r \in wire : r.by = w /\ r.status = "request"}}
  /\ wk' = [wk EXCEPT ![w] = [@ EXCEPT !.pc = "answer", !.ans = "io"]]
  /\ UNCHANGED <<phone, manager, config, rows, aged, crashes>>

\* Mutant of Deliver: every final answer counts as delivered.
DeliverAnyFinal(w) ==
  /\ wk[w].pc = "answer" /\ wk[w].ans \in Delivered \cup Permanent /\ ~Locked
  /\ LET f == Oldest(wk[w].batch) IN
     /\ queue' = queue \ {f}
     /\ wk' = [wk EXCEPT ![w] = [@ EXCEPT !.pc = "post", !.batch = wk[w].batch \ {f}]]
  /\ UNCHANGED <<main, lost, manager, config, server, crashes>>

\* 201 or 200: queue.remove, and the fix counts as delivered.
Deliver(w) ==
  /\ wk[w].pc = "answer" /\ wk[w].ans \in Delivered /\ ~Locked
  /\ LET f == Oldest(wk[w].batch) IN
     /\ queue' = queue \ {f}
     /\ wk' = [wk EXCEPT ![w] = [@ EXCEPT !.pc = "post", !.batch = wk[w].batch \ {f}]]
  /\ UNCHANGED <<main, lost, manager, config, server, crashes>>

\* Mutant of Discard: the refused entry stays at the head of the queue.
DiscardKeeps(w) ==
  /\ wk[w].pc = "answer" /\ wk[w].ans \in Permanent /\ ~Locked
  /\ wk' = [wk EXCEPT ![w] = [@ EXCEPT !.pc = "post", !.batch = @ \ {Oldest(@)}]]
  /\ UNCHANGED <<queue, main, lost, manager, config, server, crashes>>

\* A permanent refusal of this payload: removed and counted as discarded.
Discard(w) ==
  /\ wk[w].pc = "answer" /\ wk[w].ans \in Permanent /\ ~Locked
  /\ LET f == Oldest(wk[w].batch) IN
     /\ queue' = queue \ {f}
     /\ lost' = lost \cup {f}
     /\ wk' = [wk EXCEPT ![w] = [@ EXCEPT !.pc = "post", !.batch = wk[w].batch \ {f}]]
  /\ UNCHANGED <<main, manager, config, server, crashes>>

\* Mutant of StopFlush: a fix that could not be sent is given up at once.
StopFlushDrops(w) ==
  /\ wk[w].pc = "answer" /\ wk[w].ans \in Credential \cup Transient
  /\ queue' = queue \ {Oldest(wk[w].batch)}
  /\ wk' = [wk EXCEPT ![w] = [@ EXCEPT !.pc = "publish", !.batch = {}, !.outcome = "Deferred"]]
  /\ UNCHANGED <<main, lost, manager, config, server, crashes>>

\* 401: the flush stops whole.  A transient failure: it stops for now.
StopFlush(w) ==
  /\ wk[w].pc = "answer" /\ wk[w].ans \in Credential \cup Transient
  /\ wk' = [wk EXCEPT ![w] = [@ EXCEPT !.pc = "publish", !.batch = {},
              !.outcome = IF wk[w].ans \in Credential THEN "CredentialRejected" ELSE "Deferred"]]
  /\ UNCHANGED <<phone, manager, config, server, crashes>>

\* The batch is done: queue.size() tells MoreQueued from Drained.
EndFlush(w) ==
  /\ wk[w].pc = "post" /\ wk[w].batch = {} /\ ~Locked
  /\ wk' = [wk EXCEPT ![w] = [@ EXCEPT !.pc = "publish",
              !.outcome = IF queue # {} THEN "MoreQueued" ELSE "Drained"]]
  /\ UNCHANGED <<phone, manager, config, server, crashes>>

\* The report is published.  MoreQueued within the run budget flushes again;
\* otherwise resultFor decides.
Publish(w) ==
  /\ wk[w].pc = "publish"
  /\ \/ /\ wk[w].outcome = "MoreQueued"
        /\ wk' = [wk EXCEPT ![w] = [Idle EXCEPT !.pc = "batch"]]
        /\ UNCHANGED manager
     \/ /\ wk' = [wk EXCEPT ![w] = Idle]
        /\ Finish(w, IF wk[w].outcome = "Drained" THEN "success" ELSE "retry")
  /\ UNCHANGED <<phone, config, server, crashes>>
-----------------------------------------------------------------------------
(* The server.                                                             *)

Requests == {m \in wire : m.status = "request"}

\* The answer m.status to request r; nobody reads one whose sender gave up.
Answer(r, s) ==
  wire' = (wire \ {r}) \cup (IF r.by = Nobody THEN {} ELSE {[r EXCEPT !.status = s]})

\* IngestFix: the window, the payload, then INSERT ... ON CONFLICT DO NOTHING.
IngestFix(r) ==
  /\ IF r.fix \in aged \cup Invalid
     THEN rows' = rows /\ Answer(r, "400")
     ELSE /\ rows' = rows \cup {r.fix}
          /\ Answer(r, IF r.fix \in rows THEN "200" ELSE "201")
  /\ UNCHANGED <<phone, manager, wk, config, aged, crashes>>

\* The token is refused, or something on the way answers in the server's place.
Refuse(r) ==
  /\ \E s \in {"401", "404"} : Answer(r, s)
  /\ UNCHANGED <<phone, manager, wk, config, rows, aged, crashes>>

\* 500: the write failed, or it committed and only its acknowledgement was lost.
StoreFailure(r) ==
  /\ Answer(r, "500")
  /\ rows' \in {rows, IF r.fix \in aged \cup Invalid THEN rows ELSE rows \cup {r.fix}}
  /\ UNCHANGED <<phone, manager, wk, config, aged, crashes>>

\* The 90-day window moves past a fix.
AgeOut(f) ==
  /\ f \in MayAge \ aged
  /\ aged' = aged \cup {f}
  /\ UNCHANGED <<phone, manager, wk, config, wire, rows, crashes>>
-----------------------------------------------------------------------------
Main ==
  \/ \E f \in Fix : EnqueueRefused(f) \/ EnqueueWrite(f)
  \/ EnqueueFailed \/ EnqueueCommit \/ trimToCapacity \/ RecordQueued

Worker(w) ==
  \/ doWork(w) \/ TakeBatch(w) \/ Post(w) \/ Receive(w) \/ IOFailure(w)
  \/ Deliver(w) \/ Discard(w) \/ StopFlush(w) \/ EndFlush(w) \/ Publish(w)

Server == \E r \in Requests : IngestFix(r) \/ Refuse(r) \/ StoreFailure(r)

Next ==
  \/ Main \/ OpenApp \/ SaveConfig \/ Crash
  \/ \E w \in Workers : StartWork(w) \/ Worker(w)
  \/ StopWork
  \/ Server
  \/ \E f \in Fix : AgeOut(f)

Spec == Init /\ [][Next]_vars

\* The code's own progress: threads run on, FixReporter's timeouts end every
\* post, WorkManager starts eligible work, the app is opened every now and
\* then, and of infinitely many posts the server judges some on their merits
\* and some such answer comes through.
ReceiveVerdict(w) == Receive(w) /\ wk'[w].ans \in Delivered \cup Permanent

Fairness ==
  /\ WF_vars(EnqueueFailed \/ EnqueueCommit \/ trimToCapacity \/ RecordQueued)
  /\ SF_vars(OpenApp)
  /\ \A w \in Workers :
       /\ SF_vars(StartWork(w))
       /\ SF_vars(doWork(w) \/ TakeBatch(w) \/ Deliver(w) \/ Discard(w) \/ EndFlush(w))
       /\ WF_vars(Post(w) \/ StopFlush(w) \/ Publish(w))
       /\ WF_vars(Receive(w) \/ IOFailure(w))
       /\ SF_vars(ReceiveVerdict(w))
  /\ SF_vars(\E r \in Requests : r.by # Nobody /\ IngestFix(r))

FairSpec == Spec /\ Fairness
-----------------------------------------------------------------------------
(* What the pipeline promises.                                             *)

\* Where each fix stands.
Standing ==
  [f \in Fix |-> IF f \in rows THEN "stored"
                 ELSE IF f \in queue THEN "held"
                 ELSE IF f \in lost THEN "lost" ELSE "none"]

Trail == INSTANCE FixTrail WITH trail <- Standing

\* Durability (FixQueue's "stays there until the server has it"): the pipeline
\* implements FixTrail, through lost responses, late requests, two workers
\* flushing at once, process deaths and evictions: no step takes a fix off the
\* disk without either the row being on the server or the loss being counted,
\* and no step takes a row away.
ImplementsTrail == Trail!TrailSpec

\* An answer 2xx a worker holds, or that is under way to it, is about a fix the
\* server has, and about the very entry the worker is going to remove: a reply
\* can never retire another entry of the batch.
AnswersMatch ==
  /\ \A w \in Workers : wk[w].pc = "answer" /\ wk[w].ans \in Delivered
                          => Oldest(wk[w].batch) \in rows
  /\ \A m \in wire : m.by \in Workers =>
        /\ wk[m.by].pc = "wait" /\ m.fix = Oldest(wk[m.by].batch)
        /\ m.status \in Delivered => m.fix \in rows

\* Capacity is the most the queue holds whenever the main thread is outside
\* enqueue, but for one entry per process death between rename and trim.
WithinCapacity == ~Locked => Cardinality(queue) <= Capacity + crashes

\* Once the phone stays configured every queued fix leaves the queue, unless the
\* clock is for ever set back so that older fixes keep overtaking it: nothing
\* blocks the head for good, no flush request is lost for good in the KEEP
\* race, and a Result.failure() for want of a configuration parks nothing.
OlderQueued(f) == \E g \in queue' \ queue : g < f

EventuallyLeaves ==
  <>[]config => \A f \in Fix : \/ f \in queue ~> f \notin queue
                               \/ []<><<OlderQueued(f)>>_vars
=============================================================================
