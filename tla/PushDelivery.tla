---------------------------- MODULE PushDelivery ----------------------------
(***************************************************************************)
(* A crossing's way from the ingest handler to a push backend:             *)
(*                                                                         *)
(*   notifiers   request goroutines inside NotifyGeofenceEvents: look the  *)
(*               family's endpoints up, classify every (crossing,          *)
(*               endpoint) pair in the DeliveryLedger, then offer the      *)
(*               deliveries to the Dispatcher's queue;                     *)
(*   worker      the Dispatcher's one goroutine: send, retry, drop;        *)
(*   registrars  request goroutines inside registerPushSubscription, which *)
(*               make the ledger forget an endpoint;                       *)
(*   main        runServe's shutdown: srv.Shutdown, then Dispatcher.Close, *)
(*               then the end of the process and of every goroutine in it. *)
(*                                                                         *)
(* An endpoint is a (provider, token) pair and a key a collapse key.  The  *)
(* log is what DeliveryLedger.Record writes.  NotHandedOver and the Record *)
(* that follows it are one step: nobody reads the log.                     *)
(***************************************************************************)
EXTENDS Integers, Sequences, FiniteSets

CONSTANTS
  Notifiers, Registrars,
  Endpoints,
  Configured,      \* the endpoints of a provider with a configured sender
  Keys,
  Nothing,         \* no endpoint to replace
  KeyBound,        \* CollapseKeyBound
  MaxTracked,      \* maxTrackedEndpoints
  QueueCap,        \* DefaultMaxPending
  MaxAttempts,
  MaxEvents,       \* most crossings one evaluation records (model checking only)
  MaxCalls,        \* bound on calls of NotifyGeofenceEvents (model checking only)
  MaxRegistered,   \* bound on registrations (model checking only)
  MayTimeOut       \* whether srv.Shutdown may give up on open requests

ASSUME PushDeliveryAssumption ==
  /\ IsFiniteSet(Endpoints) /\ IsFiniteSet(Keys)
  /\ Configured \subseteq Endpoints /\ Nothing \notin Endpoints
  /\ KeyBound \in Nat \ {0} /\ MaxTracked \in Nat \ {0}
  /\ QueueCap \in Nat \ {0} /\ MaxAttempts \in Nat \ {0}
  /\ MaxEvents \in Nat /\ MaxCalls \in Nat /\ MaxRegistered \in Nat
  /\ MayTimeOut \in BOOLEAN

VARIABLES
  pending,     \* DeliveryLedger.pending: endpoint -> key -> count (0: no entry)
  order,       \* DeliveryLedger.order
  queue,       \* Dispatcher.queue, a buffered channel
  worker,      \* Dispatcher.run
  nt,          \* each notifier's activation
  rg,          \* each registrar's activation
  subs,        \* the family's rows of push_subscriptions
  phase,       \* of the process: serving, draining (srv.Shutdown), closed, ended
  log,         \* the outcome records written
  issued,      \* number of deliveries made so far
  credit,      \* history: deliveries classified handed-over and not forgotten
               \* since with their endpoint
  panicked,    \* history: deliveries lost in a send on the closed channel
  calls,       \* number of calls of NotifyGeofenceEvents so far
  registered   \* number of registrations so far

ledger == <<pending, order, credit>>
vars == <<pending, order, queue, worker, nt, rg, subs, phase, log, issued, credit,
          panicked, calls, registered>>

counters == <<calls, registered>>

Outcome == {"handed-over", "beyond-collapse-bound"}

Delivery == [id : Nat, ep : Endpoints, key : Keys, bound : Outcome]

NoKeys == [k \in Keys |-> 0]

NotifierIdle == [pc |-> "idle", events |-> <<>>, fanout |-> {}, left |-> {}, made |-> <<>>]

RegistrarIdle == [pc |-> "idle", ep |-> Nothing, old |-> Nothing]

WorkerIdle == [pc |-> "idle", job |-> <<>>, attempt |-> 0]

Members(s) == {s[i] : i \in 1 .. Len(s)}

TypeOK ==
  /\ DOMAIN pending \subseteq Endpoints
  /\ pending \in [DOMAIN pending -> [Keys -> Nat]]
  /\ order \in Seq(Endpoints)
  /\ queue \in Seq(Delivery)
  /\ worker \in [pc : {"idle", "send", "exited"}, job : Seq(Delivery), attempt : Nat]
  /\ nt \in [Notifiers -> [pc : {"idle", "classify", "enqueue"}, events : Seq(Keys),
                           fanout : SUBSET Endpoints, left : SUBSET Endpoints,
                           made : Seq(Delivery)]]
  /\ rg \in [Registrars -> [pc : {"idle", "stored", "reset", "removed"},
                            ep : Endpoints \cup {Nothing}, old : Endpoints \cup {Nothing}]]
  /\ subs \subseteq Endpoints
  /\ phase \in {"serving", "draining", "closed", "ended"}
  /\ log \subseteq (Delivery \X (Outcome \cup {"dropped"}))
  /\ issued \in Nat /\ calls \in Nat /\ registered \in Nat
  /\ credit \subseteq Delivery /\ panicked \subseteq Delivery

Init ==
  /\ pending = <<>> /\ order = <<>> /\ credit = {}
  /\ queue = <<>> /\ worker = WorkerIdle
  /\ nt = [n \in Notifiers |-> NotifierIdle]
  /\ rg = [r \in Registrars |-> RegistrarIdle]
  /\ subs \in SUBSET Endpoints
  /\ phase = "serving" /\ log = {} /\ issued = 0 /\ panicked = {}
  /\ calls = 0 /\ registered = 0
-----------------------------------------------------------------------------
(* The ledger.                                                             *)

\* A function without one point of its domain.
Without(f, x) == [y \in DOMAIN f \ {x} |-> f[y]]

\* len(keys)
DistinctKeys(keys) == Cardinality({k \in Keys : keys[k] > 0})

\* What is left of the order when the oldest beyond MaxTracked go.
evictLocked(o) == IF Len(o) > MaxTracked THEN Tail(o) ELSE o

\* The order and the map once e is tracked.
Tracked(e) == IF e \in DOMAIN pending THEN order ELSE evictLocked(Append(order, e))

KeysOf(e) == IF e \in DOMAIN pending THEN pending[e] ELSE NoKeys

Bound(e) == IF DistinctKeys(KeysOf(e)) >= KeyBound THEN "beyond-collapse-bound" ELSE "handed-over"

\* Classify: d is the delivery being made.
Classify(d) ==
  /\ order' = Tracked(d.ep)
  /\ pending' = [e \in Members(order') |->
                   IF e # d.ep THEN pending[e]
                   ELSE IF d.bound = "handed-over"
                        THEN [KeysOf(e) EXCEPT ![d.key] = @ + 1]
                        ELSE KeysOf(e)]
  /\ credit' = {c \in credit : c.ep \in Members(order')} \cup
               (IF d.bound = "handed-over" THEN {d} ELSE {})

\* notHandedOver: only a delivery classified handed-over has a record to take back.
NotHandedOver(d) ==
  /\ IF d.bound = "handed-over" /\ d.ep \in DOMAIN pending /\ pending[d.ep][d.key] > 0
     THEN pending' = [pending EXCEPT ![d.ep][d.key] = @ - 1]
     ELSE UNCHANGED pending
  /\ UNCHANGED <<order, credit>>

\* Mutant of forget: the endpoint keeps its place in the order.
forgetKeepsOrder(e) ==
  /\ pending' = [x \in DOMAIN pending \ {e} |-> pending[x]]
  /\ credit' = {c \in credit : c.ep # e}
  /\ UNCHANGED order

\* Mutant of forget: the endpoint keeps its keys.
forgetKeepsKeys(e) ==
  /\ credit' = {c \in credit : c.ep # e}
  /\ UNCHANGED <<pending, order>>

\* The order without the first place of e.
OrderWithout(e) ==
  LET i == CHOOSE j \in 1 .. Len(order) : order[j] = e /\ \A k \in 1 .. j - 1 : order[k] # e
  IN [j \in 1 .. Len(order) - 1 |-> order[IF j < i THEN j ELSE j + 1]]

forget(e) ==
  /\ IF e \in DOMAIN pending
     THEN pending' = Without(pending, e) /\ order' = OrderWithout(e)
     ELSE UNCHANGED <<pending, order>>
  /\ credit' = {c \in credit : c.ep # e}

Record(d, outcome) == log' = log \cup {<<d, outcome>>}

\* Mutant of Drop: what never reached a backend stays pending.
DropStaysPending(d) == Record(d, "dropped") /\ UNCHANGED ledger

Drop(d) == NotHandedOver(d) /\ Record(d, "dropped")
-----------------------------------------------------------------------------
(* NotifyGeofenceEvents.                                                   *)

\* Requests are in progress: srv.Shutdown takes no new ones and waits for those
\* that are open, which go on behind its back once it has given up.
Serving == phase \in {"serving", "draining"} \/ (phase = "closed" /\ MayTimeOut)

\* The subscription lookup of a request that recorded crossings.  Without an
\* endpoint, or when the lookup fails, the call returns.
Lookup(n) ==
  /\ Serving /\ nt[n].pc = "idle" /\ subs # {}
  /\ calls < MaxCalls /\ calls' = calls + 1
  /\ \E len \in 1 .. MaxEvents : \E evs \in [1 .. len -> Keys] :
       nt' = [nt EXCEPT ![n] = [pc |-> "classify", events |-> evs, fanout |-> subs,
                                left |-> subs, made |-> <<>>]]
  /\ UNCHANGED <<ledger, queue, worker, rg, subs, phase, log, issued, panicked, registered>>

\* One pair is classified under the ledger's lock and becomes a delivery.
ClassifyNext(n) ==
  /\ nt[n].pc = "classify"
  /\ \E e \in nt[n].left :
       LET d == [id |-> issued, ep |-> e, key |-> Head(nt[n].events), bound |-> Bound(e)]
           more == nt[n].left # {e}
           evs == IF more THEN nt[n].events ELSE Tail(nt[n].events)
       IN /\ Classify(d)
          /\ nt' = [nt EXCEPT ![n] =
               [pc |-> IF evs = <<>> THEN "enqueue" ELSE "classify",
                events |-> evs,
                fanout |-> nt[n].fanout,
                left |-> IF more THEN nt[n].left \ {e} ELSE nt[n].fanout,
                made |-> Append(nt[n].made, d)]]
  /\ issued' = issued + 1
  /\ UNCHANGED <<queue, worker, rg, subs, phase, log, panicked, counters>>

\* Enqueue takes the deliveries one by one.
NextMade(n) ==
  nt' = [nt EXCEPT ![n] = IF Len(nt[n].made) = 1 THEN NotifierIdle
                          ELSE [nt[n] EXCEPT !.made = Tail(nt[n].made)]]

Enqueue(n) ==
  /\ nt[n].pc = "enqueue" /\ phase # "closed" /\ Len(queue) < QueueCap
  /\ queue' = Append(queue, Head(nt[n].made))
  /\ NextMade(n)
  /\ UNCHANGED <<ledger, worker, rg, subs, phase, log, issued, panicked, counters>>

\* Mutant of EnqueueFull: the delivery that finds no room vanishes.
EnqueueFullSilent(n) ==
  /\ nt[n].pc = "enqueue" /\ phase # "closed" /\ Len(queue) >= QueueCap
  /\ NotHandedOver(Head(nt[n].made))
  /\ NextMade(n)
  /\ UNCHANGED <<log, queue, worker, rg, subs, phase, issued, panicked, counters>>

\* The pending cap is reached.
EnqueueFull(n) ==
  /\ nt[n].pc = "enqueue" /\ phase # "closed" /\ Len(queue) >= QueueCap
  /\ Drop(Head(nt[n].made))
  /\ NextMade(n)
  /\ UNCHANGED <<queue, worker, rg, subs, phase, issued, panicked, counters>>

\* A send on the closed channel panics; net/http ends the request.
EnqueuePanic(n) ==
  /\ nt[n].pc = "enqueue" /\ phase = "closed"
  /\ panicked' = panicked \cup Members(nt[n].made)
  /\ nt' = [nt EXCEPT ![n] = NotifierIdle]
  /\ UNCHANGED <<ledger, queue, worker, rg, subs, phase, log, issued, counters>>
-----------------------------------------------------------------------------
(* The dispatcher's worker.                                                *)

Take ==
  /\ worker.pc = "idle" /\ queue # <<>>
  /\ worker' = [pc |-> "send", job |-> <<Head(queue)>>, attempt |-> 1]
  /\ queue' = Tail(queue)
  /\ UNCHANGED <<ledger, nt, rg, subs, phase, log, issued, panicked, counters>>

Job == worker.job[1]

\* The backend took it: recorded as classified.
SendOK ==
  /\ worker.pc = "send" /\ Job.ep \in Configured
  /\ Record(Job, Job.bound)
  /\ worker' = WorkerIdle
  /\ UNCHANGED <<ledger, queue, nt, rg, subs, phase, issued, panicked, counters>>

SendRetry ==
  /\ worker.pc = "send" /\ Job.ep \in Configured /\ worker.attempt < MaxAttempts
  /\ worker' = [worker EXCEPT !.attempt = @ + 1]
  /\ UNCHANGED <<ledger, queue, nt, rg, subs, phase, log, issued, panicked, counters>>

\* The retries are exhausted, or there is no sender for the provider.
SendDrop ==
  /\ worker.pc = "send" /\ (Job.ep \notin Configured \/ worker.attempt = MaxAttempts)
  /\ Drop(Job)
  /\ worker' = WorkerIdle
  /\ UNCHANGED <<queue, nt, rg, subs, phase, issued, panicked, counters>>

\* Mutant of Exit: the worker stops with the queue undrained.
ExitUndrained ==
  /\ worker.pc = "idle" /\ phase = "closed"
  /\ worker' = [WorkerIdle EXCEPT !.pc = "exited"]
  /\ UNCHANGED <<ledger, queue, nt, rg, subs, phase, log, issued, panicked, counters>>

\* The channel is closed and drained: the range loop ends, and Close returns.
Exit ==
  /\ worker.pc = "idle" /\ phase = "closed" /\ queue = <<>>
  /\ worker' = [WorkerIdle EXCEPT !.pc = "exited"]
  /\ UNCHANGED <<ledger, queue, nt, rg, subs, phase, log, issued, panicked, counters>>
-----------------------------------------------------------------------------
(* registerPushSubscription.                                               *)

\* The upsert of an accepted registration; one that fails changes nothing.
Register(r) ==
  /\ Serving /\ rg[r].pc = "idle" /\ registered < MaxRegistered
  /\ \E e \in Endpoints : \E old \in (Endpoints \ {e}) \cup {Nothing} :
       /\ subs' = subs \cup {e}
       /\ rg' = [rg EXCEPT ![r] = [pc |-> "stored", ep |-> e, old |-> old]]
  /\ registered' = registered + 1
  /\ UNCHANGED <<ledger, queue, worker, nt, phase, log, issued, panicked, calls>>

EndpointRegistered(r) ==
  /\ rg[r].pc = "stored"
  /\ forget(rg[r].ep)
  /\ rg' = [rg EXCEPT ![r] = IF @.old = Nothing THEN RegistrarIdle ELSE [@ EXCEPT !.pc = "reset"]]
  /\ UNCHANGED <<queue, worker, nt, subs, phase, log, issued, panicked, counters>>

\* The superseded row goes, unless it is not there, is another viewer's, or
\* the statement fails.
Supersede(r) ==
  /\ rg[r].pc = "reset"
  /\ \/ /\ rg[r].old \in subs
        /\ subs' = subs \ {rg[r].old}
        /\ rg' = [rg EXCEPT ![r].pc = "removed"]
     \/ /\ rg' = [rg EXCEPT ![r] = RegistrarIdle]
        /\ UNCHANGED subs
  /\ UNCHANGED <<ledger, queue, worker, nt, phase, log, issued, panicked, counters>>

EndpointRemoved(r) ==
  /\ rg[r].pc = "removed"
  /\ forget(rg[r].old)
  /\ rg' = [rg EXCEPT ![r] = RegistrarIdle]
  /\ UNCHANGED <<queue, worker, nt, subs, phase, log, issued, panicked, counters>>
-----------------------------------------------------------------------------
(* runServe's way out.                                                     *)

\* srv.Shutdown: no new requests.
Shutdown ==
  /\ phase = "serving" /\ phase' = "draining"
  /\ UNCHANGED <<ledger, queue, worker, nt, rg, subs, log, issued, panicked, counters>>

Drained == (\A n \in Notifiers : nt[n].pc = "idle") /\ (\A r \in Registrars : rg[r].pc = "idle")

\* srv.Shutdown has returned, with nil or at its deadline, and the deferred
\* closeNotifier closes the queue.
Close ==
  /\ phase = "draining" /\ (Drained \/ MayTimeOut)
  /\ phase' = "closed"
  /\ UNCHANGED <<ledger, queue, worker, nt, rg, subs, log, issued, panicked, counters>>

\* closeNotifier has waited for the worker and runServe returns: the process ends,
\* and with it the requests that srv.Shutdown has given up on.
End ==
  /\ phase = "closed" /\ worker.pc = "exited"
  /\ phase' = "ended"
  /\ UNCHANGED <<ledger, queue, worker, nt, rg, subs, log, issued, panicked, counters>>
-----------------------------------------------------------------------------
Alive == phase # "ended"

Notify(n) == Alive /\ (ClassifyNext(n) \/ Enqueue(n) \/ EnqueueFull(n) \/ EnqueuePanic(n))

Registrar(r) == Alive /\ (EndpointRegistered(r) \/ Supersede(r) \/ EndpointRemoved(r))

Worker == Take \/ SendOK \/ SendRetry \/ SendDrop \/ Exit

Next ==
  \/ \E n \in Notifiers : Lookup(n) \/ Notify(n)
  \/ \E r \in Registrars : Register(r) \/ Registrar(r)
  \/ Worker \/ Shutdown \/ Close \/ End

Spec == Init /\ [][Next]_vars

\* The goroutines run as long as the process does, and every Send returns (the
\* senders' HTTP timeout).  Neither a shutdown is promised nor that an open request
\* gets anywhere between the timeout of srv.Shutdown and the end of the process.
Fairness ==
  /\ WF_vars(Worker) /\ WF_vars(Close)
  /\ \A n \in Notifiers : WF_vars(Notify(n))
  /\ \A r \in Registrars : WF_vars(Registrar(r))

FairSpec == Spec /\ Fairness
-----------------------------------------------------------------------------
(* What the accounting promises.                                           *)

\* The deliveries standing behind one pending count: those dropped are not.
Credit(e, k) == {d \in credit : d.ep = e /\ d.key = k /\ <<d, "dropped">> \notin log}

\* "Under-claiming is the point": a pending count never exceeds the deliveries
\* classified for that endpoint and key, and neither dropped nor forgotten,
\* whatever crossings, drops, registrations and evictions run in between.
NeverOverCounts ==
  \A e \in DOMAIN pending : \A k \in Keys : pending[e][k] <= Cardinality(Credit(e, k))

\* A crossing is called beyond-collapse-bound only when at least KeyBound
\* distinct keys stood behind that at the moment it was classified.
BeyondIsEarned ==
  [][\A n \in Notifiers : \A i \in 1 .. Len(nt'[n].made) :
       LET d == nt'[n].made[i] IN
       d.id >= issued /\ d.bound = "beyond-collapse-bound"
         => Cardinality({k \in Keys : Credit(d.ep, k) # {}}) >= KeyBound]_vars

\* The ledger's memory is bounded, and its map and its list always name the same
\* endpoints, each once.
LedgerBounded ==
  /\ Members(order) = DOMAIN pending
  /\ Len(order) = Cardinality(DOMAIN pending)
  /\ Len(order) <= MaxTracked

InHand ==
  (UNION {Members(nt[n].made) : n \in Notifiers}) \cup Members(queue) \cup Members(worker.job)

Logged == {r[1] : r \in log}

\* Every delivery ever made is, once, in somebody's hands or in the log, and the
\* log has one outcome for it: the one classified, or dropped.
Accounted ==
  /\ Cardinality(InHand) + Cardinality(log) + Cardinality(panicked) = issued
  /\ InHand \cap Logged = {}
  /\ Cardinality(log) = Cardinality(Logged)
  /\ \A r \in log : r[2] \in {r[1].bound, "dropped"}

\* Deliveries nothing will be recorded of: a closed queue refused them, or the process
\* has ended around a request that had not offered them yet.
Lost ==
  panicked \cup IF Alive THEN {} ELSE UNION {Members(nt[n].made) : n \in Notifiers}

\* Every delivery made is recorded in the end, a shutdown in between or not, but for
\* those of a request that srv.Shutdown gave up on before they were queued: whatever
\* has been queued is recorded before the process ends (internal/push/push.go's
\* Enqueue, run and Close; cmd/tracker/main.go:215-227).
AllRecorded ==
  \A i \in 0 .. MaxCalls * MaxEvents * Cardinality(Endpoints) - 1 :
    issued > i ~> \E d \in Logged \cup Lost : d.id = i
=============================================================================
