----------------------------- MODULE Retention -----------------------------
(* The monthly partitions of `fixes`: provisioned at start-up              *)
(* (internal/db/partitions.go, EnsurePartitions), created on demand by the *)
(* ingest of a fix (internal/store/store.go, IngestFix), and dropped by    *)
(* the retention job (internal/retention).  Ingests, the job, failing      *)
(* statements and restarts of the server (cmd/tracker, runServe)           *)
(* interleave statement by statement.                                      *)
(*                                                                         *)
(* A child of `fixes` is named by the month it is called after; Default is *)
(* a DEFAULT partition an operator attached, whose name sorts after every  *)
(* dated one.  A child's bounds are what the catalog says, which for a     *)
(* relation somebody else made need not be the month it is named for.      *)
EXTENDS Integers, FiniteSets

CONSTANTS
    Requests,   \* ingest requests
    Month,      \* length of a month, in units of the clock
    LastMonth,  \* bound: months 0 .. LastMonth
    MaxTime,    \* bound on the clock
    FutureSkew, \* MaxIngestFutureSkew
    Backlog,    \* MaxIngestBacklog
    Window,     \* the retention window, TRACKER_RETENTION_DAYS
    Ahead,      \* months provisioned at start-up
    MaxFaults,  \* bound on failing statements
    MaxStarts,  \* bound on starts of the server
    Strangers   \* <<name, month>>: children of somebody else's making, and the month they cover

ASSUME RetentionAssumption ==
    /\ Month \in Nat \ {0} /\ LastMonth \in Nat /\ MaxTime \in Nat
    /\ FutureSkew \in Nat /\ Backlog \in Nat /\ Window \in Nat \ {0}
    /\ Ahead \in Nat \ {0} /\ MaxFaults \in Nat /\ MaxStarts \in Nat
    /\ MaxTime + FutureSkew < Month * (LastMonth + 1)

Months  == 0 .. LastMonth
Default == LastMonth + 1
Names   == 0 .. LastMonth + 1
Stamps  == 0 .. MaxTime + FutureSkew

\* The upper bound the catalog query reads for a DEFAULT partition: SQL NULL.
NoBound == -1

ASSUME StrangerAssumption == Strangers \subseteq (Names \X Months)

VARIABLES
    now,      \* the server's clock
    starts,   \* starts of the server so far
    proc,     \* "down", "starting" or "serving"
    exists,   \* names of the children of `fixes`
    covers,   \* the month a child's bounds in the catalog cover; NoBound for Default
    rows,     \* <<name, ts>>: the fixes stored, by the child that holds them
    req,      \* [pc, ts] of each request
    purge,    \* the pass of the retention job: [pc, cutoff, todo]
    faults

vars == <<now, starts, proc, exists, covers, rows, req, purge, faults>>

monthStart(m) == m * Month
MonthOf(t)    == t \div Month
upper(n)      == monthStart(covers[n] + 1)

Ended == {"stored", "refused", "unprovisioned", "failed"}

NoRequest == [pc |-> "idle", ts |-> 0]
NoPurge   == [pc |-> "idle", cutoff |-> 0, todo |-> {}]

Init ==
    /\ now = 0 /\ starts = 0 /\ proc = "down" /\ faults = 0
    /\ \E odd \in SUBSET Strangers :
        /\ Cardinality(odd) <= 1
        /\ exists = {s[1] : s \in odd}
        /\ covers = [n \in Names |-> IF n = Default THEN NoBound
                        ELSE IF \E s \in odd : s[1] = n
                        THEN (CHOOSE s \in odd : s[1] = n)[2] ELSE n]
    /\ rows = {}
    /\ req = [r \in Requests |-> NoRequest]
    /\ purge = NoPurge

-----------------------------------------------------------------------------
(* Postgres: which child an INSERT is routed to, and whether CREATE TABLE  *)
(* ... PARTITION OF is refused (an overlapping child, or rows of the new   *)
(* range already in the DEFAULT partition).                                *)

Routed(t) == IF \E n \in exists : covers[n] = MonthOf(t)
             THEN {n \in exists : covers[n] = MonthOf(t)}
             ELSE exists \cap {Default}

Overlaps(m) ==
    \/ \E n \in exists : covers[n] = m
    \/ \E p \in rows : p[1] = Default /\ MonthOf(p[2]) = m

\* What EnsureMonthlyPartition verifies after its CREATE.
Provisioned(m) == m \in exists /\ covers[m] = m

-----------------------------------------------------------------------------
(* The server's life: EnsurePartitions before anything is served.          *)

Boot ==
    /\ proc = "down" /\ starts < MaxStarts
    /\ proc' = "starting" /\ starts' = starts + 1
    /\ UNCHANGED <<now, exists, covers, rows, req, purge, faults>>

\* The children EnsurePartitions(from, months) leaves when it gets as far as
\* its k-th month.
EnsurePartitionsUpTo(k) ==
    {m \in Months : MonthOf(now) <= m /\ m < MonthOf(now) + k}

\* EnsurePartitions succeeds: runServe goes on to start the job and to listen.
EnsurePartitions ==
    /\ proc = "starting"
    /\ LET want == EnsurePartitionsUpTo(Ahead) IN
        /\ \A m \in want : Provisioned(m) \/ (m \notin exists /\ ~Overlaps(m))
        /\ exists' = exists \cup want
    /\ proc' = "serving"
    /\ UNCHANGED <<now, starts, covers, rows, req, purge, faults>>

\* It stops at a month that cannot be provisioned, or at a failing statement:
\* the months before it stay, and the process exits.
EnsurePartitionsFailed ==
    /\ proc = "starting"
    /\ \E k \in 0 .. Ahead - 1 :
        LET done == EnsurePartitionsUpTo(k)
            bad  == MonthOf(now) + k IN
        /\ bad \in Months
        /\ \A m \in done : Provisioned(m) \/ (m \notin exists /\ ~Overlaps(m))
        /\ \/ /\ IF bad \in exists THEN ~Provisioned(bad) ELSE Overlaps(bad)
              /\ UNCHANGED faults
           \/ faults < MaxFaults /\ faults' = faults + 1
        /\ exists' = exists \cup done
    /\ proc' = "down"
    /\ UNCHANGED <<now, starts, covers, rows, req, purge>>

\* The process ends, by a signal or a crash; open requests and the pass end
\* with it.
Stop ==
    /\ proc = "serving"
    /\ proc' = "down"
    /\ req' = [r \in Requests |-> IF req[r].pc \in Ended
                                  THEN req[r] ELSE NoRequest]
    /\ purge' = NoPurge
    /\ UNCHANGED <<now, starts, exists, covers, rows, faults>>

Tick ==
    /\ now < MaxTime
    /\ now' = now + 1
    /\ UNCHANGED <<starts, proc, exists, covers, rows, req, purge, faults>>

-----------------------------------------------------------------------------
(* IngestFix.                                                              *)

At(r, pc)  == req[r].pc = pc /\ proc = "serving"
Goto(r, pc) == req' = [req EXCEPT ![r].pc = pc]
OthersUnchanged == UNCHANGED <<now, starts, proc, covers, purge>>

InWindow(t) == t <= now + FutureSkew /\ t >= now - Backlog

\* validateFixTimestamp, with the clock read at the start of the request.
Arrive(r) ==
    /\ At(r, "idle")
    /\ \E t \in Stamps :
        req' = [req EXCEPT ![r] = [pc |-> IF InWindow(t) THEN "insert" ELSE "refused", ts |-> t]]
    /\ UNCHANGED <<exists, rows, faults>> /\ OthersUnchanged

Insert(r) ==
    /\ \E n \in Routed(req[r].ts) : rows' = rows \cup {<<n, req[r].ts>>}
    /\ Goto(r, "stored")

\* The first UpsertFix: "no partition of relation" leads to the mitigation.
Upsert(r) ==
    /\ At(r, "insert")
    /\ \/ Insert(r)
       \/ Routed(req[r].ts) = {} /\ Goto(r, "create") /\ UNCHANGED rows
    /\ UNCHANGED <<exists, faults>> /\ OthersUnchanged

\* CREATE TABLE IF NOT EXISTS looks for the relation ...
CreateIfNotExists(r) ==
    /\ At(r, "create")
    /\ Goto(r, IF MonthOf(req[r].ts) \in exists THEN "verify" ELSE "creating")
    /\ UNCHANGED <<exists, rows, faults>> /\ OthersUnchanged

\* Mutant: 42P07 is an error like any other.
CreatePartitionStrict(r) ==
    /\ At(r, "creating")
    /\ LET m == MonthOf(req[r].ts) IN
        \/ (m \in exists \/ Overlaps(m)) /\ Goto(r, "unprovisioned") /\ UNCHANGED exists
        \/ m \notin exists /\ ~Overlaps(m) /\ Goto(r, "verify") /\ exists' = exists \cup {m}
    /\ UNCHANGED <<rows, faults>> /\ OthersUnchanged

\* ... and then makes it, unless somebody else has in between: 42P07, which
\* IngestFix takes for a success.
CreatePartition(r) ==
    /\ At(r, "creating")
    /\ LET m == MonthOf(req[r].ts) IN
        \/ m \in exists /\ Goto(r, "retry") /\ UNCHANGED exists
        \/ m \notin exists /\ Overlaps(m) /\ Goto(r, "unprovisioned") /\ UNCHANGED exists
        \/ m \notin exists /\ ~Overlaps(m) /\ Goto(r, "verify") /\ exists' = exists \cup {m}
    /\ UNCHANGED <<rows, faults>> /\ OthersUnchanged

\* The bounds in the catalog must be those of the month; no row, or others,
\* is an error of the request.
VerifyBounds(r) ==
    /\ At(r, "verify")
    /\ Goto(r, IF Provisioned(MonthOf(req[r].ts)) THEN "retry" ELSE "unprovisioned")
    /\ UNCHANGED <<exists, rows, faults>> /\ OthersUnchanged

\* The second and last UpsertFix.
Retry(r) ==
    /\ At(r, "retry")
    /\ \/ Insert(r)
       \/ Routed(req[r].ts) = {} /\ Goto(r, "unprovisioned") /\ UNCHANGED rows
    /\ UNCHANGED <<exists, faults>> /\ OthersUnchanged

\* Any of these statements can fail for a reason of its own.
StatementFailed(r) ==
    /\ \E pc \in {"insert", "create", "creating", "verify", "retry"} : At(r, pc)
    /\ faults < MaxFaults /\ faults' = faults + 1
    /\ Goto(r, "failed")
    /\ UNCHANGED <<exists, rows>> /\ OthersUnchanged

-----------------------------------------------------------------------------
(* Job.Run: a pass at the start and one per tick of its interval.          *)

JobUnchanged == UNCHANGED <<now, starts, proc, covers, req>>

\* RunOnce: the cutoff, then the whole list of children.
PurgeList ==
    /\ proc = "serving" /\ purge.pc = "idle"
    /\ purge' = [pc |-> "dropping", cutoff |-> now - Window, todo |-> exists]
    /\ UNCHANGED <<exists, rows, faults>> /\ JobUnchanged

\* The listing is ordered by name.
First(todo) == CHOOSE n \in todo : \A o \in todo : n <= o

Dropping(n) == proc = "serving" /\ purge.pc = "dropping" /\ purge.todo # {} /\ n = First(purge.todo)

Drop(n) ==
    /\ exists' = exists \ {n}
    /\ covers' = [covers EXCEPT ![n] = n]
    /\ rows' = {p \in rows : p[1] # n}
    /\ UNCHANGED <<now, starts, proc, req, faults>>

\* Mutant: a child that begins before the cutoff is dropped.
DropPartitionByLower(n) ==
    /\ Dropping(n)
    /\ covers[n] # NoBound /\ monthStart(covers[n]) <= purge.cutoff
    /\ Drop(n)
    /\ purge' = [purge EXCEPT !.todo = @ \ {n}]

DropPartition(n) ==
    /\ Dropping(n)
    /\ covers[n] # NoBound /\ upper(n) <= purge.cutoff
    /\ Drop(n)
    /\ purge' = [purge EXCEPT !.todo = @ \ {n}]

KeepPartition(n) ==
    /\ Dropping(n)
    /\ covers[n] # NoBound /\ upper(n) > purge.cutoff
    /\ purge' = [purge EXCEPT !.todo = @ \ {n}]
    /\ UNCHANGED <<exists, rows, faults>> /\ JobUnchanged

\* Mutant: the pass does not end at a child it cannot drop but tries again.
PurgeFailedAgain(n) ==
    /\ Dropping(n)
    /\ \/ covers[n] = NoBound /\ UNCHANGED faults
       \/ faults < MaxFaults /\ faults' = faults + 1
    /\ UNCHANGED <<exists, rows, purge>> /\ JobUnchanged

\* A child without a readable bound ends the pass with an error, and so does
\* a DROP that fails; Run logs it and waits for the next tick.
PurgeFailed(n) ==
    /\ Dropping(n)
    /\ \/ covers[n] = NoBound /\ UNCHANGED faults
       \/ faults < MaxFaults /\ faults' = faults + 1
    /\ purge' = NoPurge
    /\ UNCHANGED <<exists, rows>> /\ JobUnchanged

PurgeDone ==
    /\ proc = "serving" /\ purge.pc = "dropping" /\ purge.todo = {}
    /\ purge' = NoPurge
    /\ UNCHANGED <<exists, rows, faults>> /\ JobUnchanged

-----------------------------------------------------------------------------

ServerStep == Boot \/ EnsurePartitions \/ EnsurePartitionsFailed \/ Stop \/ Tick

IngestStep(r) ==
    \/ Arrive(r) \/ Upsert(r) \/ CreateIfNotExists(r) \/ CreatePartition(r)
    \/ VerifyBounds(r) \/ Retry(r) \/ StatementFailed(r)

JobStep ==
    \/ PurgeList \/ PurgeDone
    \/ \E n \in Names : DropPartition(n) \/ KeepPartition(n) \/ PurgeFailed(n)

Next == ServerStep \/ JobStep \/ \E r \in Requests : IngestStep(r)

Spec == Init /\ [][Next]_vars

(* Fairness: the job's ticker fires for as long as the process serves, and *)
(* each of its statements ends, in success or failure.                     *)
Fairness == WF_vars(JobStep)

FairSpec == Spec /\ Fairness

-----------------------------------------------------------------------------
(* Properties.                                                             *)

TypeOK ==
    /\ now \in 0 .. MaxTime /\ starts \in 0 .. MaxStarts /\ faults \in 0 .. MaxFaults
    /\ proc \in {"down", "starting", "serving"}
    /\ exists \subseteq Names
    /\ covers \in [Names -> Months \cup {NoBound}]
    /\ rows \subseteq (exists \X Stamps)
    /\ req \in [Requests -> [pc : Ended \cup {"idle", "insert", "create", "creating", "verify", "retry"},
                            ts : Stamps]]
    /\ purge \in [pc : {"idle", "dropping"}, cutoff : Int, todo : SUBSET exists]

Kept(t) == \E n \in exists : <<n, t>> \in rows

\* A fix that was answered as stored is there until it is past the window:
\* whatever bounds a child has in the catalog, a pass with its cutoff and its
\* listing taken earlier, racing inserts and restarts, never drops a younger
\* one (internal/db/partitions.go:120-189, internal/store/store.go:142-154).
AnsweredIsKept ==
    \A r \in Requests : req[r].pc = "stored" =>
        Kept(req[r].ts) \/ req[r].ts < now - Window

\* The mitigation of IngestFix works: a fix the window accepts is turned away
\* for want of a partition only if retention has dropped its month, or if a
\* relation of somebody else's has the month's name.  Losing a race to create
\* the partition never is a reason (internal/store/store.go:142-152).
MonthTurnHeals ==
    \A r \in Requests : req[r].pc = "unprovisioned" =>
        \/ req[r].ts < now - Window
        \/ \E s \in Strangers : s[1] = MonthOf(req[r].ts) /\ s[1] # s[2]

\* Retention is honoured: while the server keeps serving, a month that is
\* wholly past the window is dropped in the end, although a pass stops at its
\* first failing DROP and at an unreadable bound, and although late fixes can
\* create the month again (internal/retention/retention.go:76-104).
RetentionHonoured ==
    <>[](proc = "serving") =>
        \A n \in Months : (n \in exists /\ upper(n) <= now - Window) ~> (n \notin exists)

=============================================================================
