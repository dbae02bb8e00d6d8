----------------------------- MODULE LiveStream -----------------------------
(***************************************************************************)
(* GET /v1/stream and the map page that watches it: one family, one page,  *)
(* one connection at a time.  The connection polls the database, writes a  *)
(* `position' event for every device whose current position arrived after  *)
(* its cursor, then `presentation' events for devices whose value changed. *)
(*                                                                         *)
(* An event is delivered as it is written and the connection may drop      *)
(* between any two: what is lost on the way is lost with the connection.   *)
(* Instants are whole seconds here; Never is "no fix" and "no cursor".     *)
(***************************************************************************)
EXTENDS Presentation, FiniteSets

CONSTANTS
  Devices,
  Stamps,      \* timestamps of fixes, by the devices' clocks
  MaxTime,     \* bound on the server's clock (model checking only)
  MaxFixes     \* bound on the fixes ever written (model checking only)

ASSUME LiveStreamAssumption ==
  Stamps \subseteq Nat /\ MaxTime \in Nat /\ MaxFixes \in Nat

VARIABLES
  now,       \* the server's clock
  fixes,     \* committed rows: device, ts, rcv (received_at)
  pendingTx, \* rows whose transaction has begun (and fixed rcv) and not ended
  written,   \* number of fixes ever written
  newest,    \* history: the latest received_at committed so far
  overtaken, \* history: a row was committed that is no newer than that
  enrolled,  \* devices of the family
  conn,      \* the open streamConn, if any
  page       \* the map page: each device's state word and marker, and the last id

vars == <<now, fixes, pendingTx, written, newest, overtaken, enrolled, conn, page>>
arrival == <<newest, overtaken>>
database == <<fixes, pendingTx, written, arrival, enrolled>>

Never == 0 - 1

MaxOf(s) == IF s = {} THEN Never ELSE CHOOSE x \in s : \A y \in s : y <= x

Closed == [pc |-> "closed", since |-> Never, cursor |-> Never, resuming |-> FALSE,
           swept |-> FALSE, degraded |-> FALSE, prev |-> <<>>, prevAt |-> Never,
           marker |-> <<>>, states |-> <<>>, at |-> Never, todo |-> {}, owed |-> {},
           positioned |-> {}]

BlankPage == [state |-> [d \in Devices |-> "unknown"], marker |-> [d \in Devices |-> Never],
              lastId |-> Never]

Time == 0 .. MaxTime
Row == [dev : Devices, ts : Stamps, rcv : Time]

TypeOK ==
  /\ now \in Time /\ fixes \subseteq Row /\ pendingTx \subseteq Row /\ written \in Nat
  /\ newest \in Time \cup {Never} /\ overtaken \in BOOLEAN
  /\ enrolled \subseteq Devices
  /\ conn.pc \in {"closed", "poll", "position", "sweep", "presentation"}
  /\ conn.since \in Time \cup {Never} /\ conn.prevAt \in Time \cup {Never}
  /\ DOMAIN conn.prev \subseteq Devices /\ conn.todo \subseteq Devices /\ conn.owed \subseteq Devices
  /\ page.state \in [Devices -> Values \cup {"unknown"}]
  /\ page.marker \in [Devices -> Stamps \cup {Never}]
  /\ page.lastId \in Time \cup {Never}

Init ==
  /\ now = 0 /\ fixes = {} /\ pendingTx = {} /\ written = 0
  /\ newest = Never /\ overtaken = FALSE
  /\ enrolled \in SUBSET Devices
  /\ conn = Closed /\ page = BlankPage

Value(at, contact) ==
  IF contact = Never THEN "no-position"
  ELSE Evaluate([unix |-> at, nano |-> 0], [unix |-> contact, nano |-> 0])
-----------------------------------------------------------------------------
(* The database's other users.                                             *)

Tick == now < MaxTime /\ now' = now + 1 /\ UNCHANGED <<database, conn, page>>

Enrol(d) ==
  /\ d \notin enrolled /\ enrolled' = enrolled \cup {d}
  /\ UNCHANGED <<now, fixes, pendingTx, written, arrival, conn, page>>

\* An ingest's INSERT: received_at defaults to its transaction's begin.
BeginFix(d, t) ==
  /\ d \in enrolled /\ written < MaxFixes /\ written' = written + 1
  /\ \A f \in fixes \cup pendingTx : ~(f.dev = d /\ f.ts = t)
  /\ pendingTx' = pendingTx \cup {[dev |-> d, ts |-> t, rcv |-> now]}
  /\ UNCHANGED <<now, fixes, arrival, enrolled, conn, page>>

\* The row becomes visible, at any time after.
CommitFix(f) ==
  /\ fixes' = fixes \cup {f} /\ pendingTx' = pendingTx \ {f}
  /\ newest' = MaxOf({newest, f.rcv}) /\ overtaken' = (overtaken \/ f.rcv <= newest)
  /\ UNCHANGED <<now, written, enrolled, conn, page>>

\* Retention drops the partitions up to a cutoff in device time.
Purge(t) ==
  /\ \E f \in fixes : f.ts <= t
  /\ fixes' = {f \in fixes : f.ts > t}
  /\ UNCHANGED <<now, pendingTx, written, arrival, enrolled, conn, page>>
-----------------------------------------------------------------------------
(* The page.                                                               *)

\* Last-Event-ID is an instant; without one the request is not a resume.
parseResumeCursor == [cursor |-> page.lastId, resuming |-> page.lastId # Never]

\* getStream.
Connect ==
  /\ conn.pc = "closed"
  /\ LET r == parseResumeCursor IN
     conn' = [Closed EXCEPT !.pc = "poll", !.since = r.cursor, !.cursor = r.cursor,
                            !.resuming = r.resuming]
  /\ UNCHANGED <<now, database, page>>

Disconnect ==
  /\ conn.pc # "closed" /\ conn' = Closed
  /\ UNCHANGED <<now, database, page>>

Reload ==
  /\ conn.pc = "closed" /\ page # BlankPage
  /\ page' = BlankPage
  /\ UNCHANGED <<now, database, conn>>

\* onStreamEvent.
OnPosition(d, value, ts, id) ==
  page' = [state |-> [page.state EXCEPT ![d] = value],
           marker |-> [page.marker EXCEPT ![d] = ts], lastId |-> id]

OnPresentation(d, value) ==
  page' = [page EXCEPT !.state[d] = value,
                       !.marker[d] = IF value = "no-position" THEN Never ELSE @]
-----------------------------------------------------------------------------
(* streamConn.poll.                                                        *)

\* FamilyDeviceStates: the newest fix by the device's clock, and the last contact.
DeviceState(d) ==
  LET own == {f \in fixes : f.dev = d}
      ts == MaxOf({f.ts : f \in own})
  IN [ts |-> ts,
      rcv |-> MaxOf({f.rcv : f \in {g \in own : g.ts = ts}}),
      contact |-> MaxOf({f.rcv : f \in own})]

\* Mutant of PollRead: the batch is not limited by the cursor.
PollReadAll ==
  /\ conn.pc = "poll"
  /\ LET states == [d \in enrolled |-> DeviceState(d)] IN
     conn' = [conn EXCEPT !.pc = "position", !.states = states, !.at = now,
                !.todo = {d \in enrolled : states[d].rcv # Never}, !.positioned = {}]
  /\ UNCHANGED <<now, database, page>>

PollRead ==
  /\ conn.pc = "poll"
  /\ LET states == [d \in enrolled |-> DeviceState(d)] IN
     conn' = [conn EXCEPT !.pc = "position", !.states = states, !.at = now,
                !.todo = {d \in enrolled : states[d].rcv > conn.since},
                !.positioned = {}]
  /\ UNCHANGED <<now, database, page>>

\* reportUnavailable: the watcher is told, unless `degraded' says it was.
Unavailable(c) ==
  conn' = [c EXCEPT !.pc = "poll", !.degraded = TRUE, !.states = <<>>, !.todo = {},
             !.positioned = {}, !.at = Never]

PollFailed ==
  /\ conn.pc = "poll"
  /\ Unavailable(conn)
  /\ UNCHANGED <<now, database, page>>

\* Mutant of sortByArrival: in the order of the query.
sortByArrivalNot(d) == d \in conn.todo

\* d's position is the next to go out: no other has arrived before it.
sortByArrival(d) == d \in conn.todo /\ \A e \in conn.todo : conn.states[d].rcv <= conn.states[e].rcv

\* The events go out in order of arrival and the cursor moves with them.
WritePosition(d) ==
  /\ conn.pc = "position" /\ sortByArrival(d)
  /\ LET s == conn.states[d] IN
     /\ OnPosition(d, Value(conn.at, s.contact), s.ts, s.rcv)
     /\ conn' = [conn EXCEPT !.since = s.rcv, !.todo = @ \ {d}, !.positioned = @ \cup {d}]
  /\ UNCHANGED <<now, database>>

\* resumeSweep's other query: the last contact as it stood at the cursor.
ContactAsOf(d, instant) == MaxOf({f.rcv : f \in {g \in fixes : g.dev = d /\ g.rcv <= instant}})

resumeSweep(d) ==
  LET then == ContactAsOf(d, conn.cursor) IN
  then = Never \/ Value(conn.cursor, then) # Value(conn.at, conn.states[d].contact)

snapshotUnlocated(d) == conn.states[d].contact = Never

\* Mutant of diff: only a new contact counts as a change.
diffContactOnly(d) ==
  /\ d \in DOMAIN conn.prev
  /\ conn.prev[d] # conn.states[d].contact

\* After an outage every device is stated again.
reannounce(d) == d \in DOMAIN conn.states

\* A device the previous poll did not know is skipped.
diff(d) ==
  /\ d \in DOMAIN conn.prev
  /\ Value(conn.prevAt, conn.prev[d]) # Value(conn.at, conn.states[d].contact)

Owed ==
  {d \in DOMAIN conn.states \ conn.positioned :
     IF ~conn.swept
     THEN IF conn.resuming THEN resumeSweep(d) ELSE snapshotUnlocated(d)
     ELSE IF conn.degraded THEN reannounce(d) ELSE diff(d)}

\* `degraded' is reset when the first query succeeds; what it was decides
\* between reannounce and diff.
Sweep ==
  /\ conn.pc = "position" /\ conn.todo = {}
  /\ conn' = [conn EXCEPT !.pc = "presentation", !.owed = Owed, !.swept = TRUE,
                          !.degraded = FALSE]
  /\ UNCHANGED <<now, database, page>>

\* The sweep's own query fails, after the first one has reset `degraded'.
SweepFailed ==
  /\ conn.pc = "position" /\ conn.todo = {} /\ ~conn.swept /\ conn.resuming
  /\ Unavailable([conn EXCEPT !.degraded = FALSE])
  /\ UNCHANGED <<now, database, page>>

WritePresentation(d) ==
  /\ conn.pc = "presentation" /\ d \in conn.owed
  /\ OnPresentation(d, Value(conn.at, conn.states[d].contact))
  /\ conn' = [conn EXCEPT !.owed = @ \ {d}]
  /\ UNCHANGED <<now, database>>

\* What this poll saw is what the next one compares with.
PollDone ==
  /\ conn.pc = "presentation" /\ conn.owed = {}
  /\ conn' = [conn EXCEPT !.pc = "poll",
                !.prev = [d \in DOMAIN conn.states |-> conn.states[d].contact],
                !.marker = [d \in DOMAIN conn.states |-> conn.states[d].ts],
                !.prevAt = conn.at, !.states = <<>>, !.positioned = {}, !.at = Never]
  /\ UNCHANGED <<now, database, page>>
-----------------------------------------------------------------------------
Poll ==
  \/ PollRead \/ PollFailed \/ Sweep \/ SweepFailed \/ PollDone
  \/ \E d \in Devices : WritePosition(d) \/ WritePresentation(d)

Next ==
  \/ Tick
  \/ \E d \in Devices : Enrol(d) \/ \E t \in Stamps : BeginFix(d, t)
  \/ \E f \in pendingTx : CommitFix(f)
  \/ \E t \in Stamps : Purge(t)
  \/ Connect \/ Disconnect \/ Reload \/ Poll

Spec == Init /\ [][Next]_vars
-----------------------------------------------------------------------------
\* A poll has just been completed and nothing has been reported since.
Current == conn.pc = "poll" /\ conn.swept /\ ~conn.degraded

\* "A dropped connection resumes from Last-Event-ID with NO GAPS": after a poll
\* the page's marker of every device is the position that poll read, however the
\* connection got there, and it is gone when the position is.
NoGaps == Current => \A d \in DOMAIN conn.prev : page.marker[d] = conn.marker[d]

\* What of that the code does keep: there is no gap, over dropped connections,
\* failing queries, purges and backlogs, while every row becomes visible with a
\* received_at later than those before it.
NoGapsInOrder == ~overtaken => NoGaps

\* The word the page shows for a device is the one true at the poll's instant: a
\* change of value has been announced, whether time passed, a backlogged fix
\* arrived, retention purged, or the database was away in between.  (A device
\* enrolled while the connection was open has no word yet, until its first fix,
\* or for as long as that fix was overtaken.)  This is said of a connection that
\* began with a snapshot: one resumed with Last-Event-ID is compared with the words of
\* its cursor's instant, which need not be the last its page was told.
TrueWord(d) ==
  \/ page.state[d] = Value(conn.prevAt, conn.prev[d])
  \/ page.state[d] = "unknown" /\ (overtaken \/ conn.prev[d] = Never)

WordsAreTrue == Current /\ ~conn.resuming => \A d \in DOMAIN conn.prev : TrueWord(d)

\* The ids a page sees never go back, over reconnects too.
IdsMonotone == [][page'.lastId >= page.lastId \/ page' = BlankPage]_vars
=============================================================================
