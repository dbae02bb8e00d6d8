------------------------- MODULE GeofenceEvaluator -------------------------
(***************************************************************************)
(* The enter/exit log of one device (store.EvaluateDeviceGeofences), as    *)
(* the ingest handlers drive it.  A request stores its fix and, when the   *)
(* row is new, evaluates every Place of the family: it reads the Place's   *)
(* latest event, reads a neighbourhood of the fix, runs the dwell rule     *)
(* (confirmTransitions) and appends what it confirms.  Each of these is a  *)
(* statement of its own outside any transaction, so requests interleave    *)
(* between them, and any of them may fail.                                 *)
(*                                                                         *)
(* A fix's location is abstracted to the set of Places that cover it, and  *)
(* time to small integers.                                                 *)
(***************************************************************************)
EXTENDS Integers, Sequences, FiniteSets

CONSTANTS
  Times,        \* the timestamps of the device's fixes
  Places,       \* the family's Places, 1 .. n in the evaluator's order
  Debounce,     \* GeofenceDebounce
  Neighbours,   \* geofenceEvalNeighbours
  Requests,     \* ingest handlers
  MayFail       \* whether a statement may fail

ASSUME GeofenceAssumption ==
  /\ Times \subseteq Nat /\ IsFiniteSet(Times)
  /\ Places = 1 .. Cardinality(Places) /\ IsFiniteSet(Places) /\ Places # {}
  /\ Debounce \in Nat /\ Neighbours \in Nat \ {0}
  /\ MayFail \in BOOLEAN

VARIABLES
  fixes,     \* stored fixes: timestamp -> the Places that cover the location
  events,    \* geofence_events: Place -> timestamp -> transition
  req,       \* each handler's activation
  alerts,    \* crossings handed to the notifier, as <<place, ts>>
  orderly,   \* history: every fix has come after those before it, in time and in
             \* timestamp, when no evaluation was under way
  streak,    \* history: evaluations that have failed since one went through
  missed     \* history: the longest streak so far

vars == <<fixes, events, req, alerts, orderly, streak, missed>>
history == <<orderly, streak, missed>>

Zero == 0 - 1   \* Go's zero time, before every timestamp

Idle == [pc |-> "idle", around |-> Zero, place |-> 0, floor |-> Zero, seed |-> "none",
         todo |-> <<>>, appended |-> {}]

Kinds == {"enter", "exit"}

TypeOK ==
  /\ DOMAIN fixes \subseteq Times /\ \A t \in DOMAIN fixes : fixes[t] \subseteq Places
  /\ DOMAIN events = Places
  /\ \A p \in Places : /\ DOMAIN events[p] \subseteq Times
                       /\ \A t \in DOMAIN events[p] : events[p][t] \in Kinds
  /\ \A r \in Requests :
       /\ req[r].pc \in {"idle", "prior", "window", "append"}
       /\ req[r].around \in Times \cup {Zero} /\ req[r].floor \in Times \cup {Zero}
       /\ req[r].place \in Places \cup {0} /\ req[r].seed \in Kinds \cup {"none"}
       /\ \A i \in 1 .. Len(req[r].todo) : req[r].todo[i] \in Times \X Kinds
       /\ req[r].appended \subseteq Places \X Times
  /\ alerts \subseteq Places \X Times
  /\ orderly \in BOOLEAN /\ streak \in Nat /\ missed \in Nat

Init ==
  /\ fixes = <<>>
  /\ events = [p \in Places |-> <<>>]
  /\ req = [r \in Requests |-> Idle]
  /\ alerts = {} /\ orderly = TRUE /\ streak = 0 /\ missed = 0
-----------------------------------------------------------------------------
(* The dwell rule.                                                         *)

\* The timestamps s in ascending order.
Sorted(s) == [i \in 1 .. Cardinality(s) |-> CHOOSE t \in s : Cardinality({u \in s : u < t}) = i - 1]

\* Mutant of Dwells: off by one.
DwellsShort(ts, inside, i) ==
  \E j \in i .. Len(ts) :
    /\ ts[j] + 1 >= ts[i] + Debounce
    /\ \A k \in i .. j : inside[k] = inside[i]

\* The readings from the i-th on keep the i-th's state until its dwell is met.
Dwells(ts, inside, i) ==
  \E j \in i .. Len(ts) :
    /\ ts[j] >= ts[i] + Debounce
    /\ \A k \in i .. j : inside[k] = inside[i]

\* One turn of confirmTransitions' loop over acc = (state, observed, out).
ConfirmStep(ts, inside, acc, i) ==
  IF inside[i] = acc.state THEN [acc EXCEPT !.observed = TRUE]
  ELSE IF acc.observed /\ Dwells(ts, inside, i)
  THEN [state |-> inside[i], observed |-> TRUE,
        out |-> Append(acc.out, <<ts[i], IF inside[i] THEN "enter" ELSE "exit">>)]
  ELSE acc

\* The transitions confirmed in the timestamps ts (sorted), for the readings
\* inside, from the seed state.
confirmTransitions(ts, inside, seed) ==
  LET acc[i \in 0 .. Len(ts)] ==
        IF i = 0 THEN [state |-> seed = "enter", observed |-> seed # "none", out |-> <<>>]
        ELSE ConfirmStep(ts, inside, acc[i - 1], i)
  IN acc[Len(ts)].out

\* Whether each of the stored fixes ts is inside p.
Inside(p, ts) == [i \in 1 .. Len(ts) |-> p \in fixes[ts[i]]]

\* Mutant of Window: one fix less on either side.
WindowSmaller(around, floor) ==
  LET above == {t \in DOMAIN fixes : t > floor}
      upTo == {t \in above : t <= around}
      after == above \ upTo
  IN {t \in upTo : Cardinality({u \in upTo : u > t}) < Neighbours - 1} \cup
     {t \in after : Cardinality({u \in after : u < t}) < Neighbours - 1}

\* At most Neighbours fixes up to `around', and as many after it, above the floor.
Window(around, floor) ==
  LET above == {t \in DOMAIN fixes : t > floor}
      upTo == {t \in above : t <= around}
      after == above \ upTo
  IN {t \in upTo : Cardinality({u \in upTo : u > t}) < Neighbours} \cup
     {t \in after : Cardinality({u \in after : u < t}) < Neighbours}

Latest(f) == IF DOMAIN f = {} THEN Zero ELSE CHOOSE t \in DOMAIN f : \A u \in DOMAIN f : u <= t

Settled == \A r \in Requests : req[r].pc = "idle"
-----------------------------------------------------------------------------
(* ingest and EvaluateDeviceGeofences.                                     *)

\* The fix is stored; a replay inserts nothing and is not evaluated.
Ingest(r, t) ==
  /\ req[r].pc = "idle" /\ t \notin DOMAIN fixes
  /\ \E cover \in SUBSET Places :
       fixes' = [u \in DOMAIN fixes \cup {t} |-> IF u = t THEN cover ELSE fixes[u]]
  /\ req' = [req EXCEPT ![r] = [Idle EXCEPT !.pc = "prior", !.around = t, !.place = 1]]
  /\ orderly' = (orderly /\ Settled /\ t > Latest(fixes))
  /\ UNCHANGED <<events, alerts, streak, missed>>

\* Mutant of ReadPrior: the seed without the floor.
ReadPriorNoFloor(r) ==
  /\ req[r].pc = "prior"
  /\ LET last == Latest(events[req[r].place]) IN
     req' = [req EXCEPT ![r].pc = "window",
               ![r].seed = IF last = Zero THEN "none" ELSE events[req[r].place][last]]
  /\ UNCHANGED <<fixes, events, alerts, history>>

\* The latest recorded transition: the seed and the floor.
ReadPrior(r) ==
  /\ req[r].pc = "prior"
  /\ LET last == Latest(events[req[r].place]) IN
     req' = [req EXCEPT ![r].pc = "window", ![r].floor = last,
               ![r].seed = IF last = Zero THEN "none" ELSE events[req[r].place][last]]
  /\ UNCHANGED <<fixes, events, alerts, history>>

ReadWindow(r) ==
  /\ req[r].pc = "window"
  /\ LET ts == Sorted(Window(req[r].around, req[r].floor)) IN
     req' = [req EXCEPT ![r].pc = "append",
               ![r].todo = confirmTransitions(ts, Inside(req[r].place, ts), req[r].seed)]
  /\ UNCHANGED <<fixes, events, alerts, history>>

\* INSERT ... ON CONFLICT DO NOTHING of the next one; only a row that is new counts.
InsertEvent(p, tr) ==
  events' = IF tr[1] \in DOMAIN events[p] THEN events
            ELSE [events EXCEPT ![p] = [t \in DOMAIN @ \cup {tr[1]} |->
                                          IF t = tr[1] THEN tr[2] ELSE @[t]]]

\* Mutant of AppendEvent: a row that was already there is announced again.
AppendEventAlways(r) ==
  /\ req[r].pc = "append" /\ req[r].todo # <<>>
  /\ InsertEvent(req[r].place, Head(req[r].todo))
  /\ req' = [req EXCEPT ![r].todo = Tail(@),
               ![r].appended = @ \cup {<<req[r].place, Head(req[r].todo)[1]>>}]
  /\ UNCHANGED <<fixes, alerts, history>>

AppendEvent(r) ==
  /\ req[r].pc = "append" /\ req[r].todo # <<>>
  /\ LET p == req[r].place
         tr == Head(req[r].todo)
     IN /\ InsertEvent(p, tr)
        /\ req' = [req EXCEPT ![r].todo = Tail(@),
                     ![r].appended = IF tr[1] \in DOMAIN events[p] THEN @ ELSE @ \cup {<<p, tr[1]>>}]
  /\ UNCHANGED <<fixes, alerts, history>>

\* The evaluation returns `crossings', and ingest hands them to the notifier.
Return(r, crossings) ==
  /\ alerts' = alerts \cup crossings
  /\ req' = [req EXCEPT ![r] = Idle]

\* What evaluateOneGeofence returned for the Places before this one.
EarlierPlaces(r) == {a \in req[r].appended : a[1] # req[r].place}

NextPlace(r) ==
  /\ req[r].pc = "append" /\ req[r].todo = <<>> /\ req[r].place + 1 \in Places
  /\ req' = [req EXCEPT ![r].pc = "prior", ![r].place = @ + 1]
  /\ UNCHANGED <<fixes, events, alerts, history>>

EndEvaluation(r) ==
  /\ req[r].pc = "append" /\ req[r].todo = <<>> /\ req[r].place + 1 \notin Places
  /\ Return(r, req[r].appended)
  /\ streak' = 0
  /\ UNCHANGED <<fixes, events, orderly, missed>>

\* (History.)
Failed == streak' = streak + 1 /\ missed' = IF missed > streak THEN missed ELSE streak + 1

\* A statement fails: the loop over the Places returns at once with what the
\* Places before this one appended; what this one did is not among it.
Fail(r) ==
  /\ MayFail /\ (req[r].pc \in {"prior", "window"} \/ req[r].todo # <<>>)
  /\ Return(r, EarlierPlaces(r)) /\ Failed
  /\ UNCHANGED <<fixes, events, orderly>>

\* The INSERT commits and only its acknowledgement is lost.
FailCommitted(r) ==
  /\ MayFail /\ req[r].pc = "append" /\ req[r].todo # <<>>
  /\ InsertEvent(req[r].place, Head(req[r].todo))
  /\ Return(r, EarlierPlaces(r)) /\ Failed
  /\ UNCHANGED <<fixes, orderly>>

Next ==
  \E r \in Requests :
    \/ \E t \in Times : Ingest(r, t)
    \/ ReadPrior(r) \/ ReadWindow(r) \/ AppendEvent(r) \/ NextPlace(r)
    \/ EndEvaluation(r) \/ Fail(r) \/ FailCommitted(r)

Spec == Init /\ [][Next]_vars
-----------------------------------------------------------------------------
\* The transitions recorded for p, in the order of their timestamps.
Log(p) == [i \in 1 .. Cardinality(DOMAIN events[p]) |-> events[p][Sorted(DOMAIN events[p])[i]]]

\* The log never contradicts itself: for each Place enter and exit take turns,
\* beginning with an enter.
Alternates ==
  \A p \in Places : \A i \in 1 .. Len(Log(p)) : Log(p)[i] = IF i % 2 = 1 THEN "enter" ELSE "exit"

\* "A single fix that jitters across the boundary and back never becomes an
\* event": when a transition is confirmed, stored fixes prove it, an unbroken
\* run of the new state from the transition's own fix to one Debounce later,
\* though the evaluator sees only a bounded neighbourhood.
Proved(p, t, kind) ==
  /\ t \in DOMAIN fixes
  /\ \E u \in DOMAIN fixes : u >= t + Debounce /\
       \A v \in DOMAIN fixes : t <= v /\ v <= u => ((p \in fixes[v]) <=> kind = "enter")

DwellProved ==
  [][\A r \in Requests : req[r].pc = "window" /\ req'[r].pc = "append" =>
       \A i \in 1 .. Len(req'[r].todo) :
         Proved(req[r].place, req'[r].todo[i][1], req'[r].todo[i][2])]_vars

\* What the whole history, read in timestamp order, amounts to.
Projection(p) ==
  LET ts == Sorted(DOMAIN fixes)
      out == confirmTransitions(ts, Inside(p, ts), "none")
  IN [t \in {out[i][1] : i \in 1 .. Len(out)} |->
        out[CHOOSE i \in 1 .. Len(out) : out[i][1] = t][2]]

\* Fixes that arrive in order leave the log equal to the projection of the whole
\* history, although each evaluation starts from the last event and sees a
\* neighbourhood; and "a transient failure self-heals on the next fix": one
\* evaluation that goes through makes good what failed ones left undone, as long
\* as the neighbourhood reaches back over them and over one dwell.
SelfHeals ==
  Settled /\ orderly /\ streak = 0 /\ missed + Debounce + 2 <= Neighbours
    => \A p \in Places : events[p] = Projection(p)

\* A crossing is announced once: no two requests have the same row to announce,
\* and none has one that was announced before.
AlertedOnce ==
  \A r \in Requests :
    /\ req[r].appended \cap alerts = {}
    /\ \A s \in Requests \ {r} : req[r].appended \cap req[s].appended = {}
    /\ \A a \in req[r].appended : a[2] \in DOMAIN events[a[1]]

\* ingest: "a partial evaluation still pushes what it did record": however an
\* evaluation ends, the rows it knows it has inserted go to the notifier.
RecordedIsPushed ==
  [][\A r \in Requests : req'[r].pc = "idle" => req[r].appended \subseteq alerts']_vars
=============================================================================
