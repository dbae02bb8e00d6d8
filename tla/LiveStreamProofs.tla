-------------------------- MODULE LiveStreamProofs --------------------------
(***************************************************************************)
(* What the presentation function promises for every pair of windows the   *)
(* configuration admits, and what the live stream promises for every       *)
(* family, history of fixes and clock: the ids never go back, no gap opens *)
(* while rows arrive in order, and the words on the page are true.         *)
(***************************************************************************)
EXTENDS LiveStream, NaturalsInduction, WellFoundedInduction, TLAPS
\* The sub-units of time from contact to at.
Elapsed(at, contact) == (at.unix - contact.unix) * Second + at.nano - contact.nano

\* A multiple of Second moves with its factor.
LEMMA SecondStep ==
  ASSUME NEW n \in Int
  PROVE  (n - 1) * Second = n * Second - Second /\ (n + 1) * Second = n * Second + Second
BY WindowsAssumption

\* AgeSeconds "is the truncation of the DIFFERENCE, not of each instant": the
\* borrow makes it the whole seconds elapsed, for every pair of instants, and
\* clock skew counts as age zero.
THEOREM AgeIsElapsedSeconds ==
  ASSUME NEW at \in Instant, NEW contact \in Instant
  PROVE  /\ AgeSeconds(at, contact) \in Nat
         /\ Elapsed(at, contact) < 0 => AgeSeconds(at, contact) = 0
         /\ Elapsed(at, contact) >= 0 =>
              /\ AgeSeconds(at, contact) * Second <= Elapsed(at, contact)
              /\ Elapsed(at, contact) < (AgeSeconds(at, contact) + 1) * Second
<1> DEFINE secs == at.unix - contact.unix
           rest == at.nano - contact.nano
           span == secs * Second
<1>1. /\ secs \in Int /\ rest \in Int /\ Second \in Nat \ {0}
      /\ 0 - Second < rest /\ rest < Second
  BY WindowsAssumption DEF Instant
<1>2. span \in Int /\ Elapsed(at, contact) = span + rest
  BY <1>1 DEF Elapsed, Instant
<1>3. secs >= 0 => span >= 0
  BY <1>1
<1>4. secs < 0 => span <= 0 - Second
  BY <1>1, SecondStep
<1>5. secs >= 1 => span >= Second
  BY <1>1, SecondStep
<1> QED
  BY <1>1, <1>2, <1>3, <1>4, <1>5, SecondStep DEF AgeSeconds

\* A device's word only ages while it is not heard of: a larger age never makes
\* it fresher.
THEOREM AgeingIsMonotone ==
  ASSUME NEW a \in Nat, NEW b \in Nat, a <= b
  PROVE  /\ OfAge(b) = "live" => OfAge(a) = "live"
         /\ OfAge(a) = "stale" => OfAge(b) = "stale"
BY WindowsAssumption DEF OfAge

\* SweepBound's purpose, "the min is what makes it safe under a NARROW recent
\* band": a surface that evaluates again within B seconds never sees a device go
\* from live to stale without having been recent.
THEOREM NoWordIsSkipped ==
  ASSUME NEW a \in Nat, NEW b \in Nat, a <= b, b <= a + SweepBound, OfAge(a) = "live"
  PROVE  OfAge(b) # "stale"
<1>1. a <= LiveSeconds
  BY WindowsAssumption DEF OfAge
<1>2. SweepBound <= StaleSeconds - LiveSeconds
  BY WindowsAssumption DEF SweepBound
<1> QED
  BY <1>1, <1>2, WindowsAssumption DEF OfAge, SweepBound
-----------------------------------------------------------------------------
(* The stream's inductive invariant.                                       *)

Moment == Time \cup {Never}

Stamp == Stamps \cup {Never}

Fields == {"pc", "since", "cursor", "resuming", "swept", "degraded", "prev", "prevAt",
           "marker", "states", "at", "todo", "owed", "positioned"}

\* The rows belong to the family, are finitely old and arrived by `newest'.
RowsOK ==
  /\ now \in Time /\ written \in Nat /\ newest \in Moment /\ overtaken \in BOOLEAN
  /\ enrolled \subseteq Devices /\ fixes \subseteq Row /\ pendingTx \subseteq Row
  /\ \A f \in fixes \cup pendingTx : f.dev \in enrolled
  /\ \E n \in Nat : \A f \in fixes \cup pendingTx : f.ts <= n
  /\ \A f \in fixes : f.rcv <= newest

\* What one device's line of the query's answer looks like.
Reading(s) ==
  /\ s.ts \in Stamp /\ s.rcv \in Moment /\ s.contact \in Moment
  /\ s.ts = Never <=> s.rcv = Never
  /\ s.rcv = Never <=> s.contact = Never

InPoll == conn.pc \in {"position", "presentation"}

\* The connection's variables: the cursor is the page's last id, and what is
\* still to be written is no older than it.
ConnTypes ==
  /\ DOMAIN conn = Fields
  /\ conn.pc \in {"closed", "poll", "position", "presentation"}
  /\ conn.since \in Moment /\ conn.prevAt \in Moment /\ conn.at \in Moment
  /\ conn.resuming \in BOOLEAN /\ conn.swept \in BOOLEAN /\ conn.degraded \in BOOLEAN

SeenOK ==
  /\ DOMAIN conn.prev \subseteq enrolled /\ DOMAIN conn.marker = DOMAIN conn.prev
  /\ \A d \in DOMAIN conn.prev :
       conn.prev[d] \in Moment /\ (conn.prev[d] = Never <=> conn.marker[d] = Never)

ReadOK ==
  /\ DOMAIN conn.states \subseteq enrolled
  /\ conn.todo \subseteq DOMAIN conn.states
  /\ conn.owed \subseteq DOMAIN conn.states
  /\ conn.positioned \subseteq DOMAIN conn.states
  /\ \A d \in DOMAIN conn.states : Reading(conn.states[d]) /\ conn.states[d].rcv <= newest
  /\ \A d \in conn.todo \cup conn.positioned : conn.states[d].rcv # Never
  /\ conn.pc # "position" => conn.todo = {}
  /\ conn.pc # "presentation" => conn.owed = {}

CursorOK ==
  /\ conn.pc # "closed" => conn.since = page.lastId
  /\ conn.pc = "position" => \A d \in conn.todo : conn.states[d].rcv >= conn.since
  /\ conn.pc = "poll" /\ ~conn.swept /\ ~conn.resuming => conn.since = Never
  /\ conn.pc = "presentation" => conn.swept

\* A device with a word on the page is one the connection knows.
PageOK ==
  /\ page \in [state : [Devices -> Values \cup {"unknown"}], marker : [Devices -> Stamp],
               lastId : Moment]
  /\ page.lastId <= newest
  /\ \A d \in Devices : page.state[d] = "unknown" => page.marker[d] = Never
  /\ \A d \in Devices : page.state[d] # "unknown" =>
       /\ d \in enrolled
       /\ InPoll => d \in DOMAIN conn.states
       /\ Current => d \in DOMAIN conn.prev

Sound == RowsOK /\ ConnTypes /\ SeenOK /\ ReadOK /\ CursorOK /\ PageOK

\* While rows arrive in order no two have arrived at the same instant.
Distinct ==
  /\ \A f, g \in fixes : f.rcv = g.rcv => f = g
  /\ \A d, e \in DOMAIN conn.states :
       conn.states[d].rcv = conn.states[e].rcv /\ conn.states[d].rcv # Never => d = e

\* A position that had arrived by the page's last id is on the page.
Caught ==
  \A d \in Devices :
    DeviceState(d).rcv # Never /\ DeviceState(d).rcv <= page.lastId
      => page.marker[d] = DeviceState(d).ts

\* While a poll's answer is written, a device's position is still the one read,
\* or gone, or newer than everything the poll can write.
Newer(d) ==
  /\ DeviceState(d).rcv > page.lastId
  /\ \A e \in DOMAIN conn.states : DeviceState(d).rcv > conn.states[e].rcv

StillRead(d) ==
  /\ d \in DOMAIN conn.states
  /\ DeviceState(d).ts = conn.states[d].ts /\ DeviceState(d).rcv = conn.states[d].rcv

Following ==
  InPoll => \A d \in Devices : DeviceState(d).rcv = Never \/ StillRead(d) \/ Newer(d)

\* What is not to be written (any more) is on the page already, or has no position.
Placed ==
  InPoll => \A d \in DOMAIN conn.states \ conn.todo :
              conn.states[d].rcv # Never => page.marker[d] = conn.states[d].ts

Unplaced ==
  /\ conn.pc = "position" /\ conn.swept /\ ~conn.degraded =>
       \A d \in DOMAIN conn.states :
         conn.states[d].rcv = Never /\ (d \in DOMAIN conn.prev => conn.prev[d] = Never)
           => page.marker[d] = Never
  /\ conn.pc = "presentation" =>
       \A d \in DOMAIN conn.states \ conn.owed :
         conn.states[d].rcv = Never => page.marker[d] = Never

\* A device the last poll did not know has nothing the cursor would hide.
Newcomers ==
  Current => \A d \in Devices \ DOMAIN conn.prev :
               DeviceState(d).rcv = Never \/ DeviceState(d).rcv > conn.since

GapParts == Distinct /\ Caught /\ Following /\ Placed /\ Unplaced /\ Newcomers /\ NoGaps

Gapless == ~overtaken => GapParts

\* The words, step by step through a poll.
ReadWord(d) == Value(conn.at, conn.states[d].contact)

Unheard(d) == page.state[d] = "unknown" /\ (overtaken \/ conn.states[d].contact = Never)

PositionedWords ==
  InPoll => \A d \in conn.positioned : page.state[d] = ReadWord(d)

FirstWords ==
  conn.pc = "position" /\ ~conn.swept =>
    \A d \in DOMAIN conn.states \ (conn.positioned \cup conn.todo) :
      conn.states[d].contact = Never

LaterWords ==
  conn.pc = "position" /\ conn.swept /\ ~conn.degraded =>
    \A d \in DOMAIN conn.states \ conn.positioned :
      /\ d \in DOMAIN conn.prev => TrueWord(d)
      /\ d \notin DOMAIN conn.prev => d \in conn.todo \/ Unheard(d)

OwedWords ==
  conn.pc = "presentation" =>
    \A d \in DOMAIN conn.states \ conn.owed : page.state[d] = ReadWord(d) \/ Unheard(d)

Truthful ==
  /\ WordsAreTrue
  /\ ~conn.resuming => PositionedWords /\ FirstWords /\ LaterWords /\ OwedWords
-----------------------------------------------------------------------------
(* The operators.                                                          *)

\* A non-empty set of integers with an upper bound has a greatest element.
LEMMA MaxOfBounded ==
  ASSUME NEW s, s \subseteq Int, s # {}, NEW n \in Int, \A x \in s : x <= n
  PROVE  MaxOf(s) \in s /\ \A y \in s : y <= MaxOf(s)
<1> DEFINE less == {p \in Nat \X Nat : p[1] < p[2]}
           gaps == {n - x : x \in s}
<1>1. IsWellFoundedOn(less, Nat)
  <2>1. OpToRel(<, Nat) = less
    BY DEF OpToRel
  <2>2. QED
    BY <2>1, NatLessThanWellFounded
<1>2. gaps \subseteq Nat /\ gaps # {}
  <2>1. \A x \in s : x \in Int /\ n - x \in Nat
    OBVIOUS
  <2> QED
    BY <2>1
<1>3. PICK m \in gaps : \A k \in gaps : ~ (<<k, m>> \in less)
  <2> HIDE DEF less, gaps
  <2> QED BY <1>1, <1>2, WFMin
<1>4. PICK x \in s : m = n - x
  OBVIOUS
<1>5. \A y \in s : y <= x
  <2> TAKE y \in s
  <2>1. n - y \in Nat /\ m \in Nat /\ n - y \in gaps
    BY <1>2
  <2>2. n - y < m => <<n - y, m>> \in less
    BY <2>1
  <2>3. ~ (<<n - y, m>> \in less)
    BY <1>3, <2>1
  <2> QED
    BY <1>4, <2>1, <2>2, <2>3
<1> QED
  BY <1>5 DEF MaxOf

\* A device without a contact has the word "no-position", and only such a device.
LEMMA ValueOfNever ==
  ASSUME NEW at, NEW contact
  PROVE  /\ Value(at, contact) \in Values
         /\ Value(at, contact) = "no-position" <=> contact = Never
         /\ Value(at, contact) # "unknown"
BY DEF Value, Evaluate, OfAge, Values

\* What a row holds.
LEMMA RowFields ==
  ASSUME NEW f \in Row
  PROVE  /\ f.dev \in Devices /\ f.ts \in Stamps /\ f.rcv \in Time
         /\ f.ts \in Nat /\ f.rcv \in Nat /\ f.rcv <= MaxTime
<1>1. f.dev \in Devices /\ f.ts \in Stamps /\ f.rcv \in Time
  BY DEF Row
<1>2. f.ts \in Nat
  BY <1>1, LiveStreamAssumption
<1>3. f.rcv \in Nat /\ f.rcv <= MaxTime
  BY <1>1, LiveStreamAssumption DEF Time
<1> QED
  BY <1>1, <1>2, <1>3

\* FamilyDeviceStates' answer for one device, as a function of the rows.
StateOf(rows, d) ==
  LET own == {f \in rows : f.dev = d}
      ts == MaxOf({f.ts : f \in own})
  IN [ts |-> ts,
      rcv |-> MaxOf({f.rcv : f \in {g \in own : g.ts = ts}}),
      contact |-> MaxOf({f.rcv : f \in own})]

\* The query reads the committed rows, before a step and after it.
LEMMA StateIsOfRows ==
  ASSUME NEW d
  PROVE  DeviceState(d) = StateOf(fixes, d) /\ DeviceState(d)' = StateOf(fixes', d)
BY DEF DeviceState, StateOf

\* s is the answer for d: nothing, or the row newest by the device's clock, and of
\* several such rows the last that arrived.
AnswerFor(rows, d, s) ==
  /\ Reading(s)
  /\ s.rcv = Never <=> \A f \in rows : f.dev # d
  /\ s.rcv # Never =>
       /\ \E f \in rows : f.dev = d /\ f.ts = s.ts /\ f.rcv = s.rcv
       /\ \A f \in rows : f.dev = d => f.ts <= s.ts /\ (f.ts = s.ts => f.rcv <= s.rcv)

\* StateOf is such an answer, for every set of rows with a latest stamp.
LEMMA StateOfRows ==
  ASSUME NEW rows, rows \subseteq Row, NEW n \in Nat, \A f \in rows : f.ts <= n, NEW d
  PROVE  AnswerFor(rows, d, StateOf(rows, d))
<1> DEFINE own == {f \in rows : f.dev = d}
           stamps == {f.ts : f \in own}
           ts == MaxOf(stamps)
           top == {f \in own : f.ts = ts}
           tops == {f.rcv : f \in top}
           all == {f.rcv : f \in own}
<1>0. StateOf(rows, d) = [ts |-> ts, rcv |-> MaxOf(tops), contact |-> MaxOf(all)]
  BY DEF StateOf
<1>1. \A f \in own : f.ts \in Stamps /\ f.ts \in Int /\ f.rcv \in Time /\ f.rcv \in Int
  BY RowFields
<1>2. stamps \subseteq Stamps /\ stamps \subseteq Int /\ all \subseteq Time /\ all \subseteq Int
  BY <1>1
<1>3. CASE own = {}
  <2>1. stamps = {} /\ tops = {} /\ all = {}
    BY <1>3
  <2>2. ts = Never /\ MaxOf(tops) = Never /\ MaxOf(all) = Never
    BY <2>1 DEF MaxOf
  <2>3. \A f \in rows : f.dev # d
    BY <1>3
  <2> HIDE DEF ts, tops, all
  <2> QED
    BY <1>0, <2>2, <2>3 DEF AnswerFor, Reading, Stamp, Moment
<1>4. CASE own # {}
  <2>1. stamps # {} /\ all # {}
    BY <1>4
  <2>3. ts \in stamps /\ \A y \in stamps : y <= ts
    <3>1. \A x \in stamps : x <= n
      OBVIOUS
    <3>2. n \in Int
      OBVIOUS
    <3> HIDE DEF stamps
    <3> QED
      BY <1>2, <2>1, <3>1, <3>2, MaxOfBounded
  <2>4. tops # {} /\ tops \subseteq all
    BY <2>3
  <2>5. MaxTime \in Int /\ \A x \in all : x <= MaxTime
    BY <1>2, LiveStreamAssumption DEF Time
  <2>6. MaxOf(tops) \in tops /\ \A y \in tops : y <= MaxOf(tops)
    <3> HIDE DEF tops, all
    <3> QED
      BY <1>2, <2>4, <2>5, MaxOfBounded
  <2>7. MaxOf(all) \in all
    <3> HIDE DEF all
    <3> QED
      BY <1>2, <2>1, <2>5, MaxOfBounded
  <2>8. ts \in Stamps /\ MaxOf(tops) \in Time /\ MaxOf(all) \in Time
    BY <1>2, <2>3, <2>4, <2>6, <2>7
  <2>9. ts # Never /\ MaxOf(tops) # Never /\ MaxOf(all) # Never
    BY <2>8, LiveStreamAssumption DEF Time, Never
  <2>10. \E f \in own : f.ts = ts /\ f.rcv = MaxOf(tops)
    BY <2>6
  <2>11. \A f \in own : f.ts <= ts /\ (f.ts = ts => f.rcv <= MaxOf(tops))
    BY <2>3, <2>6
  <2> HIDE DEF ts, tops, all
  <2> QED
    BY <1>0, <1>4, <2>8, <2>9, <2>10, <2>11 DEF AnswerFor, Reading, Stamp, Moment
<1> QED
  BY <1>3, <1>4

\* What the query answers.
LEMMA Answers ==
  ASSUME RowsOK, NEW d
  PROVE  AnswerFor(fixes, d, DeviceState(d))
BY StateIsOfRows, StateOfRows DEF RowsOK

\* What it would answer after a step.
LEMMA AnswersAfter ==
  ASSUME RowsOK', NEW d
  PROVE  AnswerFor(fixes', d, DeviceState(d)')
BY StateIsOfRows, StateOfRows DEF RowsOK

\* Two answers that agree on the row agree.
LEMMA SameAnswer ==
  ASSUME NEW rows, NEW d, rows \subseteq Row, NEW s, NEW t,
         AnswerFor(rows, d, s), NEW more, more \subseteq Row, rows \subseteq more,
         AnswerFor(more, d, t), t.rcv # Never,
         \E f \in rows : f.dev = d /\ f.ts = t.ts /\ f.rcv = t.rcv
  PROVE  s.ts = t.ts /\ s.rcv = t.rcv
<1>1. PICK f \in rows : f.dev = d /\ f.ts = t.ts /\ f.rcv = t.rcv
  OBVIOUS
<1>2. s.rcv # Never
  BY <1>1 DEF AnswerFor
<1>3. PICK g \in rows : g.dev = d /\ g.ts = s.ts /\ g.rcv = s.rcv
  BY <1>2 DEF AnswerFor
<1>4. f.ts <= s.ts /\ (f.ts = s.ts => f.rcv <= s.rcv)
  BY <1>1, <1>2 DEF AnswerFor
<1>5. g.ts <= t.ts /\ (g.ts = t.ts => g.rcv <= t.rcv)
  BY <1>3 DEF AnswerFor
<1>6. f.ts \in Nat /\ g.ts \in Nat /\ f.rcv \in Nat /\ g.rcv \in Nat
  BY RowFields
<1> QED
  BY <1>1, <1>3, <1>4, <1>5, <1>6

\* A device none of whose rows changed is answered as before.
LEMMA SameRowsSameState ==
  ASSUME NEW d, {f \in fixes' : f.dev = d} = {f \in fixes : f.dev = d}
  PROVE  DeviceState(d)' = DeviceState(d)
BY DEF DeviceState

\* A commit leaves a device's position alone or makes the new row its position.
LEMMA CommitState ==
  ASSUME RowsOK, RowsOK', NEW f \in pendingTx, CommitFix(f), NEW d
  PROVE  \/ DeviceState(d)'.ts = DeviceState(d).ts /\ DeviceState(d)'.rcv = DeviceState(d).rcv
         \/ f.dev = d /\ DeviceState(d)'.rcv = f.rcv
<1>0. fixes' = fixes \cup {f}
  BY DEF CommitFix
<1>1. CASE f.dev # d
  BY <1>0, <1>1, SameRowsSameState
<1>2. CASE f.dev = d
  <2>1. AnswerFor(fixes', d, DeviceState(d)') /\ AnswerFor(fixes, d, DeviceState(d))
    BY Answers, AnswersAfter
  <2>2. DeviceState(d)'.rcv # Never
    BY <1>0, <1>2, <2>1 DEF AnswerFor
  <2>3. PICK g \in fixes' : g.dev = d /\ g.ts = DeviceState(d)'.ts /\ g.rcv = DeviceState(d)'.rcv
    BY <2>1, <2>2 DEF AnswerFor
  <2>4. CASE g = f
    BY <1>2, <2>3, <2>4
  <2>5. CASE g \in fixes
    BY <1>0, <2>1, <2>2, <2>3, <2>5, SameAnswer DEF RowsOK
  <2> QED
    BY <1>0, <2>3, <2>4, <2>5
<1> QED
  BY <1>1, <1>2

\* A purge leaves a device's position alone or leaves it without one.
LEMMA PurgeState ==
  ASSUME RowsOK, RowsOK', NEW t \in Stamps, Purge(t), NEW d
  PROVE  \/ DeviceState(d)'.ts = DeviceState(d).ts /\ DeviceState(d)'.rcv = DeviceState(d).rcv
         \/ DeviceState(d)'.rcv = Never
<1>0. fixes' = {f \in fixes : f.ts > t}
  BY DEF Purge
<1>1. AnswerFor(fixes', d, DeviceState(d)') /\ AnswerFor(fixes, d, DeviceState(d))
  BY Answers, AnswersAfter
<1>2. SUFFICES ASSUME DeviceState(d)'.rcv # Never
               PROVE  DeviceState(d)'.ts = DeviceState(d).ts /\ DeviceState(d)'.rcv = DeviceState(d).rcv
  OBVIOUS
<1>3. PICK g \in fixes' : g.dev = d
  BY <1>1, <1>2 DEF AnswerFor
<1>4. DeviceState(d).rcv # Never
  BY <1>0, <1>1, <1>3 DEF AnswerFor
<1>5. PICK f \in fixes : f.dev = d /\ f.ts = DeviceState(d).ts /\ f.rcv = DeviceState(d).rcv
  BY <1>1, <1>4 DEF AnswerFor
<1>6. g.ts <= f.ts /\ g.ts > t
  BY <1>0, <1>1, <1>3, <1>4, <1>5 DEF AnswerFor
<1>7. f \in Row /\ g \in Row /\ t \in Nat
  BY <1>0, LiveStreamAssumption DEF RowsOK
<1>8. f.ts \in Nat /\ g.ts \in Nat
  BY <1>7, RowFields
<1>9. f \in fixes'
  BY <1>0, <1>6, <1>7, <1>8
<1> QED
  BY <1>0, <1>1, <1>4, <1>5, <1>9, SameAnswer DEF RowsOK
-----------------------------------------------------------------------------
(* What each step of the connection does to its variables.                 *)

\* getStream opens a connection at the page's last id.
LEMMA ConnectFields ==
  ASSUME Connect
  PROVE  /\ DOMAIN conn' = Fields /\ conn'.pc = "poll" /\ conn'.since = page.lastId
         /\ conn'.resuming = (page.lastId # Never) /\ conn'.swept = FALSE
         /\ conn'.degraded = FALSE /\ conn'.prev = <<>> /\ conn'.prevAt = Never
         /\ conn'.marker = <<>> /\ conn'.states = <<>> /\ conn'.at = Never
         /\ conn'.todo = {} /\ conn'.owed = {} /\ conn'.positioned = {}
BY DEF Connect, parseResumeCursor, Closed, Fields

\* No connection.
LEMMA ClosedFields ==
  /\ DOMAIN Closed = Fields /\ Closed.pc = "closed" /\ Closed.since = Never
  /\ Closed.resuming = FALSE /\ Closed.swept = FALSE
  /\ Closed.degraded = FALSE /\ Closed.prev = <<>> /\ Closed.prevAt = Never
  /\ Closed.marker = <<>> /\ Closed.states = <<>> /\ Closed.at = Never
  /\ Closed.todo = {} /\ Closed.owed = {} /\ Closed.positioned = {}
BY DEF Closed, Fields

\* The poll reads the states and picks what arrived after the cursor.
LEMMA PollReadFields ==
  ASSUME ConnTypes, PollRead
  PROVE  /\ DOMAIN conn' = Fields /\ conn'.pc = "position" /\ conn'.at = now
         /\ conn'.states = [d \in enrolled |-> DeviceState(d)]
         /\ conn'.todo = {d \in enrolled : DeviceState(d).rcv > conn.since}
         /\ conn'.positioned = {}
         /\ conn'.since = conn.since /\ conn'.resuming = conn.resuming
         /\ conn'.swept = conn.swept /\ conn'.degraded = conn.degraded
         /\ conn'.prev = conn.prev /\ conn'.prevAt = conn.prevAt
         /\ conn'.marker = conn.marker /\ conn'.owed = conn.owed
BY DEF ConnTypes, Fields, PollRead

\* A failed query leaves the cursor and what was seen, and nothing of the poll.
LEMMA UnavailableFields ==
  ASSUME ConnTypes, PollFailed \/ SweepFailed
  PROVE  /\ DOMAIN conn' = Fields /\ conn'.pc = "poll" /\ conn'.degraded = TRUE
         /\ conn'.states = <<>> /\ conn'.todo = {} /\ conn'.positioned = {}
         /\ conn'.at = Never
         /\ conn'.since = conn.since /\ conn'.resuming = conn.resuming
         /\ conn'.swept = conn.swept /\ conn'.prev = conn.prev /\ conn'.prevAt = conn.prevAt
         /\ conn'.marker = conn.marker /\ conn'.owed = conn.owed
BY DEF ConnTypes, Fields, PollFailed, SweepFailed, Unavailable

\* The sweep decides what is owed.
LEMMA SweepFields ==
  ASSUME ConnTypes, Sweep
  PROVE  /\ DOMAIN conn' = Fields /\ conn'.pc = "presentation" /\ conn'.degraded = FALSE
         /\ conn'.swept = TRUE /\ conn'.owed = Owed
         /\ conn'.since = conn.since /\ conn'.resuming = conn.resuming
         /\ conn'.prev = conn.prev /\ conn'.prevAt = conn.prevAt
         /\ conn'.marker = conn.marker /\ conn'.states = conn.states /\ conn'.at = conn.at
         /\ conn'.todo = conn.todo /\ conn'.positioned = conn.positioned
BY DEF ConnTypes, Fields, Sweep

\* What was read becomes what was seen.
LEMMA PollDoneFields ==
  ASSUME ConnTypes, PollDone
  PROVE  /\ DOMAIN conn' = Fields /\ conn'.pc = "poll"
         /\ conn'.prev = [d \in DOMAIN conn.states |-> conn.states[d].contact]
         /\ conn'.marker = [d \in DOMAIN conn.states |-> conn.states[d].ts]
         /\ conn'.prevAt = conn.at /\ conn'.states = <<>> /\ conn'.positioned = {}
         /\ conn'.at = Never
         /\ conn'.since = conn.since /\ conn'.resuming = conn.resuming
         /\ conn'.swept = conn.swept /\ conn'.degraded = conn.degraded
         /\ conn'.todo = conn.todo /\ conn'.owed = conn.owed
BY DEF ConnTypes, Fields, PollDone

\* A position event moves the cursor and puts the device on the page.
LEMMA WritePositionFields ==
  ASSUME ConnTypes, PageOK, NEW d \in Devices, WritePosition(d)
  PROVE  /\ DOMAIN conn' = Fields /\ conn'.since = conn.states[d].rcv
         /\ conn'.todo = conn.todo \ {d} /\ conn'.positioned = conn.positioned \cup {d}
         /\ conn'.pc = conn.pc /\ conn'.resuming = conn.resuming
         /\ conn'.swept = conn.swept /\ conn'.degraded = conn.degraded
         /\ conn'.prev = conn.prev /\ conn'.prevAt = conn.prevAt
         /\ conn'.marker = conn.marker /\ conn'.states = conn.states /\ conn'.at = conn.at
         /\ conn'.owed = conn.owed
         /\ page' = [state |-> [page.state EXCEPT ![d] = ReadWord(d)],
                     marker |-> [page.marker EXCEPT ![d] = conn.states[d].ts],
                     lastId |-> conn.states[d].rcv]
BY DEF ConnTypes, Fields, WritePosition, OnPosition, ReadWord

\* A presentation event changes the device's word and leaves the cursor alone.
LEMMA WritePresentationFields ==
  ASSUME ConnTypes, PageOK, NEW d \in Devices, WritePresentation(d)
  PROVE  /\ DOMAIN conn' = Fields
         /\ conn'.owed = conn.owed \ {d} /\ conn'.since = conn.since
         /\ conn'.todo = conn.todo /\ conn'.positioned = conn.positioned
         /\ conn'.pc = conn.pc /\ conn'.resuming = conn.resuming
         /\ conn'.swept = conn.swept /\ conn'.degraded = conn.degraded
         /\ conn'.prev = conn.prev /\ conn'.prevAt = conn.prevAt
         /\ conn'.marker = conn.marker /\ conn'.states = conn.states /\ conn'.at = conn.at
         /\ page' = [state |-> [page.state EXCEPT ![d] = ReadWord(d)],
                     marker |-> [page.marker EXCEPT ![d] =
                        IF ReadWord(d) = "no-position" THEN Never ELSE page.marker[d]],
                     lastId |-> page.lastId]
BY DEF ConnTypes, Fields, WritePresentation, OnPresentation, ReadWord, PageOK
-----------------------------------------------------------------------------
(* Everybody's steps keep the stream sound.                                *)

\* The empty function.
LEMMA EmptyDomain == DOMAIN <<>> = {}
OBVIOUS

\* The initial states are sound.
LEMMA InitSound == Init => Sound
<1> SUFFICES ASSUME Init PROVE Sound
  OBVIOUS
<1>1. RowsOK
  <2>1. \A f \in fixes \cup pendingTx : f.ts <= 0
    BY DEF Init
  <2>2. now \in Time /\ written \in Nat /\ newest \in Moment
    BY LiveStreamAssumption DEF Init, Time, Moment
  <2> QED
    BY <2>1, <2>2 DEF Init, RowsOK
<1>2. ConnTypes /\ SeenOK /\ ReadOK /\ CursorOK
  BY ClosedFields, EmptyDomain DEF Init, ConnTypes, SeenOK, ReadOK, CursorOK, Moment
<1>3. PageOK
  <2>1. page \in [state : [Devices -> Values \cup {"unknown"}], marker : [Devices -> Stamp],
                  lastId : Moment]
    BY DEF Init, BlankPage, Moment, Stamp
  <2>2. page.lastId <= newest
    BY DEF Init, BlankPage, Never
  <2>3. \A d \in Devices : page.state[d] = "unknown" /\ page.marker[d] = Never
    BY DEF Init, BlankPage
  <2> QED
    BY <2>1, <2>2, <2>3 DEF PageOK
<1> QED
  BY <1>1, <1>2, <1>3 DEF Sound

\* The rows: every step.
LEMMA NextRows == Sound /\ [Next]_vars => RowsOK'
<1> SUFFICES ASSUME Sound, [Next]_vars PROVE RowsOK'
  OBVIOUS
<1> USE DEF Sound
<1>1. ASSUME UNCHANGED <<database, now>> PROVE RowsOK'
  BY <1>1 DEF RowsOK, database, arrival
<1>2. CASE Tick
  BY <1>2, LiveStreamAssumption DEF Tick, RowsOK, database, arrival, Time
<1>3. ASSUME NEW d \in Devices, Enrol(d) PROVE RowsOK'
  BY <1>3 DEF Enrol, RowsOK, arrival
<1>4. ASSUME NEW d \in Devices, NEW t \in Stamps, BeginFix(d, t) PROVE RowsOK'
  <2> DEFINE r == [dev |-> d, ts |-> t, rcv |-> now]
  <2>1. r \in Row /\ t \in Nat /\ r.dev = d /\ r.ts = t
    BY LiveStreamAssumption DEF Row, RowsOK
  <2>2. /\ pendingTx' = pendingTx \cup {r} /\ d \in enrolled /\ written' = written + 1
        /\ UNCHANGED <<now, fixes, newest, overtaken, enrolled>>
    BY <1>4 DEF BeginFix, arrival
  <2>3. PICK n \in Nat : \A f \in fixes \cup pendingTx : f.ts <= n
    BY DEF RowsOK
  <2>4. \A f \in fixes \cup pendingTx : f.ts \in Nat
    BY RowFields DEF RowsOK
  <2>5. \E m \in Nat : \A f \in fixes' \cup pendingTx' : f.ts <= m
    <3>1. CASE t <= n
      BY <2>1, <2>2, <2>3, <3>1
    <3>2. CASE t > n
      <4>1. \A f \in fixes \cup pendingTx : f.ts <= t
        BY <2>1, <2>3, <2>4, <3>2
      <4> QED
        BY <2>1, <2>2, <4>1
    <3> QED
      BY <2>1, <3>1, <3>2
  <2> HIDE DEF r
  <2> QED
    BY <2>1, <2>2, <2>5 DEF RowsOK
<1>5. ASSUME NEW f \in pendingTx, CommitFix(f) PROVE RowsOK'
  <2>1. /\ fixes' = fixes \cup {f} /\ pendingTx' = pendingTx \ {f}
        /\ newest' = MaxOf({newest, f.rcv}) /\ overtaken' \in BOOLEAN
        /\ UNCHANGED <<now, written, enrolled>>
    BY <1>5 DEF CommitFix, RowsOK
  <2>2. newest \in Moment /\ f.rcv \in Time /\ newest \in Int /\ f.rcv \in Int
    BY RowFields, LiveStreamAssumption DEF RowsOK, Moment, Time, Never
  <2>3. newest' \in {newest, f.rcv} /\ newest <= newest' /\ f.rcv <= newest'
    <3> DEFINE s == {newest, f.rcv}
               n == IF newest <= f.rcv THEN f.rcv ELSE newest
    <3>1. s \subseteq Int /\ s # {} /\ n \in Int /\ \A x \in s : x <= n
      BY <2>2
    <3>2. MaxOf(s) \in s /\ \A y \in s : y <= MaxOf(s)
      <4> HIDE DEF s, n
      <4> QED
        BY <3>1, MaxOfBounded
    <3> QED
      BY <2>1, <3>2
  <2>4. \A g \in fixes : g.rcv <= newest /\ g.rcv \in Int
    BY RowFields DEF RowsOK
  <2>5. \A g \in fixes' : g.rcv <= newest'
    BY <2>1, <2>2, <2>3, <2>4
  <2>6. newest' \in Moment
    BY <2>2, <2>3 DEF Moment
  <2> QED
    BY <2>1, <2>5, <2>6 DEF RowsOK
<1>6. ASSUME NEW t \in Stamps, Purge(t) PROVE RowsOK'
  BY <1>6 DEF Purge, RowsOK, arrival
<1>7. CASE Connect \/ Disconnect \/ Reload \/ Poll
  BY <1>1, <1>7
  DEF Connect, Disconnect, Reload, Poll, PollRead, PollFailed, Sweep, SweepFailed, PollDone,
      WritePosition, WritePresentation
<1>8. CASE UNCHANGED vars
  BY <1>1, <1>8 DEF vars, database, arrival
<1> QED
  BY <1>2, <1>3, <1>4, <1>5, <1>6, <1>7, <1>8 DEF Next

\* What every step of the database's other users keeps.
LEMMA DatabaseGrows ==
  ASSUME Sound, [Next]_vars
  PROVE  enrolled \subseteq enrolled' /\ newest <= newest' /\ newest \in Int /\ newest' \in Int
<1>0. newest \in Int /\ newest' \in Int
  BY NextRows, LiveStreamAssumption DEF Sound, RowsOK, Moment, Time, Never
<1>1. ASSUME newest' = newest, enrolled \subseteq enrolled'
      PROVE  enrolled \subseteq enrolled' /\ newest <= newest'
  BY <1>0, <1>1
<1>2. ASSUME NEW f \in pendingTx, CommitFix(f)
      PROVE  enrolled \subseteq enrolled' /\ newest <= newest'
  <2>1. f.rcv \in Int
    BY RowFields DEF Sound, RowsOK
  <2> DEFINE s == {newest, f.rcv}
             n == IF newest <= f.rcv THEN f.rcv ELSE newest
  <2>2. s \subseteq Int /\ s # {} /\ n \in Int /\ \A x \in s : x <= n
    BY <1>0, <2>1
  <2>3. newest <= MaxOf(s)
    <3>1. MaxOf(s) \in s /\ \A y \in s : y <= MaxOf(s)
      <4> HIDE DEF s, n
      <4> QED
        BY <2>2, MaxOfBounded
    <3> QED
      BY <3>1
  <2> QED
    BY <1>2, <2>3 DEF CommitFix
<1>3. CASE Connect \/ Disconnect \/ Reload \/ Poll \/ Tick
  BY <1>0, <1>1, <1>3
  DEF Connect, Disconnect, Reload, Poll, PollRead, PollFailed, Sweep, SweepFailed, PollDone,
      WritePosition, WritePresentation, Tick, database, arrival
<1>4. CASE \E d \in Devices : Enrol(d) \/ \E t \in Stamps : BeginFix(d, t)
  BY <1>0, <1>1, <1>4 DEF Enrol, BeginFix, arrival
<1>5. CASE \E t \in Stamps : Purge(t)
  BY <1>0, <1>1, <1>5 DEF Purge, arrival
<1>6. CASE UNCHANGED vars
  BY <1>0, <1>1, <1>6 DEF vars
<1> QED
  BY <1>0, <1>2, <1>3, <1>4, <1>5, <1>6 DEF Next

\* Moments and stamps are integers.
LEMMA MomentsAreInts ==
  /\ Moment \subseteq Int /\ Never \in Moment /\ Never \in Stamp
  /\ \A m \in Moment : Never <= m /\ (m # Never => m > Never /\ ~(m <= Never))
BY LiveStreamAssumption DEF Moment, Stamp, Time, Never

\* A step of the database's other users.
LEMMA OthersSound ==
  ASSUME Sound, [Next]_vars, UNCHANGED <<conn, page>>
  PROVE  ConnTypes' /\ SeenOK' /\ ReadOK' /\ CursorOK' /\ PageOK'
<1>0. enrolled \subseteq enrolled' /\ newest <= newest' /\ newest \in Int /\ newest' \in Int
  BY DatabaseGrows
<1>1. ConnTypes' /\ CursorOK'
  BY DEF Sound, ConnTypes, CursorOK
<1>2. SeenOK'
  BY <1>0 DEF Sound, SeenOK
<1>3. ReadOK'
  <2>1. \A d \in DOMAIN conn.states :
          conn.states[d].rcv \in Int /\ conn.states[d].rcv <= newest
    BY MomentsAreInts DEF Sound, ReadOK, Reading
  <2>2. \A d \in DOMAIN conn.states : conn.states[d].rcv <= newest'
    BY <1>0, <2>1
  <2>3. \A d \in DOMAIN conn.states : Reading(conn.states[d])
    BY DEF Sound, ReadOK
  <2> QED
    BY <1>0, <2>2, <2>3 DEF Sound, ReadOK, Reading
<1>4. PageOK'
  <2>1. page.lastId \in Int /\ page.lastId <= newest
    BY MomentsAreInts DEF Sound, PageOK
  <2> QED
    BY <1>0, <2>1 DEF Sound, PageOK, InPoll, Current
<1> QED
  BY <1>1, <1>2, <1>3, <1>4

\* The page connects.
LEMMA ConnectSound ==
  ASSUME Sound, Connect
  PROVE  ConnTypes' /\ SeenOK' /\ ReadOK' /\ CursorOK' /\ PageOK'
<1>0. UNCHANGED <<enrolled, newest, page>>
  BY DEF Connect, database, arrival
<1>1. page.lastId \in Moment
  BY DEF Sound, PageOK
<1>2. ConnTypes'
  BY <1>1, ConnectFields, MomentsAreInts DEF ConnTypes
<1>3. SeenOK' /\ ReadOK'
  BY ConnectFields, EmptyDomain DEF SeenOK, ReadOK
<1>4. CursorOK'
  BY <1>0, ConnectFields DEF CursorOK
<1>5. PageOK'
  BY <1>0, ConnectFields DEF Sound, PageOK, InPoll, Current
<1> QED
  BY <1>2, <1>3, <1>4, <1>5

\* The connection drops, or the page is loaded anew.
LEMMA DisconnectSound ==
  ASSUME Sound, Disconnect \/ Reload
  PROVE  ConnTypes' /\ SeenOK' /\ ReadOK' /\ CursorOK' /\ PageOK'
<1>1. CASE Disconnect
  <2>0. conn' = Closed /\ UNCHANGED <<enrolled, newest, page>>
    BY <1>1 DEF Disconnect, database, arrival
  <2>1. ConnTypes'
    BY <2>0, ClosedFields, MomentsAreInts DEF ConnTypes
  <2>2. SeenOK' /\ ReadOK'
    BY <2>0, ClosedFields, EmptyDomain DEF SeenOK, ReadOK
  <2>3. CursorOK'
    BY <2>0, ClosedFields DEF CursorOK
  <2>4. PageOK'
    BY <2>0, ClosedFields DEF Sound, PageOK, InPoll, Current
  <2> QED
    BY <2>1, <2>2, <2>3, <2>4
<1>2. CASE Reload
  <2>0. page' = BlankPage /\ conn.pc = "closed" /\ UNCHANGED <<enrolled, newest, conn>>
    BY <1>2 DEF Reload, database, arrival
  <2>1. ConnTypes' /\ SeenOK' /\ ReadOK' /\ CursorOK'
    BY <2>0 DEF Sound, ConnTypes, SeenOK, ReadOK, CursorOK, Reading
  <2>2. BlankPage \in [state : [Devices -> Values \cup {"unknown"}],
                       marker : [Devices -> Stamp], lastId : Moment]
    BY MomentsAreInts DEF BlankPage
  <2>3. BlankPage.lastId <= newest
    BY MomentsAreInts DEF Sound, RowsOK, BlankPage
  <2>4. \A d \in Devices : BlankPage.state[d] = "unknown" /\ BlankPage.marker[d] = Never
    BY DEF BlankPage
  <2> QED
    BY <2>0, <2>1, <2>2, <2>3, <2>4 DEF PageOK
<1> QED
  BY <1>1, <1>2

\* The poll's query.
LEMMA PollReadSound ==
  ASSUME Sound, PollRead
  PROVE  ConnTypes' /\ SeenOK' /\ ReadOK' /\ CursorOK' /\ PageOK'
<1>0. conn.pc = "poll" /\ UNCHANGED <<enrolled, newest, page>>
  BY DEF PollRead, database, arrival
<1>1. ConnTypes /\ ConnTypes'
  BY PollReadFields DEF Sound, ConnTypes, RowsOK, Moment
<1>2. SeenOK'
  BY <1>0, <1>1, PollReadFields DEF Sound, SeenOK
<1>3. ReadOK'
  <2>1. \A d \in enrolled : Reading(DeviceState(d)) /\ DeviceState(d).rcv <= newest
    <3> TAKE d \in enrolled
    <3>1. AnswerFor(fixes, d, DeviceState(d))
      BY Answers DEF Sound
    <3>2. CASE DeviceState(d).rcv = Never
      BY <3>1, <3>2, MomentsAreInts DEF AnswerFor, Sound, RowsOK
    <3>3. CASE DeviceState(d).rcv # Never
      BY <3>1, <3>3 DEF AnswerFor, Sound, RowsOK
    <3> QED
      BY <3>2, <3>3
  <2>2. /\ DOMAIN conn'.states = enrolled
        /\ \A d \in enrolled : conn'.states[d] = DeviceState(d)
    BY <1>1, PollReadFields
  <2>3. conn.since \in Moment /\ \A d \in enrolled : DeviceState(d).rcv \in Moment
    BY <1>1, <2>1 DEF ConnTypes, Reading
  <2>4. \A d \in conn'.todo : conn'.states[d].rcv # Never
    <3> SUFFICES ASSUME NEW d \in enrolled, DeviceState(d).rcv > conn.since
                 PROVE  DeviceState(d).rcv # Never
      BY <1>1, <2>2, PollReadFields
    <3>1. conn.since \in Int /\ Never \in Int /\ Never <= conn.since
      BY <2>3, MomentsAreInts
    <3> QED
      BY <3>1
  <2>5. conn'.todo \subseteq enrolled /\ conn'.positioned = {} /\ conn'.owed = {}
    BY <1>0, <1>1, PollReadFields DEF Sound, ReadOK
  <2>6. \A d \in DOMAIN conn'.states : Reading(conn'.states[d]) /\ conn'.states[d].rcv <= newest'
    BY <1>0, <2>1, <2>2
  <2>7. conn'.pc = "position"
    BY <1>1, PollReadFields
  <2> QED
    BY <1>0, <2>2, <2>4, <2>5, <2>6, <2>7 DEF ReadOK, Reading
<1>4. CursorOK'
  <2>1. conn.since \in Int /\ \A d \in enrolled : DeviceState(d).rcv \in Int
    BY <1>1, Answers, MomentsAreInts DEF ConnTypes, AnswerFor, Reading, Sound
  <2>2. \A d \in conn'.todo : conn'.states[d].rcv >= conn'.since
    BY <1>1, <2>1, PollReadFields
  <2> QED
    BY <1>0, <1>1, <2>2, PollReadFields DEF Sound, CursorOK
<1>5. PageOK'
  BY <1>0, <1>1, PollReadFields DEF Sound, PageOK, InPoll, Current
<1> QED
  BY <1>1, <1>2, <1>3, <1>4, <1>5

\* A query that fails.
LEMMA UnavailableSound ==
  ASSUME Sound, PollFailed \/ SweepFailed
  PROVE  ConnTypes' /\ SeenOK' /\ ReadOK' /\ CursorOK' /\ PageOK'
<1>0. /\ conn.pc \in {"poll", "position"} /\ UNCHANGED <<enrolled, newest, page>>
      /\ conn.pc = "poll" \/ conn.resuming
  BY DEF PollFailed, SweepFailed, database, arrival
<1>1. ConnTypes /\ ConnTypes'
  BY UnavailableFields, MomentsAreInts DEF Sound, ConnTypes
<1>2. SeenOK'
  BY <1>0, <1>1, UnavailableFields DEF Sound, SeenOK
<1>3. ReadOK'
  BY <1>0, <1>1, UnavailableFields, EmptyDomain DEF Sound, ReadOK
<1>4. CursorOK'
  BY <1>0, <1>1, UnavailableFields DEF Sound, CursorOK
<1>5. PageOK'
  BY <1>0, <1>1, UnavailableFields DEF Sound, PageOK, InPoll, Current
<1> QED
  BY <1>1, <1>2, <1>3, <1>4, <1>5

\* The sweep.
LEMMA SweepSound ==
  ASSUME Sound, Sweep
  PROVE  ConnTypes' /\ SeenOK' /\ ReadOK' /\ CursorOK' /\ PageOK'
<1>0. conn.pc = "position" /\ conn.todo = {} /\ UNCHANGED <<enrolled, newest, page>>
  BY DEF Sweep, database, arrival
<1>1. ConnTypes /\ ConnTypes'
  BY SweepFields DEF Sound, ConnTypes
<1>2. SeenOK'
  BY <1>0, <1>1, SweepFields DEF Sound, SeenOK
<1>3. ReadOK'
  BY <1>0, <1>1, SweepFields DEF Sound, ReadOK, Owed, Reading
<1>4. CursorOK'
  BY <1>0, <1>1, SweepFields DEF Sound, CursorOK
<1>5. PageOK'
  BY <1>0, <1>1, SweepFields DEF Sound, PageOK, InPoll, Current
<1> QED
  BY <1>1, <1>2, <1>3, <1>4, <1>5

\* The poll ends.
LEMMA PollDoneSound ==
  ASSUME Sound, PollDone
  PROVE  ConnTypes' /\ SeenOK' /\ ReadOK' /\ CursorOK' /\ PageOK'
<1>0. conn.pc = "presentation" /\ conn.owed = {} /\ UNCHANGED <<enrolled, newest, page>>
  BY DEF PollDone, database, arrival
<1>1. ConnTypes /\ ConnTypes'
  BY PollDoneFields, MomentsAreInts DEF Sound, ConnTypes
<1>2. SeenOK'
  <2>1. \A d \in DOMAIN conn.states : Reading(conn.states[d])
    BY DEF Sound, ReadOK
  <2> QED
    BY <1>0, <1>1, <2>1, PollDoneFields DEF Sound, SeenOK, ReadOK, Reading
<1>3. ReadOK'
  BY <1>0, <1>1, PollDoneFields, EmptyDomain DEF Sound, ReadOK
<1>4. CursorOK'
  BY <1>0, <1>1, PollDoneFields DEF Sound, CursorOK
<1>5. PageOK'
  BY <1>0, <1>1, PollDoneFields DEF Sound, PageOK, InPoll, Current
<1> QED
  BY <1>1, <1>2, <1>3, <1>4, <1>5

\* A position event.
LEMMA WritePositionSound ==
  ASSUME Sound, NEW d \in Devices, WritePosition(d)
  PROVE  ConnTypes' /\ SeenOK' /\ ReadOK' /\ CursorOK' /\ PageOK'
<1>0. /\ conn.pc = "position" /\ UNCHANGED <<enrolled, newest>>
      /\ d \in conn.todo /\ \A e \in conn.todo : conn.states[d].rcv <= conn.states[e].rcv
  BY DEF WritePosition, sortByArrival, database, arrival
<1>1. d \in DOMAIN conn.states /\ Reading(conn.states[d]) /\ conn.states[d].rcv # Never
      /\ conn.states[d].rcv <= newest
  BY <1>0 DEF Sound, ReadOK
<1>2. ConnTypes /\ PageOK
  BY DEF Sound
<1>3. ConnTypes'
  BY <1>1, <1>2, WritePositionFields DEF ConnTypes, Reading
<1>4. SeenOK'
  BY <1>0, <1>2, WritePositionFields DEF Sound, SeenOK
<1>5. ReadOK'
  BY <1>0, <1>1, <1>2, WritePositionFields DEF Sound, ReadOK, Reading
<1>6. CursorOK'
  <2>1. \A e \in conn.todo : conn.states[e].rcv \in Int
    BY MomentsAreInts DEF Sound, ReadOK, Reading
  <2>2. conn'.since = conn.states[d].rcv /\ page'.lastId = conn.states[d].rcv
        /\ conn'.pc = "position" /\ conn'.todo \subseteq conn.todo /\ conn'.states = conn.states
    BY <1>0, <1>2, WritePositionFields
  <2>3. \A e \in conn'.todo : conn'.states[e].rcv >= conn'.since
    BY <1>0, <2>1, <2>2
  <2> QED
    BY <2>2, <2>3 DEF CursorOK
<1>7. PageOK'
  <2>1. ReadWord(d) \in Values /\ ReadWord(d) # "unknown"
    BY ValueOfNever DEF ReadWord
  <2>2. conn.states[d].ts \in Stamp /\ conn.states[d].rcv \in Moment
    BY <1>1 DEF Reading
  <2>3. page.state \in [Devices -> Values \cup {"unknown"}] /\ page.marker \in [Devices -> Stamp]
    BY DEF Sound, PageOK
  <2>4. /\ page'.state = [page.state EXCEPT ![d] = ReadWord(d)]
        /\ page'.marker = [page.marker EXCEPT ![d] = conn.states[d].ts]
        /\ page'.lastId = conn.states[d].rcv
    BY <1>2, WritePositionFields
  <2>5. page' \in [state : [Devices -> Values \cup {"unknown"}], marker : [Devices -> Stamp],
                   lastId : Moment]
    BY <1>2, <2>1, <2>2, <2>3, WritePositionFields
  <2>6. \A e \in Devices : page'.state[e] = "unknown" => page'.marker[e] = Never
    BY <1>2, <2>1, <2>3, <2>4 DEF PageOK
  <2>7. \A e \in Devices : page'.state[e] # "unknown" =>
          e \in enrolled /\ e \in DOMAIN conn.states
    BY <1>0, <1>1, <2>3, <2>4 DEF Sound, PageOK, ReadOK, InPoll
  <2>8. conn'.pc = "position" /\ conn'.states = conn.states
    BY <1>0, <1>2, WritePositionFields
  <2> QED
    BY <1>0, <1>1, <2>4, <2>5, <2>6, <2>7, <2>8 DEF PageOK, InPoll, Current
<1> QED
  BY <1>3, <1>4, <1>5, <1>6, <1>7

\* A presentation event.
LEMMA WritePresentationSound ==
  ASSUME Sound, NEW d \in Devices, WritePresentation(d)
  PROVE  ConnTypes' /\ SeenOK' /\ ReadOK' /\ CursorOK' /\ PageOK'
<1>0. conn.pc = "presentation" /\ UNCHANGED <<enrolled, newest>> /\ d \in conn.owed
  BY DEF WritePresentation, database, arrival
<1>1. d \in DOMAIN conn.states /\ Reading(conn.states[d])
  BY <1>0 DEF Sound, ReadOK
<1>2. ConnTypes /\ PageOK
  BY DEF Sound
<1>3. ConnTypes'
  BY <1>1, <1>2, WritePresentationFields DEF ConnTypes
<1>4. SeenOK'
  BY <1>0, <1>2, WritePresentationFields DEF Sound, SeenOK
<1>5. ReadOK'
  BY <1>0, <1>1, <1>2, WritePresentationFields DEF Sound, ReadOK, Reading
<1>6. CursorOK'
  BY <1>0, <1>2, WritePresentationFields DEF Sound, CursorOK
<1>7. PageOK'
  <2>1. ReadWord(d) \in Values /\ ReadWord(d) # "unknown"
    BY ValueOfNever DEF ReadWord
  <2>3. /\ page.state \in [Devices -> Values \cup {"unknown"}]
        /\ page.marker \in [Devices -> Stamp] /\ page.lastId \in Moment
    BY DEF Sound, PageOK
  <2> DEFINE m == IF ReadWord(d) = "no-position" THEN Never ELSE page.marker[d]
  <2>4. /\ page'.state = [page.state EXCEPT ![d] = ReadWord(d)]
        /\ page'.marker = [page.marker EXCEPT ![d] = m]
        /\ page'.lastId = page.lastId
    BY <1>2, WritePresentationFields
  <2>5. m \in Stamp
    BY <2>3, MomentsAreInts
  <2>6. page' \in [state : [Devices -> Values \cup {"unknown"}], marker : [Devices -> Stamp],
                   lastId : Moment]
    BY <1>2, <2>1, <2>3, <2>5, WritePresentationFields
  <2>7. \A e \in Devices : page'.state[e] = "unknown" => page'.marker[e] = Never
    BY <1>2, <2>1, <2>3, <2>4 DEF PageOK
  <2>8. \A e \in Devices : page'.state[e] # "unknown" =>
          e \in enrolled /\ e \in DOMAIN conn.states
    BY <1>0, <1>1, <2>3, <2>4 DEF Sound, PageOK, ReadOK, InPoll
  <2>9. conn'.pc = "presentation" /\ conn'.states = conn.states
    BY <1>0, <1>2, WritePresentationFields
  <2> QED
    BY <1>0, <1>2, <2>4, <2>6, <2>7, <2>8, <2>9 DEF PageOK, InPoll, Current
<1> QED
  BY <1>3, <1>4, <1>5, <1>6, <1>7

\* Every step.
LEMMA NextSound == Sound /\ [Next]_vars => Sound'
<1> SUFFICES ASSUME Sound, [Next]_vars PROVE Sound'
  OBVIOUS
<1>0. RowsOK'
  BY NextRows
<1> SUFFICES ConnTypes' /\ SeenOK' /\ ReadOK' /\ CursorOK' /\ PageOK'
  BY <1>0 DEF Sound
<1>1. CASE Tick
  BY <1>1, OthersSound DEF Tick
<1>2. CASE \E d \in Devices : Enrol(d) \/ \E t \in Stamps : BeginFix(d, t)
  BY <1>2, OthersSound DEF Enrol, BeginFix
<1>3. CASE \E f \in pendingTx : CommitFix(f)
  BY <1>3, OthersSound DEF CommitFix
<1>4. CASE \E t \in Stamps : Purge(t)
  BY <1>4, OthersSound DEF Purge
<1>5. CASE UNCHANGED vars
  BY <1>5, OthersSound DEF vars
<1>6. CASE Connect \/ Disconnect \/ Reload \/ Poll
  BY <1>6, ConnectSound, DisconnectSound, PollReadSound, UnavailableSound, SweepSound,
     PollDoneSound, WritePositionSound, WritePresentationSound DEF Poll
<1> QED
  BY <1>1, <1>2, <1>3, <1>4, <1>5, <1>6 DEF Next
-----------------------------------------------------------------------------
\* The ids a page sees never go back: the events of a poll are written in order of
\* arrival, and no poll writes what arrived before the page's last id.
THEOREM IdsNeverGoBack == Spec => IdsMonotone
<1>1. ASSUME Sound, [Next]_vars
      PROVE  [page'.lastId >= page.lastId \/ page' = BlankPage]_vars
  <2>0. page.lastId \in Int
    BY <1>1, MomentsAreInts DEF Sound, PageOK
  <2>1. CASE UNCHANGED page
    BY <2>0, <2>1
  <2>2. CASE Reload
    BY <2>2 DEF Reload
  <2>3. ASSUME NEW d \in Devices, WritePosition(d) PROVE page'.lastId >= page.lastId
    <3>1. conn.states[d].rcv >= conn.since /\ conn.since = page.lastId
      BY <1>1, <2>3 DEF WritePosition, sortByArrival, Sound, CursorOK
    <3> QED
      BY <1>1, <2>3, <3>1, WritePositionFields DEF Sound
  <2>4. ASSUME NEW d \in Devices, WritePresentation(d) PROVE page'.lastId >= page.lastId
    BY <1>1, <2>0, <2>4, WritePresentationFields DEF Sound
  <2>5. UNCHANGED page \/ Reload
        \/ (\E d \in Devices : WritePosition(d) \/ WritePresentation(d))
    BY <1>1
    DEF Next, vars, Poll, Tick, Enrol, BeginFix, CommitFix, Purge, Connect, Disconnect,
        PollRead, PollFailed, Sweep, SweepFailed, PollDone
  <2> QED
    BY <2>1, <2>2, <2>3, <2>4, <2>5
<1> QED
  BY <1>1, InitSound, NextSound, PTL DEF Spec, IdsMonotone
-----------------------------------------------------------------------------
(* No gap opens while the rows arrive in order.                            *)

\* A page that was never connected has missed nothing.
LEMMA InitGapless == Init => Gapless
<1> SUFFICES ASSUME Init PROVE GapParts
  BY DEF Gapless
<1>0. Sound
  BY InitSound
<1>1. conn = Closed /\ page = BlankPage /\ fixes = {}
  BY DEF Init
<1>2. \A d \in Devices : DeviceState(d).rcv = Never
  BY <1>0, <1>1, Answers DEF Sound, AnswerFor
<1>3. conn.states = <<>> /\ conn.pc = "closed"
  BY <1>1, ClosedFields
<1> QED
  BY <1>1, <1>2, <1>3, EmptyDomain
  DEF GapParts, Distinct, Caught, Following, Placed, Unplaced, Newcomers, NoGaps, InPoll, Current

\* Nothing the page or the connection holds is later than `newest'.
LEMMA NewestBounds ==
  ASSUME Sound
  PROVE  /\ newest \in Int /\ page.lastId \in Int /\ page.lastId <= newest
         /\ \A d \in DOMAIN conn.states :
              conn.states[d].rcv \in Int /\ conn.states[d].rcv <= newest
         /\ \A d : DeviceState(d).rcv \in Int
<1>1. newest \in Int /\ page.lastId \in Int /\ page.lastId <= newest
  BY MomentsAreInts DEF Sound, RowsOK, PageOK
<1>2. \A d \in DOMAIN conn.states :
        conn.states[d].rcv \in Int /\ conn.states[d].rcv <= newest
  BY MomentsAreInts DEF Sound, ReadOK, Reading
<1>3. \A d : DeviceState(d).rcv \in Int
  BY Answers, MomentsAreInts DEF Sound, AnswerFor, Reading
<1> QED
  BY <1>1, <1>2, <1>3

\* A position that goes, or comes after all there were, opens no gap.
LEMMA RowsMove ==
  ASSUME Sound, GapParts, UNCHANGED <<conn, page>>,
         \A d \in Devices :
           \/ DeviceState(d)'.ts = DeviceState(d).ts /\ DeviceState(d)'.rcv = DeviceState(d).rcv
           \/ DeviceState(d)'.rcv = Never
           \/ DeviceState(d)'.rcv \in Int /\ DeviceState(d)'.rcv > newest
  PROVE  Caught' /\ Following' /\ Placed' /\ Unplaced' /\ Newcomers' /\ NoGaps'
<1>1. Caught'
  BY NewestBounds DEF GapParts, Caught
<1>2. Following'
  <2> SUFFICES ASSUME InPoll, NEW d \in Devices, DeviceState(d)'.rcv # Never
               PROVE  StillRead(d)' \/ Newer(d)'
    BY DEF Following, InPoll
  <2>1. CASE DeviceState(d)'.rcv \in Int /\ DeviceState(d)'.rcv > newest
    <3>1. DeviceState(d)'.rcv > page.lastId
      BY <2>1, NewestBounds
    <3>2. \A e \in DOMAIN conn.states : DeviceState(d)'.rcv > conn.states[e].rcv
      BY <2>1, NewestBounds
    <3> QED
      BY <3>1, <3>2 DEF Newer
  <2>2. CASE DeviceState(d)'.ts = DeviceState(d).ts /\ DeviceState(d)'.rcv = DeviceState(d).rcv
    BY <2>2 DEF GapParts, Following, StillRead, Newer
  <2> QED
    BY <2>1, <2>2
<1>3. Placed' /\ Unplaced' /\ NoGaps'
  BY DEF GapParts, Placed, Unplaced, NoGaps, InPoll, Current
<1>4. Newcomers'
  <2>1. Current => conn.since = page.lastId
    BY DEF Sound, CursorOK, Current
  <2> QED
    BY <2>1, NewestBounds DEF GapParts, Newcomers, Current
<1> QED
  BY <1>1, <1>2, <1>3, <1>4

\* The database's other users.
LEMMA OthersGapless ==
  ASSUME Sound, GapParts, [Next]_vars, ~overtaken', ~overtaken, UNCHANGED <<conn, page>>
  PROVE  GapParts'
<1>0. RowsOK /\ RowsOK'
  BY NextRows DEF Sound
<1>1. CASE UNCHANGED fixes
  <2>1. \A d \in Devices : DeviceState(d)' = DeviceState(d)
    BY <1>1, SameRowsSameState
  <2>2. Distinct'
    BY <1>1 DEF GapParts, Distinct
  <2> QED
    BY <2>1, <2>2, RowsMove DEF GapParts
<1>2. ASSUME NEW f \in pendingTx, CommitFix(f) PROVE GapParts'
  <2>1. fixes' = fixes \cup {f} /\ ~(f.rcv <= newest)
    BY <1>2 DEF CommitFix
  <2>2. f.rcv \in Int /\ newest \in Int
    BY RowFields, NewestBounds DEF Sound, RowsOK
  <2>3. f.rcv > newest
    BY <2>1, <2>2
  <2>4. \A d \in Devices :
           \/ DeviceState(d)'.ts = DeviceState(d).ts /\ DeviceState(d)'.rcv = DeviceState(d).rcv
           \/ DeviceState(d)'.rcv = f.rcv
    BY <1>0, <1>2, CommitState
  <2>5. \A g \in fixes : g.rcv \in Int /\ g.rcv <= newest
    BY RowFields DEF Sound, RowsOK
  <2>6. \A g \in fixes : g.rcv # f.rcv
    BY <2>2, <2>3, <2>5
  <2>7. Distinct'
    BY <2>1, <2>6 DEF GapParts, Distinct
  <2> QED
    BY <2>2, <2>3, <2>4, <2>7, RowsMove DEF GapParts
<1>3. ASSUME NEW t \in Stamps, Purge(t) PROVE GapParts'
  <2>1. fixes' \subseteq fixes
    BY <1>3 DEF Purge
  <2>2. \A d \in Devices :
           \/ DeviceState(d)'.ts = DeviceState(d).ts /\ DeviceState(d)'.rcv = DeviceState(d).rcv
           \/ DeviceState(d)'.rcv = Never
    BY <1>0, <1>3, PurgeState
  <2>3. Distinct'
    BY <2>1 DEF GapParts, Distinct
  <2> QED
    BY <2>2, <2>3, RowsMove DEF GapParts
<1>4. UNCHANGED fixes \/ (\E f \in pendingTx : CommitFix(f)) \/ (\E t \in Stamps : Purge(t))
  BY DEF Next, vars, Tick, Enrol, BeginFix, Connect, Disconnect, Reload, Poll, PollRead,
         PollFailed, Sweep, SweepFailed, PollDone, WritePosition, WritePresentation, database
<1> QED
  BY <1>1, <1>2, <1>3, <1>4

\* The page connects or is loaded anew, the connection drops, a query fails.
LEMMA ConnectGapless ==
  ASSUME Sound, GapParts, Connect \/ Disconnect \/ Reload \/ PollFailed \/ SweepFailed
  PROVE  GapParts'
<1>0. UNCHANGED fixes
  BY DEF Connect, Disconnect, Reload, PollFailed, SweepFailed, database
<1>1. \A d \in Devices : DeviceState(d)' = DeviceState(d)
  BY <1>0, SameRowsSameState
<1>2. CASE ~Reload
  <2>1. UNCHANGED page
    BY <1>2 DEF Connect, Disconnect, PollFailed, SweepFailed
  <2>2. conn'.states = <<>> /\ ~InPoll' /\ ~Current' /\ conn'.pc # "presentation"
        /\ conn'.pc # "position"
    BY <1>2, ConnectFields, ClosedFields, UnavailableFields DEF Disconnect, InPoll, Current, Sound
  <2>3. Distinct'
    BY <1>0, <2>2, EmptyDomain DEF GapParts, Distinct
  <2>4. Caught'
    BY <1>1, <2>1 DEF GapParts, Caught
  <2> QED
    BY <2>2, <2>3, <2>4 DEF GapParts, Following, Placed, Unplaced, Newcomers, NoGaps
<1>3. CASE Reload
  <2>1. conn.pc = "closed" /\ page' = BlankPage /\ UNCHANGED conn
    BY <1>3 DEF Reload
  <2>2. Distinct'
    BY <1>0, <2>1 DEF GapParts, Distinct
  <2>3. Caught'
    <3>1. \A d \in Devices : DeviceState(d).rcv \in Moment
      BY Answers DEF Sound, AnswerFor, Reading
    <3>2. page'.lastId = Never
      BY <2>1 DEF BlankPage
    <3>3. \A d \in Devices : DeviceState(d).rcv # Never => ~(DeviceState(d).rcv <= Never)
      BY <3>1, MomentsAreInts
    <3> QED
      BY <1>1, <3>2, <3>3 DEF Caught
  <2> QED
    BY <2>1, <2>2, <2>3
    DEF GapParts, Following, Placed, Unplaced, Newcomers, NoGaps, InPoll, Current
<1> QED
  BY <1>2, <1>3

\* The poll's query: what it will not write is on the page already.
LEMMA PollReadGapless ==
  ASSUME Sound, GapParts, PollRead
  PROVE  GapParts'
<1>0. UNCHANGED <<fixes, page>> /\ conn.pc = "poll" /\ ConnTypes
  BY DEF PollRead, database, Sound
<1>1. \A d \in Devices : DeviceState(d)' = DeviceState(d)
  BY <1>0, SameRowsSameState
<1>2. /\ conn'.pc = "position" /\ DOMAIN conn'.states = enrolled
      /\ \A d \in enrolled : conn'.states[d] = DeviceState(d)
      /\ conn'.todo = {d \in enrolled : DeviceState(d).rcv > conn.since}
      /\ conn'.prev = conn.prev /\ conn'.swept = conn.swept /\ conn'.degraded = conn.degraded
  BY <1>0, PollReadFields
<1>3. enrolled \subseteq Devices /\ \A f \in fixes : f.dev \in enrolled
  BY DEF Sound, RowsOK
<1>4. \A d \in Devices : AnswerFor(fixes, d, DeviceState(d))
  BY Answers DEF Sound
<1>5. Distinct'
  <2>1. \A d, e \in enrolled :
          DeviceState(d).rcv = DeviceState(e).rcv /\ DeviceState(d).rcv # Never => d = e
    <3> SUFFICES ASSUME NEW d \in enrolled, NEW e \in enrolled,
                        DeviceState(d).rcv = DeviceState(e).rcv, DeviceState(d).rcv # Never
                 PROVE  d = e
      OBVIOUS
    <3>1. PICK f \in fixes : f.dev = d /\ f.rcv = DeviceState(d).rcv
      BY <1>3, <1>4 DEF AnswerFor
    <3>2. PICK g \in fixes : g.dev = e /\ g.rcv = DeviceState(e).rcv
      BY <1>3, <1>4 DEF AnswerFor
    <3> QED
      BY <3>1, <3>2 DEF GapParts, Distinct
  <2> QED
    BY <1>0, <1>2, <2>1 DEF GapParts, Distinct
<1>6. Caught'
  BY <1>0, <1>1 DEF GapParts, Caught
<1>7. Following'
  <2> SUFFICES ASSUME NEW d \in Devices, DeviceState(d).rcv # Never
               PROVE  StillRead(d)'
    BY <1>1 DEF Following
  <2>1. d \in enrolled
    BY <1>3, <1>4 DEF AnswerFor
  <2> QED
    BY <1>1, <1>2, <2>1 DEF StillRead
<1>8. Placed'
  <2> SUFFICES ASSUME NEW d \in enrolled, ~(DeviceState(d).rcv > conn.since),
                      DeviceState(d).rcv # Never
               PROVE  page.marker[d] = DeviceState(d).ts
    BY <1>0, <1>2 DEF Placed
  <2>1. conn.since = page.lastId
    BY <1>0 DEF Sound, CursorOK
  <2>2. DeviceState(d).rcv <= page.lastId
    BY <2>1, NewestBounds
  <2> QED
    BY <1>3, <2>2 DEF GapParts, Caught
<1>9. Unplaced'
  <2> SUFFICES ASSUME conn.swept, ~conn.degraded, NEW d \in enrolled,
                      d \in DOMAIN conn.prev => conn.prev[d] = Never
               PROVE  page.marker[d] = Never
    BY <1>0, <1>2 DEF Unplaced
  <2>1. Current
    BY <1>0 DEF Current
  <2>2. CASE d \in DOMAIN conn.prev
    BY <2>1, <2>2 DEF Sound, SeenOK, GapParts, NoGaps
  <2>3. CASE d \notin DOMAIN conn.prev
    BY <1>3, <2>1, <2>3 DEF Sound, PageOK
  <2> QED
    BY <2>2, <2>3
<1>10. Newcomers' /\ NoGaps'
  BY <1>2 DEF Newcomers, NoGaps, Current
<1> QED
  BY <1>5, <1>6, <1>7, <1>8, <1>9, <1>10 DEF GapParts

\* A device without a position that the sweep does not owe a word has no marker.
LEMMA SweepGapless ==
  ASSUME Sound, GapParts, Sweep
  PROVE  GapParts'
<1>0. /\ UNCHANGED <<fixes, page>> /\ conn.pc = "position" /\ conn.todo = {} /\ ConnTypes
  BY DEF Sweep, database, Sound
<1>1. \A d \in Devices : DeviceState(d)' = DeviceState(d)
  BY <1>0, SameRowsSameState
<1>2. /\ conn'.pc = "presentation" /\ conn'.states = conn.states /\ conn'.todo = conn.todo
      /\ conn'.owed = Owed
  BY <1>0, SweepFields
<1>3. Distinct' /\ Caught'
  BY <1>0, <1>1, <1>2 DEF GapParts, Distinct, Caught
<1>4. Following'
  BY <1>0, <1>1, <1>2 DEF GapParts, Following, StillRead, Newer, InPoll
<1>5. Placed'
  BY <1>0, <1>2 DEF GapParts, Placed, InPoll
<1>6. Unplaced'
  <2> SUFFICES ASSUME NEW d \in DOMAIN conn.states, d \notin Owed, conn.states[d].rcv = Never
               PROVE  page.marker[d] = Never
    BY <1>0, <1>2 DEF Unplaced
  <2>1. conn.states[d].contact = Never /\ d \notin conn.positioned
    BY DEF Sound, ReadOK, Reading
  <2>2. Value(conn.at, conn.states[d].contact) = "no-position"
    BY <2>1, ValueOfNever
  <2>3. conn.swept
    <3> SUFFICES ASSUME ~conn.swept PROVE d \in Owed
      OBVIOUS
    <3>1. CASE conn.resuming
      <4>1. resumeSweep(d)
        BY <2>2, ValueOfNever DEF resumeSweep
      <4> QED
        BY <2>1, <3>1, <4>1 DEF Owed
    <3>2. CASE ~conn.resuming
      BY <2>1, <3>2 DEF Owed, snapshotUnlocated
    <3> QED
      BY <3>1, <3>2
  <2>4. ~conn.degraded
    BY <2>1, <2>3 DEF Owed, reannounce
  <2>5. ~diff(d)
    BY <2>1, <2>3, <2>4 DEF Owed
  <2>6. d \in DOMAIN conn.prev => conn.prev[d] = Never
    BY <2>2, <2>5, ValueOfNever DEF diff
  <2> QED
    BY <1>0, <2>3, <2>4, <2>6 DEF GapParts, Unplaced
<1>7. Newcomers' /\ NoGaps'
  BY <1>2 DEF Newcomers, NoGaps, Current
<1> QED
  BY <1>3, <1>4, <1>5, <1>6, <1>7 DEF GapParts

\* The poll ends: the page holds what it read.
LEMMA PollDoneGapless ==
  ASSUME Sound, GapParts, PollDone
  PROVE  GapParts'
<1>0. /\ UNCHANGED <<fixes, page>> /\ conn.pc = "presentation" /\ conn.owed = {} /\ ConnTypes
      /\ conn.todo = {} /\ conn.since = page.lastId
  BY DEF PollDone, database, Sound, ReadOK, CursorOK
<1>1. \A d \in Devices : DeviceState(d)' = DeviceState(d)
  BY <1>0, SameRowsSameState
<1>2. /\ conn'.pc = "poll" /\ conn'.states = <<>> /\ conn'.since = conn.since
      /\ DOMAIN conn'.prev = DOMAIN conn.states
      /\ \A d \in DOMAIN conn.states : conn'.marker[d] = conn.states[d].ts
  BY <1>0, PollDoneFields
<1>3. Distinct' /\ Caught'
  BY <1>0, <1>1, <1>2, EmptyDomain DEF GapParts, Distinct, Caught
<1>4. Following' /\ Placed' /\ Unplaced'
  BY <1>2 DEF Following, Placed, Unplaced, InPoll
<1>5. Newcomers'
  <2> SUFFICES ASSUME NEW d \in Devices \ DOMAIN conn.states, DeviceState(d).rcv # Never
               PROVE  DeviceState(d).rcv > conn.since
    BY <1>1, <1>2 DEF Newcomers
  <2> QED
    BY <1>0 DEF GapParts, Following, InPoll, StillRead, Newer
<1>6. NoGaps'
  <2> SUFFICES ASSUME NEW d \in DOMAIN conn.states PROVE page.marker[d] = conn.states[d].ts
    BY <1>0, <1>2 DEF NoGaps
  <2>1. CASE conn.states[d].rcv = Never
    BY <1>0, <2>1 DEF GapParts, Unplaced, Sound, ReadOK, Reading
  <2>2. CASE conn.states[d].rcv # Never
    BY <1>0, <2>2 DEF GapParts, Placed, InPoll
  <2> QED
    BY <2>1, <2>2
<1> QED
  BY <1>3, <1>4, <1>5, <1>6 DEF GapParts

\* A position event moves the page's last id, past nothing it has not been sent.
LEMMA WritePositionGapless ==
  ASSUME Sound, GapParts, NEW d \in Devices, WritePosition(d)
  PROVE  GapParts'
<1>0. /\ UNCHANGED fixes /\ conn.pc = "position" /\ d \in conn.todo /\ ConnTypes /\ PageOK
      /\ \A e \in conn.todo : conn.states[d].rcv <= conn.states[e].rcv
      /\ d \in DOMAIN conn.states /\ conn.states[d].rcv # Never
  BY DEF WritePosition, sortByArrival, database, Sound, ReadOK
<1>1. \A e \in Devices : DeviceState(e)' = DeviceState(e)
  BY <1>0, SameRowsSameState
<1>2. /\ conn'.pc = "position" /\ conn'.states = conn.states /\ conn'.todo = conn.todo \ {d}
      /\ conn'.prev = conn.prev /\ conn'.swept = conn.swept /\ conn'.degraded = conn.degraded
      /\ page'.lastId = conn.states[d].rcv
      /\ page'.marker = [page.marker EXCEPT ![d] = conn.states[d].ts]
  BY <1>0, WritePositionFields
<1>3. page.marker \in [Devices -> Stamp] /\ DOMAIN conn.states \subseteq Devices
  BY DEF Sound, PageOK, ReadOK, RowsOK
<1>4. Distinct'
  BY <1>0, <1>2 DEF GapParts, Distinct
<1>5. Caught'
  <2> SUFFICES ASSUME NEW e \in Devices, DeviceState(e).rcv # Never,
                      DeviceState(e).rcv <= conn.states[d].rcv
               PROVE  page'.marker[e] = DeviceState(e).ts
    BY <1>1, <1>2 DEF Caught
  <2>1. conn.states[d].rcv \in Int /\ DeviceState(e).rcv \in Int
    BY <1>0, NewestBounds
  <2>2. ~(DeviceState(e).rcv > conn.states[d].rcv)
    BY <2>1
  <2>3. StillRead(e)
    BY <1>0, <2>2 DEF GapParts, Following, InPoll, Newer
  <2>4. CASE e = d
    BY <1>2, <1>3, <2>3, <2>4 DEF StillRead
  <2>5. CASE e # d /\ e \in conn.todo
    <3>1. conn.states[e].rcv = conn.states[d].rcv
      BY <1>0, <2>1, <2>3, <2>5 DEF StillRead
    <3> QED
      BY <1>0, <2>3, <2>5, <3>1 DEF GapParts, Distinct, StillRead
  <2>6. CASE e # d /\ e \notin conn.todo
    <3>1. page.marker[e] = conn.states[e].ts
      BY <1>0, <2>3, <2>6 DEF GapParts, Placed, InPoll, StillRead
    <3> QED
      BY <1>2, <1>3, <2>3, <2>6, <3>1 DEF StillRead
  <2> QED
    BY <2>4, <2>5, <2>6
<1>6. Following'
  <2> SUFFICES ASSUME NEW e \in Devices, DeviceState(e).rcv # Never
               PROVE  StillRead(e)' \/ Newer(e)'
    BY <1>1 DEF Following
  <2>1. StillRead(e) \/ Newer(e)
    BY <1>0 DEF GapParts, Following, InPoll
  <2> QED
    BY <1>0, <1>1, <1>2, <2>1 DEF StillRead, Newer
<1>7. Placed'
  BY <1>0, <1>2, <1>3 DEF GapParts, Placed, InPoll
<1>8. Unplaced'
  BY <1>0, <1>2, <1>3 DEF GapParts, Unplaced
<1>9. Newcomers' /\ NoGaps'
  BY <1>2 DEF Newcomers, NoGaps, Current
<1> QED
  BY <1>4, <1>5, <1>6, <1>7, <1>8, <1>9 DEF GapParts

\* A presentation event takes away the marker of a device without a position.
LEMMA WritePresentationGapless ==
  ASSUME Sound, GapParts, NEW d \in Devices, WritePresentation(d)
  PROVE  GapParts'
<1>0. /\ UNCHANGED fixes /\ conn.pc = "presentation" /\ d \in conn.owed /\ ConnTypes /\ PageOK
      /\ d \in DOMAIN conn.states
  BY DEF WritePresentation, database, Sound, ReadOK
<1>1. \A e \in Devices : DeviceState(e)' = DeviceState(e)
  BY <1>0, SameRowsSameState
<1> DEFINE m == IF ReadWord(d) = "no-position" THEN Never ELSE page.marker[d]
<1>2. /\ conn'.pc = "presentation" /\ conn'.states = conn.states /\ conn'.todo = conn.todo
      /\ conn'.owed = conn.owed \ {d}
      /\ page'.lastId = page.lastId
      /\ page'.marker = [page.marker EXCEPT ![d] = m]
  BY <1>0, WritePresentationFields
<1>3. page.marker \in [Devices -> Stamp] /\ DOMAIN conn.states \subseteq Devices
  BY DEF Sound, PageOK, ReadOK, RowsOK
<1>4. IF conn.states[d].rcv = Never THEN m = Never ELSE m = page.marker[d]
  BY <1>0, ValueOfNever DEF ReadWord, Sound, ReadOK, Reading
<1> HIDE DEF m
<1>5. Distinct'
  BY <1>0, <1>2 DEF GapParts, Distinct
<1>6. Caught'
  <2> SUFFICES ASSUME NEW e \in Devices, DeviceState(e).rcv # Never,
                      DeviceState(e).rcv <= page.lastId
               PROVE  page'.marker[e] = DeviceState(e).ts
    BY <1>1, <1>2 DEF Caught
  <2>1. page.marker[e] = DeviceState(e).ts
    BY DEF GapParts, Caught
  <2>2. StillRead(e)
    <3>1. ~(DeviceState(e).rcv > page.lastId)
      BY NewestBounds
    <3> QED
      BY <1>0, <3>1 DEF GapParts, Following, InPoll, Newer
  <2> QED
    BY <1>2, <1>3, <1>4, <2>1, <2>2 DEF StillRead
<1>7. Following'
  BY <1>0, <1>1, <1>2 DEF GapParts, Following, StillRead, Newer, InPoll
<1>8. Placed'
  BY <1>0, <1>2, <1>3, <1>4 DEF GapParts, Placed, InPoll
<1>9. Unplaced'
  BY <1>0, <1>2, <1>3, <1>4 DEF GapParts, Unplaced
<1>10. Newcomers' /\ NoGaps'
  BY <1>2 DEF Newcomers, NoGaps, Current
<1> QED
  BY <1>5, <1>6, <1>7, <1>8, <1>9, <1>10 DEF GapParts

\* Every step.
LEMMA NextGapless == Sound /\ Gapless /\ [Next]_vars => Gapless'
<1> SUFFICES ASSUME Sound, Gapless, [Next]_vars, ~overtaken' PROVE GapParts'
  BY DEF Gapless
<1>0. ~overtaken
  BY DEF Next, vars, Tick, Enrol, BeginFix, CommitFix, Purge, Connect, Disconnect, Reload, Poll,
         PollRead, PollFailed, Sweep, SweepFailed, PollDone, WritePosition, WritePresentation,
         database, arrival
<1>1. GapParts
  BY <1>0 DEF Gapless
<1>2. CASE UNCHANGED <<conn, page>>
  BY <1>0, <1>1, <1>2, OthersGapless
<1>3. CASE Connect \/ Disconnect \/ Reload \/ Poll
  BY <1>1, <1>3, ConnectGapless, PollReadGapless, SweepGapless, PollDoneGapless,
     WritePositionGapless, WritePresentationGapless DEF Poll
<1> QED
  BY <1>2, <1>3 DEF Next, vars, Tick, Enrol, BeginFix, CommitFix, Purge

\* "A dropped connection resumes from Last-Event-ID with NO GAPS", as far as the
\* code keeps it: over dropped connections, failing queries, purges and backlogs,
\* while every row becomes visible later than those before it.
THEOREM NoGapWhileInOrder == Spec => []NoGapsInOrder
<1>1. Gapless => NoGapsInOrder
  BY DEF Gapless, GapParts, NoGapsInOrder
<1> QED
  BY <1>1, InitSound, NextSound, InitGapless, NextGapless, PTL DEF Spec
-----------------------------------------------------------------------------
(* The words on the page.                                                  *)

\* Nothing has been polled yet.
LEMMA InitTruthful == Init => Truthful
<1> SUFFICES ASSUME Init PROVE Truthful
  OBVIOUS
<1>1. conn.pc = "closed"
  BY ClosedFields DEF Init
<1> QED
  BY <1>1 DEF Truthful, WordsAreTrue, Current, PositionedWords, FirstWords, LaterWords,
              OwedWords, InPoll

\* A row that overtakes others only widens what is excused.
LEMMA OthersTruthful ==
  ASSUME Sound, Truthful, UNCHANGED <<conn, page>>, overtaken => overtaken'
  PROVE  Truthful'
<1>1. WordsAreTrue'
  BY DEF Truthful, WordsAreTrue, Current, TrueWord, Value
<1>2. ~conn.resuming => PositionedWords' /\ FirstWords'
  BY DEF Truthful, PositionedWords, FirstWords, InPoll, ReadWord, Value
<1>3. ~conn.resuming => LaterWords'
  BY DEF Truthful, LaterWords, TrueWord, Unheard, Value
<1>4. ~conn.resuming => OwedWords'
  BY DEF Truthful, OwedWords, ReadWord, Unheard, Value
<1> QED
  BY <1>1, <1>2, <1>3, <1>4 DEF Truthful

\* A connection that is not in a poll and has nothing current promises nothing.
LEMMA ConnectTruthful ==
  ASSUME Sound, Truthful, Connect \/ Disconnect \/ Reload \/ PollFailed \/ SweepFailed
  PROVE  Truthful'
<1>1. conn'.pc \in {"closed", "poll"} /\ ~Current'
  BY ConnectFields, ClosedFields, UnavailableFields DEF Disconnect, Reload, Current, Sound
<1> QED
  BY <1>1 DEF Truthful, WordsAreTrue, PositionedWords, FirstWords, LaterWords, OwedWords, InPoll

\* The poll's query.
LEMMA PollReadTruthful ==
  ASSUME Sound, Gapless, Truthful, PollRead
  PROVE  Truthful'
<1>0. UNCHANGED <<fixes, page, overtaken>> /\ conn.pc = "poll" /\ ConnTypes
  BY DEF PollRead, database, arrival, Sound
<1>1. /\ conn'.pc = "position" /\ DOMAIN conn'.states = enrolled /\ conn'.positioned = {}
      /\ \A d \in enrolled : conn'.states[d] = DeviceState(d)
      /\ conn'.todo = {d \in enrolled : DeviceState(d).rcv > conn.since}
      /\ conn'.prev = conn.prev /\ conn'.prevAt = conn.prevAt /\ conn'.swept = conn.swept
      /\ conn'.degraded = conn.degraded /\ conn'.resuming = conn.resuming
  BY <1>0, PollReadFields
<1>2. WordsAreTrue' /\ PositionedWords' /\ OwedWords'
  BY <1>1 DEF WordsAreTrue, Current, PositionedWords, OwedWords
<1>3. \A d \in enrolled : Reading(DeviceState(d)) /\ d \in Devices
  BY Answers DEF Sound, AnswerFor, RowsOK
<1>4. ASSUME ~conn.resuming PROVE FirstWords'
  <2> SUFFICES ASSUME ~conn.swept, NEW d \in enrolled, ~(DeviceState(d).rcv > conn.since)
               PROVE  DeviceState(d).contact = Never
    BY <1>1 DEF FirstWords
  <2>1. conn.since = Never
    BY <1>0, <1>4 DEF Sound, CursorOK
  <2>2. DeviceState(d).rcv \in Moment
    BY <1>3 DEF Reading
  <2>3. DeviceState(d).rcv = Never
    BY <2>1, <2>2, MomentsAreInts
  <2> QED
    BY <1>3, <2>3 DEF Reading
<1>5. ASSUME ~conn.resuming PROVE LaterWords'
  <2> SUFFICES ASSUME conn.swept, ~conn.degraded, NEW d \in enrolled
               PROVE  /\ d \in DOMAIN conn.prev => TrueWord(d)'
                      /\ d \notin DOMAIN conn.prev => d \in conn'.todo \/ Unheard(d)'
    BY <1>1 DEF LaterWords
  <2>1. Current
    BY <1>0 DEF Current
  <2>2. ASSUME d \in DOMAIN conn.prev PROVE TrueWord(d)'
    <3>1. TrueWord(d)
      BY <1>5, <2>1, <2>2 DEF Truthful, WordsAreTrue
    <3> QED
      BY <1>0, <1>1, <3>1 DEF TrueWord
  <2>3. ASSUME d \notin DOMAIN conn.prev, d \notin conn'.todo PROVE Unheard(d)'
    <3>1. page.state[d] = "unknown"
      BY <1>3, <2>1, <2>3 DEF Sound, PageOK
    <3>2. overtaken \/ DeviceState(d).rcv = Never
      BY <1>1, <1>3, <2>1, <2>3 DEF Gapless, GapParts, Newcomers
    <3>3. overtaken \/ DeviceState(d).contact = Never
      BY <1>3, <3>2 DEF Reading
    <3> QED
      BY <1>0, <1>1, <3>1, <3>3 DEF Unheard
  <2> QED
    BY <2>2, <2>3
<1> QED
  BY <1>1, <1>2, <1>4, <1>5 DEF Truthful

\* A position event says the word read.
LEMMA WritePositionTruthful ==
  ASSUME Sound, Truthful, NEW d \in Devices, WritePosition(d)
  PROVE  Truthful'
<1>0. /\ UNCHANGED overtaken /\ conn.pc = "position" /\ d \in conn.todo /\ ConnTypes /\ PageOK
      /\ DOMAIN conn.states \subseteq Devices /\ conn.positioned \subseteq DOMAIN conn.states
  BY DEF WritePosition, sortByArrival, database, arrival, Sound, ReadOK, RowsOK
<1>1. /\ conn'.todo = conn.todo \ {d} /\ conn'.positioned = conn.positioned \cup {d}
      /\ conn'.pc = conn.pc /\ conn'.resuming = conn.resuming
      /\ conn'.swept = conn.swept /\ conn'.degraded = conn.degraded
      /\ conn'.prev = conn.prev /\ conn'.prevAt = conn.prevAt
      /\ conn'.states = conn.states /\ conn'.at = conn.at
      /\ page'.state = [page.state EXCEPT ![d] = ReadWord(d)]
  BY <1>0, WritePositionFields
<1>2. page.state \in [Devices -> Values \cup {"unknown"}]
  BY <1>0 DEF PageOK
<1>3. \A e \in Devices : ReadWord(e)' = ReadWord(e)
  BY <1>1 DEF ReadWord, Value
<1>4. WordsAreTrue' /\ OwedWords'
  BY <1>0, <1>1 DEF WordsAreTrue, Current, OwedWords
<1> SUFFICES ASSUME ~conn.resuming PROVE PositionedWords' /\ FirstWords' /\ LaterWords'
  BY <1>1, <1>4 DEF Truthful
<1>5. PositionedWords'
  BY <1>0, <1>1, <1>2, <1>3 DEF Truthful, PositionedWords, InPoll
<1>6. FirstWords'
  BY <1>0, <1>1 DEF Truthful, FirstWords
<1>7. LaterWords'
  <2> SUFFICES ASSUME conn.swept, ~conn.degraded,
                      NEW e \in DOMAIN conn.states, e \notin conn.positioned, e # d
               PROVE  /\ e \in DOMAIN conn.prev => TrueWord(e)'
                      /\ e \notin DOMAIN conn.prev => e \in conn'.todo \/ Unheard(e)'
    BY <1>1 DEF LaterWords
  <2>1. page'.state[e] = page.state[e]
    BY <1>0, <1>1, <1>2
  <2>2. e \in DOMAIN conn.prev => TrueWord(e)
    BY <1>0 DEF Truthful, LaterWords
  <2>3. e \notin DOMAIN conn.prev => e \in conn.todo \/ Unheard(e)
    BY <1>0 DEF Truthful, LaterWords
  <2>4. TrueWord(e) => TrueWord(e)'
    BY <1>0, <1>1, <2>1 DEF TrueWord
  <2>5. Unheard(e) => Unheard(e)'
    BY <1>0, <1>1, <2>1 DEF Unheard
  <2> QED
    BY <1>1, <2>2, <2>3, <2>4, <2>5
<1> QED
  BY <1>5, <1>6, <1>7

\* The sweep owes a word to every device whose word would be untrue.
LEMMA SweepTruthful ==
  ASSUME Sound, Truthful, Sweep
  PROVE  Truthful'
<1>0. UNCHANGED <<page, overtaken>> /\ conn.pc = "position" /\ conn.todo = {} /\ ConnTypes
  BY DEF Sweep, database, arrival, Sound
<1>1. /\ conn'.pc = "presentation" /\ conn'.states = conn.states /\ conn'.at = conn.at
      /\ conn'.owed = Owed /\ conn'.positioned = conn.positioned
      /\ conn'.resuming = conn.resuming
  BY <1>0, SweepFields
<1>2. WordsAreTrue' /\ FirstWords' /\ LaterWords'
  BY <1>1 DEF WordsAreTrue, Current, FirstWords, LaterWords
<1> SUFFICES ASSUME ~conn.resuming PROVE PositionedWords' /\ OwedWords'
  BY <1>1, <1>2 DEF Truthful
<1>3. PositionedWords'
  BY <1>0, <1>1 DEF Truthful, PositionedWords, InPoll, ReadWord
<1>4. OwedWords'
  <2> SUFFICES ASSUME NEW d \in DOMAIN conn.states, d \notin Owed
               PROVE  page.state[d] = ReadWord(d) \/ Unheard(d)
    BY <1>0, <1>1 DEF OwedWords, ReadWord, Unheard
  <2>1. CASE d \in conn.positioned
    BY <1>0, <2>1 DEF Truthful, PositionedWords, InPoll
  <2>2. CASE d \notin conn.positioned
    <3>1. conn.swept
      <4>1. ~conn.swept => conn.states[d].contact = Never
        BY <1>0, <2>2 DEF Truthful, FirstWords
      <4>2. ~conn.swept => d \in Owed
        BY <2>2, <4>1 DEF Owed, snapshotUnlocated
      <4> QED
        BY <4>2
    <3>2. ~conn.degraded
      BY <2>2, <3>1 DEF Owed, reannounce
    <3>3. ~diff(d)
      BY <2>2, <3>1, <3>2 DEF Owed
    <3>4. CASE d \notin DOMAIN conn.prev
      BY <1>0, <2>2, <3>1, <3>2, <3>4 DEF Truthful, LaterWords
    <3>5. CASE d \in DOMAIN conn.prev
      <4>1. Value(conn.prevAt, conn.prev[d]) = ReadWord(d)
        BY <3>3, <3>5 DEF diff, ReadWord
      <4>2. TrueWord(d)
        BY <1>0, <2>2, <3>1, <3>2, <3>5 DEF Truthful, LaterWords
      <4>3. conn.prev[d] = Never => conn.states[d].contact = Never
        BY <4>1, ValueOfNever DEF ReadWord
      <4> QED
        BY <4>1, <4>2, <4>3 DEF TrueWord, Unheard
    <3> QED
      BY <3>4, <3>5
  <2> QED
    BY <2>1, <2>2
<1> QED
  BY <1>3, <1>4

\* A presentation event says the word read.
LEMMA WritePresentationTruthful ==
  ASSUME Sound, Truthful, NEW d \in Devices, WritePresentation(d)
  PROVE  Truthful'
<1>0. /\ UNCHANGED overtaken /\ conn.pc = "presentation" /\ ConnTypes /\ PageOK
      /\ DOMAIN conn.states \subseteq Devices /\ conn.positioned \subseteq DOMAIN conn.states
  BY DEF WritePresentation, database, arrival, Sound, ReadOK, RowsOK
<1>1. /\ conn'.owed = conn.owed \ {d} /\ conn'.positioned = conn.positioned
      /\ conn'.pc = conn.pc /\ conn'.resuming = conn.resuming
      /\ conn'.states = conn.states /\ conn'.at = conn.at
      /\ page'.state = [page.state EXCEPT ![d] = ReadWord(d)]
  BY <1>0, WritePresentationFields
<1>2. page.state \in [Devices -> Values \cup {"unknown"}]
  BY <1>0 DEF PageOK
<1>3. \A e \in Devices : ReadWord(e)' = ReadWord(e)
  BY <1>1 DEF ReadWord, Value
<1>4. WordsAreTrue' /\ FirstWords' /\ LaterWords'
  BY <1>0, <1>1 DEF WordsAreTrue, Current, FirstWords, LaterWords
<1> SUFFICES ASSUME ~conn.resuming PROVE PositionedWords' /\ OwedWords'
  BY <1>1, <1>4 DEF Truthful
<1>5. PositionedWords'
  BY <1>0, <1>1, <1>2, <1>3 DEF Truthful, PositionedWords, InPoll
<1>6. OwedWords'
  <2> SUFFICES ASSUME NEW e \in DOMAIN conn.states, e \notin conn.owed \ {d}
               PROVE  page'.state[e] = ReadWord(e) \/ Unheard(e)'
    BY <1>0, <1>1, <1>3 DEF OwedWords
  <2>1. CASE e = d
    BY <1>1, <1>2, <2>1
  <2>2. CASE e # d
    <3>1. page'.state[e] = page.state[e]
      BY <1>0, <1>1, <1>2, <2>2
    <3>2. page.state[e] = ReadWord(e) \/ Unheard(e)
      BY <1>0, <2>2 DEF Truthful, OwedWords
    <3> QED
      BY <1>0, <1>1, <3>1, <3>2 DEF Unheard
  <2> QED
    BY <2>1, <2>2
<1> QED
  BY <1>5, <1>6

\* The poll ends.
LEMMA PollDoneTruthful ==
  ASSUME Sound, Truthful, PollDone
  PROVE  Truthful'
<1>0. UNCHANGED <<page, overtaken>> /\ conn.pc = "presentation" /\ conn.owed = {} /\ ConnTypes
  BY DEF PollDone, database, arrival, Sound
<1>1. /\ conn'.pc = "poll" /\ DOMAIN conn'.prev = DOMAIN conn.states
      /\ \A d \in DOMAIN conn.states : conn'.prev[d] = conn.states[d].contact
      /\ conn'.prevAt = conn.at /\ conn'.resuming = conn.resuming
  BY <1>0, PollDoneFields
<1>2. PositionedWords' /\ FirstWords' /\ LaterWords' /\ OwedWords'
  BY <1>1 DEF PositionedWords, FirstWords, LaterWords, OwedWords, InPoll
<1>3. ASSUME ~conn.resuming, NEW d \in DOMAIN conn.states PROVE TrueWord(d)'
  <2>1. page.state[d] = ReadWord(d) \/ Unheard(d)
    BY <1>0, <1>3 DEF Truthful, OwedWords
  <2> QED
    BY <1>0, <1>1, <1>3, <2>1 DEF TrueWord, ReadWord, Unheard
<1> QED
  BY <1>1, <1>2, <1>3 DEF Truthful, WordsAreTrue

\* Every step.
LEMMA NextTruthful == Sound /\ Gapless /\ Truthful /\ [Next]_vars => Truthful'
<1> SUFFICES ASSUME Sound, Gapless, Truthful, [Next]_vars PROVE Truthful'
  OBVIOUS
<1>1. overtaken => overtaken'
  BY DEF Next, vars, Tick, Enrol, BeginFix, CommitFix, Purge, Connect, Disconnect, Reload, Poll,
         PollRead, PollFailed, Sweep, SweepFailed, PollDone, WritePosition, WritePresentation,
         database, arrival
<1>2. CASE UNCHANGED <<conn, page>>
  BY <1>1, <1>2, OthersTruthful
<1>3. CASE Connect \/ Disconnect \/ Reload \/ Poll
  BY <1>3, ConnectTruthful, PollReadTruthful, SweepTruthful, PollDoneTruthful,
     WritePositionTruthful, WritePresentationTruthful DEF Poll
<1> QED
  BY <1>2, <1>3 DEF Next, vars, Tick, Enrol, BeginFix, CommitFix, Purge

\* The word the page shows for a device after a poll is the one true at the poll's
\* instant, whether time passed, a backlogged fix arrived, retention purged, or the
\* database was away in between.
THEOREM TheWordsAreTrue == Spec => []WordsAreTrue
<1>1. Truthful => WordsAreTrue
  BY DEF Truthful
<1> QED
  BY <1>1, InitSound, NextSound, InitGapless, NextGapless, InitTruthful, NextTruthful, PTL
  DEF Spec
=============================================================================
