---------------------------- MODULE UpkeepProofs -----------------------------
(* Proofs about Retention, for any number of requests, any window, any     *)
(* children of somebody else's making, and any number of failing           *)
(* statements and restarts; and about PushRegistration, for any number of  *)
(* addresses, viewers, losses and deaths.                                  *)
EXTENDS Retention, PushRegistration, TLAPS

-----------------------------------------------------------------------------
(* Retention.                                                              *)

\* A child named after a month has readable bounds, Default has none; a row is
\* in the child that covers its month, or in Default.
Placed ==
  /\ covers[Default] = NoBound
  /\ \A n \in Months : covers[n] \in Months
  /\ \A p \in rows : p[1] = Default \/ covers[p[1]] = MonthOf(p[2])

\* The cutoff a pass works with was computed from an earlier clock.
CutoffIsPast == purge.pc = "dropping" => purge.cutoff <= now - Window

\* A child whose bounds are not those of its name is a stranger, and is there.
OddAreStrange == \A n \in Months : covers[n] # n => n \in exists /\ <<n, covers[n]>> \in Strangers

Excused(r) ==
  \/ req[r].ts < now - Window
  \/ \E s \in Strangers : s[1] = MonthOf(req[r].ts) /\ s[1] # s[2]

\* A request that creates its month's partition found neither a Default
\* partition nor a child of another name that covers the month, and there never
\* will be one; once the partition was seen, it is there unless that is excused.
Mitigating ==
  \A r \in Requests :
    /\ req[r].pc \in {"create", "creating", "verify", "retry"} =>
         /\ Default \notin exists
         /\ \A n \in exists : covers[n] = MonthOf(req[r].ts) => n = MonthOf(req[r].ts)
    /\ req[r].pc \in {"verify", "retry"} => MonthOf(req[r].ts) \in exists \/ Excused(r)

\* The inductive invariant.
IInv == TypeOK /\ Placed /\ CutoffIsPast /\ OddAreStrange /\ Mitigating /\ AnsweredIsKept /\ MonthTurnHeals

\* Every instant the ingest window lets through is in one of the months, before
\* the month's end.
LEMMA MonthOfStamp ==
  ASSUME NEW t \in Stamps
  PROVE  MonthOf(t) \in Months /\ t < monthStart(MonthOf(t) + 1)
<1> USE RetentionAssumption
<1>1. t \in Nat /\ t < Month * (LastMonth + 1)
  BY DEF Stamps
<1>2. t \div Month \in Nat /\ t < ((t \div Month) + 1) * Month /\ (t \div Month) * Month <= t
  BY <1>1
<1>3. t \div Month <= LastMonth
  <2> SUFFICES ASSUME LastMonth + 1 <= t \div Month PROVE FALSE
    BY <1>2
  <2>1. (LastMonth + 1) * Month <= (t \div Month) * Month
    BY <1>2
  <2> QED
    BY <1>1, <1>2, <2>1
<1> QED
  BY <1>2, <1>3 DEF MonthOf, monthStart, Months

\* An empty database, with or without a stranger in it.
LEMMA InitIInv == Init => IInv
<1> SUFFICES ASSUME Init PROVE IInv
  OBVIOUS
<1> USE RetentionAssumption, StrangerAssumption
<1>1. PICK odd \in SUBSET Strangers :
        /\ exists = {s[1] : s \in odd}
        /\ covers = [n \in Names |-> IF n = Default THEN NoBound
                        ELSE IF \E s \in odd : s[1] = n
                        THEN (CHOOSE s \in odd : s[1] = n)[2] ELSE n]
  BY DEF Init
<1>2. \A n \in Months : n \in Names /\ n # Default
  BY DEF Months, Names, Default
<1>3. \A n \in Months : covers[n] = n \/ (n \in exists /\ <<n, covers[n]>> \in Strangers /\ covers[n] \in Months)
  <2> TAKE n \in Months
  <2>1. CASE \E s \in odd : s[1] = n
    <3> DEFINE s == CHOOSE s \in odd : s[1] = n
    <3>1. s \in odd /\ s[1] = n
      BY <2>1
    <3>2. covers[n] = s[2]
      BY <1>1, <1>2, <2>1
    <3>3. s \in Names \X Months
      BY <3>1
    <3>4. s = <<n, s[2]>> /\ s[2] \in Months
      BY <3>1, <3>3
    <3>5. n \in exists
      BY <1>1, <3>1
    <3> QED
      BY <3>1, <3>2, <3>4, <3>5
  <2>2. CASE ~ \E s \in odd : s[1] = n
    BY <1>1, <1>2, <2>2
  <2> QED
    BY <2>1, <2>2
<1>4. Default \in Names /\ covers[Default] = NoBound
  BY <1>1 DEF Names, Default
<1>5. exists \subseteq Names
  BY <1>1
<1>6. covers \in [Names -> Months \cup {NoBound}]
  <2>1. \A n \in Names : n \in Months \/ n = Default
    BY DEF Names, Months, Default
  <2>2. \A n \in Names : covers[n] \in Months \cup {NoBound}
    BY <1>3, <1>4, <2>1
  <2> QED
    BY <1>1, <2>2
<1>7. TypeOK
  BY <1>5, <1>6 DEF Init, TypeOK, NoRequest, NoPurge, Stamps
<1> QED
  BY <1>3, <1>4, <1>7
  DEF Init, IInv, Placed, CutoffIsPast, OddAreStrange, Mitigating, AnsweredIsKept, MonthTurnHeals,
      NoRequest, NoPurge

\* A step that leaves the children and the rows alone, and of the requests only
\* forgets some that have not ended.
LEMMA QuietStep ==
  ASSUME IInv, UNCHANGED <<exists, covers, rows>>,
         now' \in 0 .. MaxTime, now <= now',
         starts' \in 0 .. MaxStarts, faults' \in 0 .. MaxFaults, proc' \in {"down", "starting", "serving"},
         req' \in [Requests -> [pc : Ended \cup {"idle", "insert", "create", "creating", "verify", "retry"},
                                ts : Stamps]],
         \A r \in Requests : req'[r] = req[r] \/ req'[r].pc \in {"idle", "failed"},
         purge' = purge \/ purge' = NoPurge
  PROVE  IInv'
<1> USE RetentionAssumption
<1>1. now \in Int /\ now' \in Int /\ Window \in Int
  BY DEF IInv, TypeOK
<1>2. TypeOK'
  BY DEF IInv, TypeOK, NoPurge
<1>3. Placed' /\ OddAreStrange'
  BY DEF IInv, Placed, OddAreStrange
<1>4. CutoffIsPast'
  BY <1>1, <1>2 DEF IInv, TypeOK, CutoffIsPast, NoPurge
<1>5. \A r \in Requests : req[r].ts \in Int /\ (req[r].ts < now - Window => req[r].ts < now' - Window)
  BY <1>1 DEF IInv, TypeOK, Stamps
<1>6. \A r \in Requests : Excused(r) /\ req'[r] = req[r] => Excused(r)'
  BY <1>5 DEF Excused
<1>7. Mitigating'
  BY <1>6 DEF IInv, Mitigating
<1>8. AnsweredIsKept'
  BY <1>5 DEF IInv, AnsweredIsKept, Kept
<1>9. MonthTurnHeals'
  BY <1>5 DEF IInv, MonthTurnHeals
<1> QED
  BY <1>2, <1>3, <1>4, <1>7, <1>8, <1>9 DEF IInv

\* A step that at most creates children named after months, each with the
\* bounds of its name.
LEMMA CreateStep ==
  ASSUME IInv, NEW made \in SUBSET Months, exists' = exists \cup made,
         UNCHANGED <<now, starts, covers, rows, req, purge>>,
         faults' \in 0 .. MaxFaults, proc' \in {"down", "starting", "serving"}
  PROVE  IInv'
<1> USE RetentionAssumption
<1>1. made \subseteq Names /\ Default \notin made
  BY DEF Months, Names, Default
<1>2. TypeOK'
  BY <1>1 DEF IInv, TypeOK
<1>3. Placed' /\ CutoffIsPast' /\ OddAreStrange'
  BY DEF IInv, Placed, CutoffIsPast, OddAreStrange
<1>4. \A r \in Requests : Excused(r) => Excused(r)'
  BY DEF Excused
<1>5. \A n \in made : n \in exists \/ covers[n] = n
  BY DEF IInv, OddAreStrange
<1>6. Mitigating'
  BY <1>1, <1>4, <1>5 DEF IInv, Mitigating
<1>7. AnsweredIsKept' /\ MonthTurnHeals'
  BY DEF IInv, AnsweredIsKept, Kept, MonthTurnHeals
<1> QED
  BY <1>2, <1>3, <1>6, <1>7 DEF IInv

\* Requests that have passed an unsuccessful insert are about a month.
LEMMA MonthOfRequest ==
  ASSUME IInv, NEW r \in Requests
  PROVE  /\ req[r].ts \in Stamps /\ req[r].ts \in Int
         /\ MonthOf(req[r].ts) \in Months /\ MonthOf(req[r].ts) # Default
         /\ req[r].ts < monthStart(MonthOf(req[r].ts) + 1)
<1>1. req[r].ts \in Stamps
  BY DEF IInv, TypeOK
<1> QED
  BY <1>1, MonthOfStamp, RetentionAssumption DEF Stamps, Months, Default

\* A step of one request that stores nothing and at most creates its month.
LEMMA RequestStep ==
  ASSUME IInv, NEW r \in Requests,
         UNCHANGED <<now, starts, proc, covers, rows, purge, faults>>,
         NEW pc \in {"create", "creating", "verify", "retry", "unprovisioned"},
         req' = [req EXCEPT ![r].pc = pc],
         NEW made \in SUBSET {MonthOf(req[r].ts)}, exists' = exists \cup made,
         /\ Default \notin exists
         /\ \A n \in exists : covers[n] = MonthOf(req[r].ts) => n = MonthOf(req[r].ts),
         pc \in {"verify", "retry"} => MonthOf(req[r].ts) \in exists' \/ Excused(r),
         pc = "unprovisioned" => Excused(r)
  PROVE  IInv'
<1> USE RetentionAssumption
<1>1. made \in SUBSET Months /\ made \subseteq Names /\ Default \notin made
  BY MonthOfRequest DEF Months, Names, Default
<1>2. /\ req'[r].ts = req[r].ts /\ req'[r].pc = pc
      /\ \A o \in Requests : o # r => req'[o] = req[o]
  BY DEF IInv, TypeOK
<1>3. TypeOK'
  <2>1. pc \in Ended \cup {"idle", "insert", "create", "creating", "verify", "retry"}
    BY DEF Ended
  <2> QED
    BY <1>1, <2>1 DEF IInv, TypeOK
<1>4. Placed' /\ CutoffIsPast' /\ OddAreStrange'
  BY DEF IInv, Placed, CutoffIsPast, OddAreStrange
<1>5. \A o \in Requests : Excused(o) => Excused(o)'
  BY <1>2 DEF Excused
<1>6. \A n \in made : n \in exists \/ covers[n] = n
  BY <1>1 DEF IInv, OddAreStrange
<1>7. Mitigating'
  BY <1>1, <1>2, <1>5, <1>6 DEF IInv, Mitigating
<1>8. AnsweredIsKept'
  BY <1>2 DEF IInv, AnsweredIsKept, Kept
<1>9. MonthTurnHeals'
  <2> SUFFICES ASSUME NEW o \in Requests, req'[o].pc = "unprovisioned"
               PROVE  \/ req'[o].ts < now - Window
                      \/ \E s \in Strangers : s[1] = MonthOf(req'[o].ts) /\ s[1] # s[2]
    BY DEF MonthTurnHeals, MonthOf
  <2> QED
    BY <1>2 DEF IInv, MonthTurnHeals, Excused
<1> QED
  BY <1>3, <1>4, <1>7, <1>8, <1>9 DEF IInv

\* An insert that found a child.
LEMMA InsertStep ==
  ASSUME IInv, NEW r \in Requests, Insert(r),
         UNCHANGED <<now, starts, proc, exists, covers, purge, faults>>
  PROVE  IInv'
<1> USE RetentionAssumption
<1>1. PICK n \in Routed(req[r].ts) : rows' = rows \cup {<<n, req[r].ts>>}
  BY DEF Insert
<1>2. n \in exists /\ (n = Default \/ covers[n] = MonthOf(req[r].ts))
  BY <1>1 DEF Routed
<1>3. req' = [req EXCEPT ![r].pc = "stored"]
  BY DEF Insert, Goto
<1>4. /\ req'[r].ts = req[r].ts /\ req'[r].pc = "stored"
      /\ \A o \in Requests : o # r => req'[o] = req[o]
  BY <1>3 DEF IInv, TypeOK
<1>5. TypeOK'
  BY <1>1, <1>2, <1>3, MonthOfRequest DEF IInv, TypeOK, Ended
<1>6. Placed' /\ CutoffIsPast' /\ OddAreStrange'
  BY <1>1, <1>2 DEF IInv, Placed, CutoffIsPast, OddAreStrange
<1>7. \A o \in Requests : Excused(o) => Excused(o)'
  BY <1>4 DEF Excused
<1>8. Mitigating'
  BY <1>4, <1>7 DEF IInv, Mitigating
<1>9. AnsweredIsKept'
  BY <1>1, <1>2, <1>4 DEF IInv, AnsweredIsKept, Kept
<1>10. MonthTurnHeals'
  BY <1>4 DEF IInv, MonthTurnHeals
<1> QED
  BY <1>5, <1>6, <1>8, <1>9, <1>10 DEF IInv

\* A child is dropped only if all it can hold is past the window.
LEMMA DropStep ==
  ASSUME IInv, NEW n \in Names, DropPartition(n)
  PROVE  IInv'
<1> USE RetentionAssumption
<1>1. /\ exists' = exists \ {n} /\ covers' = [covers EXCEPT ![n] = n]
      /\ rows' = {p \in rows : p[1] # n}
      /\ UNCHANGED <<now, starts, proc, req, faults>>
      /\ purge' = [purge EXCEPT !.todo = @ \ {n}]
      /\ purge.pc = "dropping" /\ covers[n] # NoBound /\ upper(n) <= purge.cutoff
  BY DEF DropPartition, Drop, Dropping
<1>2. n \in Months /\ n # Default /\ covers[n] \in Months
  BY <1>1 DEF IInv, Placed, Names, Months, Default
<1>3. covers' \in [Names -> Months \cup {NoBound}] /\ covers'[n] = n
      /\ \A m \in Names : m # n => covers'[m] = covers[m]
  BY <1>1, <1>2 DEF IInv, TypeOK
<1>4. TypeOK'
  BY <1>1, <1>3 DEF IInv, TypeOK
<1>5. /\ purge.cutoff \in Int /\ purge.cutoff <= now - Window /\ now \in Int /\ Window \in Int
      /\ upper(n) \in Int
  BY <1>1, <1>2 DEF IInv, TypeOK, CutoffIsPast, upper, monthStart, Months
<1>6. \A t \in Stamps : MonthOf(t) = covers[n] => t < now - Window
  <2> TAKE t \in Stamps
  <2> HAVE MonthOf(t) = covers[n]
  <2>1. t < upper(n) /\ t \in Int
    BY MonthOfStamp DEF upper, Stamps
  <2> QED
    BY <1>1, <1>5, <2>1
<1>7. Placed'
  <2>1. \A p \in rows : p[1] \in Names
    BY DEF IInv, TypeOK
  <2>2. Default \in Names /\ Months \subseteq Names
    BY DEF Names, Months, Default
  <2> QED
    BY <1>1, <1>2, <1>3, <2>1, <2>2 DEF IInv, Placed
<1>8. CutoffIsPast'
  BY <1>1, <1>5 DEF IInv, TypeOK, CutoffIsPast
<1>9. OddAreStrange'
  <2>1. Months \subseteq Names
    BY DEF Names, Months
  <2> QED
    BY <1>1, <1>3, <2>1 DEF IInv, OddAreStrange
<1>10. \A r \in Requests : Excused(r) => Excused(r)'
  BY <1>1 DEF Excused
<1>11. \A r \in Requests : MonthOf(req[r].ts) = n => Excused(r)
  <2> TAKE r \in Requests
  <2> HAVE MonthOf(req[r].ts) = n
  <2>1. CASE covers[n] = n
    BY <1>6, <2>1, MonthOfRequest DEF Excused
  <2>2. CASE covers[n] # n
    <3>1. <<n, covers[n]>> \in Strangers
      BY <1>2, <2>2 DEF IInv, OddAreStrange
    <3> QED
      BY <2>2, <3>1 DEF Excused
  <2> QED
    BY <2>1, <2>2
<1>12. Mitigating'
  <2>1. exists \subseteq Names
    BY DEF IInv, TypeOK
  <2>2. \A m \in exists' : m \in exists /\ covers'[m] = covers[m] /\ m # n
    BY <1>1, <1>3, <2>1
  <2>3. \A r \in Requests : MonthOf(req[r].ts) \in exists => MonthOf(req[r].ts) \in exists' \/ Excused(r)'
    BY <1>1, <1>10, <1>11
  <2> QED
    BY <1>1, <1>10, <2>2, <2>3 DEF IInv, Mitigating
<1>13. AnsweredIsKept'
  <2> SUFFICES ASSUME NEW r \in Requests, req[r].pc = "stored", ~(req[r].ts < now - Window)
               PROVE  \E m \in exists' : <<m, req[r].ts>> \in rows'
    BY <1>1 DEF AnsweredIsKept, Kept
  <2>1. PICK m \in exists : <<m, req[r].ts>> \in rows
    BY DEF IInv, AnsweredIsKept, Kept
  <2>2. m = Default \/ covers[m] = MonthOf(req[r].ts)
    BY <2>1 DEF IInv, Placed
  <2>3. m # n
    BY <1>2, <1>6, <2>2, MonthOfRequest
  <2> QED
    BY <1>1, <2>1, <2>3
<1>14. MonthTurnHeals'
  BY <1>1 DEF IInv, MonthTurnHeals
<1> QED
  BY <1>4, <1>7, <1>8, <1>9, <1>12, <1>13, <1>14 DEF IInv

\* Every step of the server, of an ingest and of the job preserves it.
LEMMA NextIInv == IInv /\ [Next]_vars => IInv'
<1> SUFFICES ASSUME IInv, [Next]_vars PROVE IInv'
  OBVIOUS
<1> USE RetentionAssumption
<1>1. TypeOK
  BY DEF IInv
<1>2. ASSUME Boot PROVE IInv'
  BY <1>1, <1>2, QuietStep DEF Boot, TypeOK
<1>3. ASSUME EnsurePartitions PROVE IInv'
  <2>1. EnsurePartitionsUpTo(Ahead) \in SUBSET Months
    BY DEF EnsurePartitionsUpTo
  <2>2. exists' = exists \cup EnsurePartitionsUpTo(Ahead)
    BY <1>3 DEF EnsurePartitions
  <2> QED
    BY <1>1, <1>3, <2>1, <2>2, CreateStep DEF EnsurePartitions, TypeOK
<1>4. ASSUME EnsurePartitionsFailed PROVE IInv'
  <2>1. PICK k \in 0 .. Ahead - 1 : exists' = exists \cup EnsurePartitionsUpTo(k)
    BY <1>4 DEF EnsurePartitionsFailed
  <2>2. EnsurePartitionsUpTo(k) \in SUBSET Months
    BY DEF EnsurePartitionsUpTo
  <2>3. faults' \in 0 .. MaxFaults
    BY <1>1, <1>4 DEF EnsurePartitionsFailed, TypeOK
  <2> QED
    BY <1>1, <1>4, <2>1, <2>2, <2>3, CreateStep DEF EnsurePartitionsFailed, TypeOK
<1>5. ASSUME Stop PROVE IInv'
  <2>1. \A r \in Requests : req'[r] = req[r] \/ req'[r].pc \in {"idle", "failed"}
    BY <1>5 DEF Stop, NoRequest
  <2>2. req' \in [Requests -> [pc : Ended \cup {"idle", "insert", "create", "creating", "verify", "retry"},
                               ts : Stamps]]
    BY <1>1, <1>5 DEF Stop, NoRequest, TypeOK, Stamps
  <2> QED
    BY <1>1, <1>5, <2>1, <2>2, QuietStep DEF Stop, TypeOK
<1>6. ASSUME Tick PROVE IInv'
  BY <1>1, <1>6, QuietStep DEF Tick, TypeOK
<1>7. ASSUME NEW r \in Requests, Arrive(r) PROVE IInv'
  <2> USE <1>7 DEF Arrive, OthersUnchanged
  <2>1. PICK t \in Stamps, pc \in {"insert", "refused"} : req' = [req EXCEPT ![r] = [pc |-> pc, ts |-> t]]
    OBVIOUS
  <2>2. req'[r].pc \in {"insert", "refused"} /\ \A o \in Requests : o # r => req'[o] = req[o]
    BY <1>1, <2>1 DEF TypeOK
  <2>3. TypeOK'
    BY <1>1, <2>1 DEF TypeOK, Ended
  <2>4. \A o \in Requests : o # r => (Excused(o) => Excused(o)')
    BY <2>2 DEF Excused
  <2> QED
    BY <2>2, <2>3, <2>4
    DEF IInv, Placed, CutoffIsPast, OddAreStrange, Mitigating, AnsweredIsKept, Kept, MonthTurnHeals
<1>8. ASSUME NEW r \in Requests, Upsert(r) PROVE IInv'
  <2> USE <1>8 DEF Upsert, OthersUnchanged
  <2>1. CASE Insert(r)
    BY <2>1, InsertStep
  <2>2. CASE Routed(req[r].ts) = {} /\ Goto(r, "create") /\ UNCHANGED rows
    <3>1. /\ Default \notin exists
          /\ \A n \in exists : covers[n] = MonthOf(req[r].ts) => n = MonthOf(req[r].ts)
      BY <2>2 DEF Routed
    <3> QED
      BY <2>2, <3>1, RequestStep DEF Goto
  <2> QED
    BY <2>1, <2>2
<1>9. ASSUME NEW r \in Requests, CreateIfNotExists(r) PROVE IInv'
  <2> USE <1>9 DEF CreateIfNotExists, OthersUnchanged, At, Goto
  <2>1. /\ Default \notin exists
        /\ \A n \in exists : covers[n] = MonthOf(req[r].ts) => n = MonthOf(req[r].ts)
    BY DEF IInv, Mitigating
  <2>2. \/ req' = [req EXCEPT ![r].pc = "verify"] /\ MonthOf(req[r].ts) \in exists
        \/ req' = [req EXCEPT ![r].pc = "creating"]
    OBVIOUS
  <2>3. exists' = exists \cup {} /\ {} \in SUBSET {MonthOf(req[r].ts)}
    OBVIOUS
  <2>4. UNCHANGED <<now, starts, proc, covers, rows, purge, faults>>
    OBVIOUS
  <2> HIDE <1>9 DEF CreateIfNotExists, OthersUnchanged, At, Goto
  <2>5. CASE req' = [req EXCEPT ![r].pc = "verify"] /\ MonthOf(req[r].ts) \in exists
    BY <2>1, <2>3, <2>4, <2>5, RequestStep
  <2>6. CASE req' = [req EXCEPT ![r].pc = "creating"]
    BY <2>1, <2>3, <2>4, <2>6, RequestStep
  <2> QED
    BY <2>2, <2>5, <2>6
<1>10. ASSUME NEW r \in Requests, CreatePartition(r) PROVE IInv'
  <2> USE <1>10 DEF CreatePartition, OthersUnchanged, At, Goto
  <2>1. /\ Default \notin exists
        /\ \A n \in exists : covers[n] = MonthOf(req[r].ts) => n = MonthOf(req[r].ts)
    BY DEF IInv, Mitigating
  <2>2. ~ \E p \in rows : p[1] = Default
    BY <1>1, <2>1 DEF TypeOK
  <2>3. MonthOf(req[r].ts) \in exists \/ ~Overlaps(MonthOf(req[r].ts))
    BY <2>1, <2>2 DEF Overlaps
  <2>4. UNCHANGED <<now, starts, proc, covers, rows, purge, faults>>
    OBVIOUS
  <2>5. \/ req' = [req EXCEPT ![r].pc = "retry"] /\ exists' = exists /\ MonthOf(req[r].ts) \in exists
        \/ req' = [req EXCEPT ![r].pc = "verify"] /\ exists' = exists \cup {MonthOf(req[r].ts)}
    BY <2>3
  <2> HIDE <1>10 DEF CreatePartition, OthersUnchanged, At, Goto
  <2>6. CASE req' = [req EXCEPT ![r].pc = "retry"] /\ exists' = exists /\ MonthOf(req[r].ts) \in exists
    <3>1. exists' = exists \cup {} /\ {} \in SUBSET {MonthOf(req[r].ts)}
      BY <2>6
    <3> QED
      BY <2>1, <2>4, <2>6, <3>1, RequestStep
  <2>7. CASE req' = [req EXCEPT ![r].pc = "verify"] /\ exists' = exists \cup {MonthOf(req[r].ts)}
    <3>1. MonthOf(req[r].ts) \in exists' /\ {MonthOf(req[r].ts)} \in SUBSET {MonthOf(req[r].ts)}
      BY <2>7
    <3> QED
      BY <2>1, <2>4, <2>7, <3>1, RequestStep
  <2> QED
    BY <2>5, <2>6, <2>7
<1>11. ASSUME NEW r \in Requests, VerifyBounds(r) PROVE IInv'
  <2> USE <1>11 DEF VerifyBounds, OthersUnchanged, At, Goto
  <2>1. /\ Default \notin exists
        /\ \A n \in exists : covers[n] = MonthOf(req[r].ts) => n = MonthOf(req[r].ts)
        /\ MonthOf(req[r].ts) \in exists \/ Excused(r)
    BY DEF IInv, Mitigating
  <2>2. ~Provisioned(MonthOf(req[r].ts)) => Excused(r)
    BY <2>1, MonthOfRequest DEF Provisioned, IInv, OddAreStrange, Excused
  <2>3. \/ req' = [req EXCEPT ![r].pc = "retry"]
        \/ req' = [req EXCEPT ![r].pc = "unprovisioned"] /\ Excused(r)
    BY <2>2
  <2>4. exists' = exists \cup {} /\ {} \in SUBSET {MonthOf(req[r].ts)}
    OBVIOUS
  <2>5. UNCHANGED <<now, starts, proc, covers, rows, purge, faults>>
    OBVIOUS
  <2> HIDE <1>11 DEF VerifyBounds, OthersUnchanged, At, Goto
  <2>6. CASE req' = [req EXCEPT ![r].pc = "retry"]
    <3>1. MonthOf(req[r].ts) \in exists' \/ Excused(r)
      BY <2>1, <2>4
    <3> QED
      BY <2>1, <2>4, <2>5, <2>6, <3>1, RequestStep
  <2>7. CASE req' = [req EXCEPT ![r].pc = "unprovisioned"] /\ Excused(r)
    BY <2>1, <2>4, <2>5, <2>7, RequestStep
  <2> QED
    BY <2>3, <2>6, <2>7
<1>12. ASSUME NEW r \in Requests, Retry(r) PROVE IInv'
  <2> USE <1>12 DEF Retry, OthersUnchanged, At
  <2>1. CASE Insert(r)
    BY <2>1, InsertStep
  <2>2. CASE Routed(req[r].ts) = {} /\ Goto(r, "unprovisioned") /\ UNCHANGED rows
    <3>1. /\ Default \notin exists
          /\ \A n \in exists : covers[n] = MonthOf(req[r].ts) => n = MonthOf(req[r].ts)
          /\ MonthOf(req[r].ts) \in exists \/ Excused(r)
      BY DEF IInv, Mitigating
    <3>2. MonthOf(req[r].ts) \in exists => covers[MonthOf(req[r].ts)] # MonthOf(req[r].ts)
      BY <2>2 DEF Routed
    <3>3. Excused(r)
      BY <3>1, <3>2, MonthOfRequest DEF IInv, OddAreStrange, Excused
    <3> QED
      BY <2>2, <3>1, <3>3, RequestStep DEF Goto
  <2> QED
    BY <2>1, <2>2
<1>13. ASSUME NEW r \in Requests, StatementFailed(r) PROVE IInv'
  <2>1. req' = [req EXCEPT ![r].pc = "failed"]
    BY <1>13 DEF StatementFailed, Goto
  <2>2. req' \in [Requests -> [pc : Ended \cup {"idle", "insert", "create", "creating", "verify", "retry"},
                               ts : Stamps]]
    BY <1>1, <2>1 DEF TypeOK, Ended
  <2>3. \A o \in Requests : req'[o] = req[o] \/ req'[o].pc \in {"idle", "failed"}
    BY <1>1, <2>1 DEF TypeOK
  <2>4. faults' \in 0 .. MaxFaults
    BY <1>1, <1>13 DEF StatementFailed, TypeOK
  <2> QED
    BY <1>1, <1>13, <2>2, <2>3, <2>4, QuietStep DEF StatementFailed, OthersUnchanged, TypeOK
<1>14. ASSUME PurgeList PROVE IInv'
  <2> USE <1>14 DEF PurgeList, JobUnchanged
  <2>1. now \in Int /\ Window \in Int
    BY <1>1 DEF TypeOK
  <2>2. TypeOK' /\ CutoffIsPast'
    BY <1>1, <2>1 DEF TypeOK, CutoffIsPast
  <2>3. \A r \in Requests : Excused(r) => Excused(r)'
    BY DEF Excused
  <2> QED
    BY <2>2, <2>3
    DEF IInv, Placed, OddAreStrange, Mitigating, AnsweredIsKept, Kept, MonthTurnHeals
<1>15. ASSUME NEW n \in Names, KeepPartition(n) PROVE IInv'
  <2> USE <1>15 DEF KeepPartition, JobUnchanged
  <2>1. TypeOK' /\ CutoffIsPast'
    BY <1>1 DEF IInv, TypeOK, CutoffIsPast
  <2>2. \A r \in Requests : Excused(r) => Excused(r)'
    BY DEF Excused
  <2> QED
    BY <2>1, <2>2
    DEF IInv, Placed, OddAreStrange, Mitigating, AnsweredIsKept, Kept, MonthTurnHeals
<1>16. ASSUME NEW n \in Names, PurgeFailed(n) PROVE IInv'
  <2>1. faults' \in 0 .. MaxFaults
    BY <1>1, <1>16 DEF PurgeFailed, TypeOK
  <2> QED
    BY <1>1, <1>16, <2>1, QuietStep DEF PurgeFailed, JobUnchanged, TypeOK
<1>17. ASSUME PurgeDone PROVE IInv'
  BY <1>1, <1>17, QuietStep DEF PurgeDone, JobUnchanged, TypeOK
<1>18. ASSUME UNCHANGED vars PROVE IInv'
  BY <1>1, <1>18, QuietStep DEF vars, TypeOK
<1> QED
  BY <1>2, <1>3, <1>4, <1>5, <1>6, <1>7, <1>8, <1>9, <1>10, <1>11, <1>12, <1>13, <1>14, <1>15, <1>16,
     <1>17, <1>18, DropStep
  DEF Next, ServerStep, IngestStep, JobStep

\* The inductive invariant holds throughout.
LEMMA Invariant == Spec => []IInv
BY InitIInv, NextIInv, PTL DEF Spec

\* The state stays within its types, rows and the job's list within the
\* children there are.
THEOREM RetentionTypeCorrect == Spec => []TypeOK
<1>1. IInv => TypeOK
  BY DEF IInv
<1> QED
  BY Invariant, <1>1, PTL

\* For every instance, a fix answered as stored is there until it is past the
\* retention window (internal/db/partitions.go, DropPartitionsBefore).
THEOREM RetentionNeverDropsTheYoung == Spec => []AnsweredIsKept
<1>1. IInv => AnsweredIsKept
  BY DEF IInv
<1> QED
  BY Invariant, <1>1, PTL

\* For every instance, racing for a month's partition never costs a fix
\* (internal/store/store.go, IngestFix).
THEOREM RacesForAMonthHeal == Spec => []MonthTurnHeals
<1>1. IInv => MonthTurnHeals
  BY DEF IInv
<1> QED
  BY Invariant, <1>1, PTL

-----------------------------------------------------------------------------
(* PushRegistration.                                                       *)

Stages == {"request", "supersede", "answer"}

Message == [id : Nat, account : Accounts, address : Addresses, stage : Stages,
            replaces : Addresses \cup {None}]

RegistrationTypes ==
  /\ current \in Addresses /\ account \in Accounts /\ remembered \in Addresses \cup {None}
  /\ tasks \in Seq(Addresses \cup {None}) /\ net \subseteq Message
  /\ subscriptions \in [Addresses -> Accounts \cup {None}]
  /\ overlap \in BOOLEAN /\ lost \in Nat /\ deaths \in Nat

\* A message about to remove what it replaces has stored its own address, which
\* is another, and as long as it was alone nobody has taken that row away.
AloneIsStored ==
  ~overlap =>
    /\ \A m, n \in net : m = n
    /\ \A m \in net : m.stage = "supersede" =>
         m.replaces # m.address /\ subscriptions[m.address] # None

\* The inductive invariant.
RegistrationIInv == RegistrationTypes /\ AloneIsStored

\* A message moves on, or is dropped when nobody waits for its answer.
LEMMA AdvanceOK ==
  ASSUME NEW m \in net, NEW stage \in Stages, net \subseteq Message, Advance(m, stage)
  PROVE  /\ net' \subseteq Message
         /\ \A n \in net' : n \in net \/ n = [m EXCEPT !.stage = stage]
         /\ (\A x, y \in net : x = y) => \A n \in net' : n = [m EXCEPT !.stage = stage]
<1>1. m \in Message
  OBVIOUS
<1>2. [m EXCEPT !.stage = stage] \in Message
  BY <1>1 DEF Message
<1>3. \A n \in net' : n \in net \ {m} \/ n = [m EXCEPT !.stage = stage]
  BY DEF Advance
<1> QED
  BY <1>2, <1>3

\* A fresh phone has nothing under way.
LEMMA RegistrationInitIInv == RegistrationInit => RegistrationIInv
<1> SUFFICES ASSUME RegistrationInit PROVE RegistrationIInv
  OBVIOUS
<1>1. current \in Addresses /\ lost \in Nat /\ deaths \in Nat
  BY RegistrationAssumption DEF RegistrationInit, Addresses
<1>2. tasks \in Seq(Addresses \cup {None})
  BY DEF RegistrationInit
<1>3. subscriptions \in [Addresses -> Accounts \cup {None}]
  BY DEF RegistrationInit
<1>4. net = {} /\ account \in Accounts /\ remembered = None /\ overlap \in BOOLEAN
  BY DEF RegistrationInit
<1> QED
  BY <1>1, <1>2, <1>3, <1>4 DEF RegistrationIInv, RegistrationTypes, AloneIsStored

\* Every step keeps it.
LEMMA RegistrationStep ==
  RegistrationIInv /\ [RegistrationNext]_registrationVars => RegistrationIInv'
<1> SUFFICES ASSUME RegistrationIInv, [RegistrationNext]_registrationVars PROVE RegistrationIInv'
  OBVIOUS
<1> USE DEF RegistrationIInv, RegistrationTypes
<1>1. CASE UNCHANGED registrationVars
  BY <1>1 DEF registrationVars, AloneIsStored
<1>2. CASE OpenActivity
  BY <1>2 DEF OpenActivity, registerInBackground, AloneIsStored
<1>3. CASE onNewToken
  BY <1>3, RegistrationAssumption DEF onNewToken, registerInBackground, AloneIsStored, Addresses
<1>4. CASE SaveAccount
  BY <1>4 DEF SaveAccount, registerInBackground, AloneIsStored
<1>5. CASE refreshBlocking
  <2> DEFINE a == IF Head(tasks) = None THEN current ELSE Head(tasks)
             new == [id |-> NextId, account |-> account, address |-> a, stage |-> "request",
                     replaces |-> IF remembered = a THEN None ELSE remembered]
  <2>1. /\ net' = net \cup {new} /\ tasks' = Tail(tasks) /\ tasks # <<>>
        /\ overlap' = (overlap \/ net # {})
        /\ UNCHANGED <<current, account, remembered, subscriptions, lost, deaths>>
    BY <1>5 DEF refreshBlocking
  <2>2. Head(tasks) \in Addresses \cup {None} /\ Tail(tasks) \in Seq(Addresses \cup {None})
    BY <2>1
  <2>3. a \in Addresses
    BY <2>2
  <2>4. new \in Message /\ new.stage = "request"
    BY <2>3 DEF NextId, Message, Stages
  <2>5. RegistrationTypes'
    <3> HIDE DEF new, a
    <3> QED
      BY <2>1, <2>2, <2>4
  <2>6. AloneIsStored'
    <3> HIDE DEF new, a
    <3>1. ~overlap' => net = {}
      BY <2>1
    <3> QED
      BY <2>1, <2>4, <3>1 DEF AloneIsStored
  <2> QED
    BY <2>5, <2>6
<1>6. CASE GiveUp
  BY <1>6 DEF GiveUp, AloneIsStored
<1>7. CASE Die
  BY <1>7 DEF Die, AloneIsStored
<1>8. ASSUME NEW m \in net, Accepted(m) PROVE RegistrationIInv'
  <2>1. m \in Message
    OBVIOUS
  <2> QED
    BY <1>8, <2>1 DEF Accepted, AloneIsStored, Message
<1>9. ASSUME NEW m \in net, RegisterPushSubscription(m) PROVE RegistrationIInv'
  <2> DEFINE stage == IF m.replaces \in {None, m.address} THEN "answer" ELSE "supersede"
             moved == [m EXCEPT !.stage = stage]
  <2>1. m \in Message /\ m.address \in Addresses /\ m.account \in Accounts
    BY DEF Message
  <2>2. /\ subscriptions' = [subscriptions EXCEPT ![m.address] = m.account]
        /\ Advance(m, stage) /\ PhoneUnchanged /\ lost' = lost
    BY <1>9 DEF RegisterPushSubscription
  <2>3. stage \in Stages
    BY DEF Stages
  <2>4. /\ net' \subseteq Message
        /\ (\A x, y \in net : x = y) => \A n \in net' : n = moved
    <3> HIDE DEF stage
    <3> QED
      BY <2>2, <2>3, AdvanceOK
  <2>5. /\ moved.address = m.address /\ moved.replaces = m.replaces
        /\ moved.stage = "supersede" => m.replaces # m.address
    BY <2>1 DEF Message
  <2>6. subscriptions'[m.address] # None
    BY <2>1, <2>2, RegistrationAssumption DEF None
  <2>7. RegistrationTypes'
    BY <2>1, <2>2, <2>4 DEF PhoneUnchanged
  <2>8. AloneIsStored'
    <3> HIDE DEF moved, stage
    <3> QED
      BY <2>2, <2>4, <2>5, <2>6 DEF PhoneUnchanged, AloneIsStored
  <2> QED
    BY <2>7, <2>8
<1>10. ASSUME NEW m \in net, Advance(m, "answer"), PhoneUnchanged, lost' \in Nat,
              subscriptions' \in [Addresses -> Accounts \cup {None}]
       PROVE  RegistrationIInv'
  <2> DEFINE moved == [m EXCEPT !.stage = "answer"]
  <2>1. /\ net' \subseteq Message
        /\ (\A x, y \in net : x = y) => \A n \in net' : n = moved
    BY <1>10, AdvanceOK DEF Stages
  <2>2. moved.stage = "answer"
    BY DEF Message
  <2>3. AloneIsStored'
    <3> HIDE DEF moved
    <3> QED
      BY <1>10, <2>1, <2>2 DEF PhoneUnchanged, AloneIsStored
  <2> QED
    BY <1>10, <2>1, <2>3 DEF PhoneUnchanged
<1>11. ASSUME NEW m \in net, RemovePushSubscriptionForViewer(m) PROVE RegistrationIInv'
  BY <1>10, <1>11 DEF RemovePushSubscriptionForViewer
<1>12. ASSUME NEW m \in net, SupersedeFailed(m) PROVE RegistrationIInv'
  BY <1>10, <1>12 DEF SupersedeFailed
<1>13. ASSUME NEW m \in net, RegisterFailed(m) PROVE RegistrationIInv'
  BY <1>13 DEF RegisterFailed, AloneIsStored
<1> QED
  BY <1>1, <1>2, <1>3, <1>4, <1>5, <1>6, <1>7, <1>8, <1>9, <1>11, <1>12, <1>13
     DEF RegistrationNext, Handle

\* "A crossing comes twice rather than not at all": for any number of addresses,
\* viewers, losses and deaths, as long as no two registrations have been under
\* way at once, no step of the phone or of the server takes the last row.
THEOREM ARowAlwaysRemains == RegistrationSpec => NeverNone
<1>1. ASSUME RegistrationIInv, RegistrationIInv', [RegistrationNext]_registrationVars
      PROVE  [Known # {} /\ ~overlap => Known' # {}]_registrationVars
  <2> USE <1>1 DEF RegistrationIInv, RegistrationTypes
  <2>1. ASSUME UNCHANGED subscriptions, Known # {} PROVE Known' # {}
    BY <2>1 DEF Known
  <2>2. ASSUME NEW m \in net, RegisterPushSubscription(m) PROVE Known' # {}
    <3>1. m.address \in Addresses /\ m.account \in Accounts
      BY DEF Message
    <3>2. subscriptions'[m.address] # None
      BY <2>2, <3>1, RegistrationAssumption DEF RegisterPushSubscription, None
    <3> QED
      BY <3>1, <3>2 DEF Known
  <2>3. ASSUME NEW m \in net, RemovePushSubscriptionForViewer(m), ~overlap PROVE Known' # {}
    <3>1. m.address \in Addresses
      BY DEF Message
    <3>2. m.replaces # m.address /\ subscriptions[m.address] # None
      BY <2>3 DEF RemovePushSubscriptionForViewer, AloneIsStored
    <3>3. subscriptions'[m.address] = subscriptions[m.address]
      BY <2>3, <3>1, <3>2 DEF RemovePushSubscriptionForViewer
    <3> QED
      BY <3>1, <3>2, <3>3 DEF Known
  <2>4. ASSUME Known # {}, ~overlap, RegistrationNext PROVE Known' # {}
    <3>1. \/ UNCHANGED subscriptions
          \/ \E m \in net : RegisterPushSubscription(m) \/ RemovePushSubscriptionForViewer(m)
      BY <2>4 DEF RegistrationNext, Handle, OpenActivity, onNewToken, SaveAccount, refreshBlocking,
                  GiveUp, Die, Accepted, SupersedeFailed, RegisterFailed
    <3> QED
      BY <2>1, <2>2, <2>3, <2>4, <3>1
  <2> QED
    BY <2>4
<1> QED
  BY <1>1, RegistrationInitIInv, RegistrationStep, PTL DEF RegistrationSpec, NeverNone

=============================================================================
