--------------------------- MODULE HistoryPaging ---------------------------
(* GET /v1/devices/{id}/history read page by page (internal/server/read.go, *)
(* parseWindow and parsePage; internal/store/read.go, DeviceHistory) while *)
(* fixes of the device keep arriving, in any order of their ts, and the    *)
(* retention job drops its oldest months.  A page is one statement; what   *)
(* connects two pages is only the caller's offset.                         *)
EXTENDS Integers, FiniteSets

CONSTANTS
    TrailStamps,      \* ts values of the device's fixes
    MaxHistoryLimit,  \* the server's cap on a page
    AskedLimits       \* limits a caller asks for

ASSUME PagingAssumption ==
    /\ TrailStamps \subseteq Nat /\ IsFiniteSet(TrailStamps) /\ MaxHistoryLimit \in Nat \ {0}
    /\ AskedLimits \subseteq Int

Unbounded == -1     \* the zero time.Time, NULL in the query

VARIABLES
    trail,  \* ts of the fixes stored
    walk,   \* the caller: [pc, from, to, limit, offset]
    seen,   \* ts it has been sent
    owed    \* ts that were in its window when it began, and still are stored

pagingVars == <<trail, walk, seen, owed>>

PagingInit ==
    /\ trail \in SUBSET TrailStamps
    /\ walk = [pc |-> "idle", from |-> Unbounded, to |-> Unbounded, limit |-> 1, offset |-> 0]
    /\ seen = {} /\ owed = {}

\* The half-open window [from, to).
Between(t, from, to) ==
    /\ from = Unbounded \/ t >= from
    /\ to = Unbounded \/ t < to

clampLimit(n)  == IF n < 1 THEN 1 ELSE IF n > MaxHistoryLimit THEN MaxHistoryLimit ELSE n
clampOffset(n) == IF n < 0 THEN 0 ELSE n

\* Mutant: oldest first.
RankAscending(t, rows) == Cardinality({u \in rows : u < t})

\* ORDER BY ts DESC.
Rank(t, rows) == Cardinality({u \in rows : u > t})

DeviceHistory(from, to, limit, offset) ==
    LET rows == {t \in trail : Between(t, from, to)} IN
    {t \in rows : /\ Rank(t, rows) >= clampOffset(offset)
                  /\ Rank(t, rows) < clampOffset(offset) + clampLimit(limit)}

StartWalk ==
    /\ walk.pc = "idle"
    /\ \E from, to \in TrailStamps \cup {Unbounded}, limit \in AskedLimits, first \in {-1, 0} :
        /\ walk' = [pc |-> "walking", from |-> from, to |-> to, limit |-> limit, offset |-> first]
        /\ owed' = {t \in trail : Between(t, from, to)}
    /\ UNCHANGED <<trail, seen>>

\* The caller goes on from what it got, and stops at an empty page.
GetPage ==
    /\ walk.pc = "walking"
    /\ LET page == DeviceHistory(walk.from, walk.to, walk.limit, walk.offset) IN
        /\ seen' = seen \cup page
        /\ walk' = [walk EXCEPT !.pc = IF page = {} THEN "done" ELSE "walking",
                                !.offset = clampOffset(@) + Cardinality(page)]
    /\ UNCHANGED <<trail, owed>>

FixArrives ==
    /\ \E t \in TrailStamps \ trail : trail' = trail \cup {t}
    /\ UNCHANGED <<walk, seen, owed>>

DropOldest ==
    /\ \E cutoff \in TrailStamps :
        /\ \E t \in trail : t < cutoff
        /\ trail' = {t \in trail : t >= cutoff}
        /\ owed' = {t \in owed : t >= cutoff}
    /\ UNCHANGED <<walk, seen>>

PagingNext == StartWalk \/ GetPage \/ FixArrives \/ DropOldest

PagingSpec == PagingInit /\ [][PagingNext]_pagingVars

-----------------------------------------------------------------------------

\* A walk has no gaps: when it ends, every fix that was in its window from its
\* first page to its last has been sent, although fixes arrived and months
\* were dropped between the pages.  Newest-first order is what makes it so:
\* arrivals only push later pages down, and drops take the far end
\* (internal/store/read.go:54-83).
WalkHasNoGaps == walk.pc = "done" => owed \subseteq seen

=============================================================================
