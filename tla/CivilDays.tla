----------------------------- MODULE CivilDays -----------------------------
(* The date of a push.  The server writes a crossing's instant as a UTC    *)
(* calendar date in a push and as seconds since 1970 on the crossings      *)
(* route; PushPayload turns the date into a day count, and a crossing is   *)
(* one row only if the two agree.  The state is a calendar that counts     *)
(* days from 1 January 1970.  The time of day adds the same seconds to     *)
(* both and is left out.                                                   *)
EXTENDS Integers

CONSTANT LastYear   \* bound on the years counted

ASSUME CivilAssumption == LastYear \in Nat

VARIABLES year, month, dayOfMonth, elapsed

civilVars == <<year, month, dayOfMonth, elapsed>>

\* The Gregorian calendar of the server's time.Format.
MonthLength ==
    <<31, IF year % 4 = 0 /\ (year % 100 = 0 => year % 400 = 0) THEN 29 ELSE 28,
      31, 30, 31, 30, 31, 31, 30, 31, 30, 31>>[month]

CivilInit == year = 1970 /\ month = 1 /\ dayOfMonth = 1 /\ elapsed = 0

NextDay ==
    /\ dayOfMonth < MonthLength
    /\ dayOfMonth' = dayOfMonth + 1 /\ elapsed' = elapsed + 1
    /\ UNCHANGED <<year, month>>

NextMonth ==
    /\ dayOfMonth = MonthLength /\ (month < 12 \/ year < LastYear)
    /\ dayOfMonth' = 1 /\ elapsed' = elapsed + 1
    /\ month' = (month % 12) + 1
    /\ year' = IF month = 12 THEN year + 1 ELSE year

CivilNext == NextDay \/ NextMonth

CivilSpec == CivilInit /\ [][CivilNext]_civilVars

-----------------------------------------------------------------------------
(* PushPayload.                                                            *)

\* Mutant: the year begins in January, so the leap day falls inside it.
daysFromCivilJanuary(y, m, d) ==
    LET era == y \div 400
        yoe == y - era * 400
        mp  == (m + 9) % 12
        doy == (153 * mp + 2) \div 5 + d - 1
    IN  era * 146097 + yoe * 365 + yoe \div 4 - yoe \div 100 + doy - 719468

\* Days since 1970 of a date; the year begins in March.
daysFromCivil(y, m, d) ==
    LET yy  == IF m <= 2 THEN y - 1 ELSE y
        era == yy \div 400
        yoe == yy - era * 400
        mp  == (m + 9) % 12
        doy == (153 * mp + 2) \div 5 + d - 1
    IN  era * 146097 + yoe * 365 + yoe \div 4 - yoe \div 100 + doy - 719468

isLeap(y) == (y % 4 = 0 /\ y % 100 # 0) \/ y % 400 = 0

daysInMonth(y, m) ==
    CASE m \in {1, 3, 5, 7, 8, 10, 12} -> 31
      [] m \in {4, 6, 9, 11}           -> 30
      [] OTHER                         -> IF isLeap(y) THEN 29 ELSE 28

Refused == -1

\* parseUtcCalendarSeconds, in days; a date that does not exist is refused.
parseUtcCalendar(y, m, d) ==
    IF m \in 1 .. 12 /\ d \in 1 .. 31 /\ d <= daysInMonth(y, m) THEN daysFromCivil(y, m, d) ELSE Refused

-----------------------------------------------------------------------------

\* The date of a push counts exactly the days the route counts, over leap
\* years and centuries, and a date the month does not have is refused: one
\* crossing is one row (alert/PushPayload.kt:63-113, alert/Crossing.kt:41-44).
PushAndRouteAgree ==
    \A d \in 0 .. 32 : parseUtcCalendar(year, month, d) =
        IF d \in 1 .. MonthLength THEN elapsed + d - dayOfMonth ELSE Refused
=============================================================================
