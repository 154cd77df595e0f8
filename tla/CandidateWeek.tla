--------------------------- MODULE CandidateWeek ---------------------------
(***************************************************************************)
(* apps/api/src/modules/wake-songs: the week a wake song request may be    *)
(* scheduled in, computed from the instant it was made, and the converse   *)
(* the administrators' list filters by: the instants whose requests belong *)
(* to a given week.                                                        *)
(*                                                                         *)
(* Instants are hours since 1970-01-01T00:00Z, a Thursday; days are dates  *)
(* of the Korean calendar, counted from the same date.                     *)
(***************************************************************************)
EXTENDS Integers

CONSTANTS Offset,       \* KOREA_OFFSET_MS in hours
          Horizon       \* bound: the last hour looked at

ASSUME WeekAssumption == Offset \in 0 .. 23 /\ Horizon \in Nat

VARIABLE createdAt      \* the instant a request is made

Midnight(day) == day * 24 - Offset
KoreanDay(t) == (t + Offset) \div 24

\* getUTCDay of the shifted instant: 0 is Sunday.
Weekday(day) == (day + 4) % 7

\* Slip: a Sunday counts as the first day of its week.
MutantDaysUntilNextMonday(day) == 8 - Weekday(day)

DaysUntilNextMonday(day) == IF Weekday(day) = 0 THEN 1 ELSE 8 - Weekday(day)

\* getWakeSongCandidateWeek
WeekStart(t) == Midnight(KoreanDay(t) + DaysUntilNextMonday(KoreanDay(t)))
WeekEnd(t) == WeekStart(t) + 7 * 24
StartDate(t) == KoreanDay(WeekStart(t))

\* candidateWeekCreatedAtRange
CreatedAtRange(day) == (Midnight(day) - 7 * 24) .. (Midnight(day) - 1)

\* schedule() accepts an instant of the candidate week.
MaySchedule(t, at) == WeekStart(t) <= at /\ at < WeekEnd(t)

WeekInit == createdAt \in 0 .. Horizon
WeekNext == createdAt < Horizon /\ createdAt' = createdAt + 1
WeekSpec == WeekInit /\ [][WeekNext]_createdAt

-----------------------------------------------------------------------------

WeekTypeOK == createdAt \in Nat

\* A request belongs to the first week, Monday to Sunday in Korea, that begins
\* after it was made: never to the running week, and never later than the next.
IsTheNextWeek ==
    /\ Weekday(StartDate(createdAt)) = 1
    /\ WeekStart(createdAt) = Midnight(StartDate(createdAt))
    /\ createdAt < WeekStart(createdAt)
    /\ WeekStart(createdAt) <= createdAt + 7 * 24

\* The list of a week shows exactly the requests that may be scheduled in it.
ListedUnderItsWeek ==
    \A day \in KoreanDay(createdAt) .. KoreanDay(createdAt) + 14 :
        Weekday(day) = 1 =>
            (createdAt \in CreatedAtRange(day) <=> MaySchedule(createdAt, Midnight(day)))

\* The week of a request and the list it is shown in agree.
WeekIsSound == IsTheNextWeek /\ ListedUnderItsWeek
=============================================================================
