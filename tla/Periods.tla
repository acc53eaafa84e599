-------------------------------- MODULE Periods --------------------------------
(***************************************************************************)
(* The ranges a period comparison compares: normalizeComparisonInput() of   *)
(* analytics/src/index.ts and its arithmetic on bank dates.                 *)
(*                                                                         *)
(* A date is a day number, as the code's instants are multiples of a day;   *)
(* year, month and day are parts of it.  Days run from the first day of     *)
(* FirstYear to the last of LastYear.                                       *)
(***************************************************************************)
EXTENDS Integers, FiniteSets, FiniteSetsExt

CONSTANTS
    FirstYear, LastYear,
    Froms,      \* first days requested, as <<year, month, day>>
    Lengths,    \* numbers of days requested
    Customs,    \* explicit ranges requested, as <<from, number of days>>
    MaxDays,    \* 367 in the code
    None

Mode == {"PREVIOUS_PERIOD", "PREVIOUS_MONTH", "PREVIOUS_YEAR", "CUSTOM"}

-----------------------------------------------------------------------------
(* The calendar, as Date has it.                                            *)

Leap(year) == year % 4 = 0 /\ (year % 100 # 0 \/ year % 400 = 0)
DaysIn(year, month) ==
    CASE month \in {4, 6, 9, 11} -> 30
      [] month = 2 -> IF Leap(year) THEN 29 ELSE 28
      [] OTHER -> 31

\* Months count from January of the year 0, days from the first of FirstYear.
LastDay(m) == DaysIn(m \div 12, (m % 12) + 1)

\* The number of the first day of a month.
FirstDay(m) ==
    LET year == m \div 12
        before == <<0, 31, 59, 90, 120, 151, 181, 212, 243, 273, 304, 334>>
    IN 1 + 365 * (year - FirstYear) + Cardinality({y \in FirstYear..(year - 1) : Leap(y)})
         + before[(m % 12) + 1] + (IF m % 12 > 1 /\ Leap(year) THEN 1 ELSE 0)

Days == 1..(FirstDay(12 * LastYear + 11) + 30)
MonthOf(d) ==
    CHOOSE m \in 12 * FirstYear + (d - 1) \div 31 .. 12 * FirstYear + d \div 28 :
      d \in FirstDay(m)..(FirstDay(m) + LastDay(m) - 1)
DayOf(d) == d - FirstDay(MonthOf(d)) + 1

\* Date.UTC(): a day past the end of its month is one of the next month.
UTC(m, day) == FirstDay(m) + day - 1
DayNumber(date) == UTC(12 * date[1] + date[2] - 1, date[3])

-----------------------------------------------------------------------------
(* The arithmetic of the code.                                              *)

dayCount(from, to) == to - from + 1
addDays(date, days) == date + days

\* Mutant: a day the month does not have.
MutClamped(day, last) == day

Clamped(day, last) == Min({day, last})

shiftMonth(date, months) ==
    LET target == MonthOf(date) + months IN UTC(target, Clamped(DayOf(date), LastDay(target)))
shiftYear(date, years) ==
    LET target == MonthOf(date) + 12 * years IN UTC(target, Clamped(DayOf(date), LastDay(target)))

Span(from, to) == [from |-> from, to |-> to]

Calculated(r) ==
    CASE r.mode = "PREVIOUS_PERIOD" ->
           LET to == addDays(r.from, -1)
           IN Span(addDays(to, -(dayCount(r.from, r.to) - 1)), to)
      [] r.mode = "PREVIOUS_MONTH" -> Span(shiftMonth(r.from, -1), shiftMonth(r.to, -1))
      [] r.mode = "PREVIOUS_YEAR" -> Span(shiftYear(r.from, -1), shiftYear(r.to, -1))
      [] r.mode = "CUSTOM" -> r.custom

Valid(range) == range.from <= range.to /\ dayCount(range.from, range.to) <= MaxDays

Trimmed(range, days) == Span(range.from, addDays(range.from, days - 1))

\* The answer is None where the code throws.
Normalized(r) ==
    LET compared == Calculated(r)
        days == Min({dayCount(r.from, r.to), dayCount(compared.from, compared.to)})
    IN IF ~Valid(Span(r.from, r.to)) THEN None
       ELSE IF (r.mode = "CUSTOM") = (r.custom = None) THEN None
       ELSE IF ~Valid(compared) THEN None
       ELSE IF r.sameElapsed
            THEN [current |-> Trimmed(r, days), comparison |-> Trimmed(compared, days)]
            ELSE [current |-> Span(r.from, r.to), comparison |-> compared]

-----------------------------------------------------------------------------
VARIABLES request, ranges, answered
vars == <<request, ranges, answered>>

Explicit == {None} \cup {Span(DayNumber(c[1]), DayNumber(c[1]) + c[2] - 1) : c \in Customs}

\* Requests and ranges are of days.
TypeOK ==
    /\ request.mode \in Mode /\ request.sameElapsed \in BOOLEAN
    /\ {request.from, request.to} \subseteq Days
    /\ ranges # None =>
         {ranges.current.from, ranges.current.to,
          ranges.comparison.from, ranges.comparison.to} \subseteq Days

Init ==
    /\ \E f \in Froms, n \in Lengths, mode \in Mode, same \in BOOLEAN, custom \in Explicit :
         request = [from |-> DayNumber(f), to |-> DayNumber(f) + n - 1, mode |-> mode,
                    sameElapsed |-> same, custom |-> custom]
    /\ ranges = None /\ answered = FALSE

\* normalizeComparisonInput().
Normalize ==
    /\ ~answered
    /\ answered' = TRUE /\ ranges' = Normalized(request)
    /\ UNCHANGED request

Next == Normalize
Spec == Init /\ [][Next]_vars

-----------------------------------------------------------------------------
(* Properties.                                                              *)

\* docs/accounting-policy.md: the previous period is equal and ends the day before; the
\* month and year modes shift each boundary to the day of the same number, or to the
\* last one the month has; the same-elapsed mode trims both ranges to the shorter one's
\* length from their first days.  No range is longer than the maximum, a calculated one
\* ends before the current one does, and a valid request of at most a year that needs no
\* explicit range is never refused.
PeriodsAreComparable ==
    LET days == dayCount(request.from, request.to)
        current == ranges.current
        compared == ranges.comparison
        length(r) == dayCount(r.from, r.to)
        Shifted(old, new, months) ==
          /\ MonthOf(new) = MonthOf(old) - months
          /\ DayOf(new) <= DayOf(old)
          /\ DayOf(new) < DayOf(old) => MonthOf(new + 1) # MonthOf(new)
    IN answered =>
         /\ ranges = None =>
              \/ days \notin 1..(MaxDays - 1)
              \/ request.mode = "CUSTOM" \/ request.custom # None
         /\ ranges # None =>
              /\ current.from = request.from /\ current.to \in current.from..request.to
              /\ length(current) \in 1..MaxDays /\ length(compared) \in 1..MaxDays
              /\ request.mode # "CUSTOM" => compared.from < current.from
              /\ request.mode = "CUSTOM" =>
                   compared.from = request.custom.from /\ compared.to <= request.custom.to
              /\ request.mode = "PREVIOUS_PERIOD" =>
                   /\ compared.to + 1 = current.from
                   /\ length(compared) = days /\ length(current) = days
              /\ request.mode = "PREVIOUS_MONTH" => Shifted(current.from, compared.from, 1)
              /\ request.mode = "PREVIOUS_YEAR" => Shifted(current.from, compared.from, 12)
              /\ ~request.sameElapsed =>
                   /\ current.to = request.to
                   /\ request.mode = "PREVIOUS_MONTH" => Shifted(current.to, compared.to, 1)
                   /\ request.mode = "PREVIOUS_YEAR" => Shifted(current.to, compared.to, 12)
              /\ request.sameElapsed => length(current) = length(compared)
=============================================================================
