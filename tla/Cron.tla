--------------------------------- MODULE Cron ---------------------------------
(* era/core/cron.py: a five-field cron expression is parsed field by field    *)
(* into sets of allowed values, and the next run is searched from the minute  *)
(* after the given one, leaping over a month, a day or an hour that does not  *)
(* match.  Instants are minutes 0 .. Horizon; the calendar is a constant.     *)
EXTENDS Integers, Sequences, FiniteSets

CONSTANTS
    Horizon,                                   \* the last minute datetime can hold
    Month, Day, Weekday, Hour, Minute,         \* what datetime says of a minute
    NextMonth, NextDay, NextHour,              \* first minute of the next one (Horizon + 1: none)
    Bounds,                                    \* the range of each of the five fields
    MaxStart,                                  \* bound: latest minute a search starts from
    MaxIterations                              \* max_iterations of next_after

Instants == 0 .. Horizon

\* Next leaps forward from t to a later minute, and property P keeps its value
\* until there.
Leaps(Next, P) ==
    \A t \in Instants :
        /\ Next[t] \in t + 1 .. Horizon + 1
        /\ \A u \in t .. Next[t] - 1 : P[u] = P[t]

ASSUME CalendarAssumption ==
    /\ Horizon \in Nat /\ MaxIterations \in Nat /\ MaxStart \in Instants
    /\ \A P \in {Month, Day, Weekday, Hour, Minute} : P \in [Instants -> Nat]
    /\ \A N \in {NextMonth, NextDay, NextHour} : N \in [Instants -> Nat]
    /\ Leaps(NextMonth, Month) /\ Leaps(NextDay, Day) /\ Leaps(NextDay, Weekday) /\ Leaps(NextHour, Hour)
    /\ Bounds \in [1 .. 5 -> [lo : Nat, hi : Nat]]

VARIABLES
    fields,      \* the sets parsed so far, in the order __init__ reads them
    from,        \* the minute of from_dt
    dt,          \* the candidate
    iterations,
    cronPhase    \* parsing, searching, found, refused (CronError), exhausted, overrun (year 10000)

cronVars == <<fields, from, dt, iterations, cronPhase>>

-----------------------------------------------------------------------------
\* One comma-separated element: a star, a range or a number, with a step.
\* A number's step is read, checked and without effect.
Elements(b) == [start : b.lo - 1 .. b.hi + 1, end : b.lo - 1 .. b.hi + 1, step : 0 .. 2]

ElementValid(e, b) == e.step > 0 /\ b.lo <= e.start /\ e.end <= b.hi /\ e.start <= e.end

\* range(start, end + 1, step)
Allowed(e) == {v \in e.start .. e.end : (v - e.start) % e.step = 0}

\* CronSchedule.__init__: the fields in order; in the last, the day of the
\* week, the value after Saturday is Sunday again.
Normalized(n, allowed) ==
    IF n = 5 THEN {IF v = Bounds[5].hi THEN Bounds[5].lo ELSE v : v \in allowed} ELSE allowed

ParseField ==
    /\ cronPhase = "parsing" /\ Len(fields) < 5
    /\ LET n == Len(fields) + 1 IN
       \E e, f \in Elements(Bounds[n]) :
          /\ ElementValid(e, Bounds[n]) /\ ElementValid(f, Bounds[n])
          /\ fields' = Append(fields, Normalized(n, Allowed(e) \cup Allowed(f)))
    /\ UNCHANGED <<from, dt, iterations, cronPhase>>

\* An element out of bounds, a step of zero, a reversed range.
RefuseField ==
    /\ cronPhase = "parsing" /\ Len(fields) < 5
    /\ \E e \in Elements(Bounds[Len(fields) + 1]) : ~ElementValid(e, Bounds[Len(fields) + 1])
    /\ cronPhase' = "refused"
    /\ UNCHANGED <<fields, from, dt, iterations>>

\* next_after begins at the next minute boundary.
StartSearch ==
    /\ cronPhase = "parsing" /\ Len(fields) = 5
    /\ from' \in 0 .. MaxStart /\ dt' = from' + 1
    /\ cronPhase' = "searching"
    /\ UNCHANGED <<fields, iterations>>

MonthFits(t) == Month[t] \in fields[4]
\* The code asks for both, whatever stars the expression had.
DayFits(t) == Day[t] \in fields[3] /\ Weekday[t] \in fields[5]
HourFits(t) == Hour[t] \in fields[2]
MinuteFits(t) == Minute[t] \in fields[1]
Matches(t) == MonthFits(t) /\ DayFits(t) /\ HourFits(t) /\ MinuteFits(t)

\* One turn of the loop.  datetime raises when it is moved past its last minute.
Turn ==
    /\ cronPhase = "searching" /\ dt \in Instants /\ iterations < MaxIterations
    /\ iterations' = iterations + 1
    /\ UNCHANGED <<fields, from>>

SkipMonth == Turn /\ ~MonthFits(dt) /\ dt' = NextMonth[dt] /\ UNCHANGED cronPhase

SkipDay == Turn /\ MonthFits(dt) /\ ~DayFits(dt) /\ dt' = NextDay[dt] /\ UNCHANGED cronPhase

\* A mutant: the hour is left without going back to its first minute.
SkipHour_KeepsMinute ==
    /\ Turn /\ MonthFits(dt) /\ DayFits(dt) /\ ~HourFits(dt)
    /\ dt' = dt + NextHour[0] /\ UNCHANGED cronPhase

SkipHour == Turn /\ MonthFits(dt) /\ DayFits(dt) /\ ~HourFits(dt) /\ dt' = NextHour[dt] /\ UNCHANGED cronPhase

SkipMinute ==
    /\ Turn /\ MonthFits(dt) /\ DayFits(dt) /\ HourFits(dt) /\ ~MinuteFits(dt)
    /\ dt' = dt + 1 /\ UNCHANGED cronPhase

Found == Turn /\ Matches(dt) /\ cronPhase' = "found" /\ UNCHANGED dt

Exhausted ==
    /\ cronPhase = "searching" /\ dt \in Instants /\ iterations = MaxIterations
    /\ cronPhase' = "exhausted" /\ UNCHANGED <<fields, from, dt, iterations>>

Overrun ==
    /\ cronPhase = "searching" /\ dt \notin Instants
    /\ cronPhase' = "overrun" /\ UNCHANGED <<fields, from, dt, iterations>>

CronInit == fields = <<>> /\ from = 0 /\ dt = 0 /\ iterations = 0 /\ cronPhase = "parsing"

CronNext ==
    \/ ParseField \/ RefuseField \/ StartSearch
    \/ SkipMonth \/ SkipDay \/ SkipHour \/ SkipMinute \/ Found \/ Exhausted \/ Overrun

CronSpec == CronInit /\ [][CronNext]_cronVars

-----------------------------------------------------------------------------
\* No matching minute lies between the given one and the candidate.
NonePassed == \A t \in Instants : from < t /\ t < dt => ~Matches(t)

\* next_after returns the least minute after from_dt that matches all five
\* fields (the day of the month and the day of the week both), whatever months,
\* days and hours it leapt over; and when it runs off the end of the calendar
\* instead, no later minute matches.
NextIsLeast ==
    /\ cronPhase = "found" => dt > from /\ Matches(dt) /\ NonePassed
    /\ cronPhase = "overrun" => \A t \in Instants : t > from => ~Matches(t)

\* A field that allows less than a star does.
Specified(n) == fields[n] # Normalized(n, Bounds[n].lo .. Bounds[n].hi)

\* "if both DOM and DOW are specified (not '*'), either matching is accepted.
\* Otherwise, both must match." (cron.py:145)
DayFitsAsStated(t) ==
    IF Specified(3) /\ Specified(5) THEN Day[t] \in fields[3] \/ Weekday[t] \in fields[5] ELSE DayFits(t)

\* The next run is not later than the first minute that matches by the rule the
\* comment in next_after states for days of the month and of the week.
EitherDayAccepted ==
    cronPhase = "found" =>
        \A t \in Instants : from < t /\ t < dt => ~(MonthFits(t) /\ DayFitsAsStated(t) /\ HourFits(t) /\ MinuteFits(t))
=============================================================================
