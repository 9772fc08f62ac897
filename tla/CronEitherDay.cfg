\* Cron expressions with days of the month and of the week.
CONSTANTS
    Horizon = 39
    Month <- MCMonth
    Day <- MCDay
    Weekday <- MCWeekday
    Hour <- MCHour
    Minute <- MCMinute
    NextMonth <- MCNextMonth
    NextDay <- MCNextDay
    NextHour <- MCNextHour
    Bounds <- MCBounds
    MaxStart = 9
    MaxIterations = 8
SPECIFICATION CronSpec
CHECK_DEADLOCK FALSE
INVARIANT EitherDayAccepted
