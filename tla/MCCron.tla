------------------------------- MODULE MCCron -------------------------------
(* A small calendar for the calculation of the next cron run.               *)
EXTENDS Cron

\* A calendar of two years of months of two and of three days, weeks of two
\* days, and days of two hours of two minutes.
DayIn == <<1, 2, 1, 2, 3>>
MonthIn == <<1, 1, 2, 2, 2>>
OnDay(t) == ((t \div 4) % 5) + 1
Minutes == 0 .. 39
MCMonth == [t \in Minutes |-> MonthIn[OnDay(t)]]
MCDay == [t \in Minutes |-> DayIn[OnDay(t)]]
MCWeekday == [t \in Minutes |-> (t \div 4) % 2]
MCHour == [t \in Minutes |-> (t \div 2) % 2]
MCMinute == [t \in Minutes |-> t % 2]
MCNextHour == [t \in Minutes |-> ((t \div 2) + 1) * 2]
MCNextDay == [t \in Minutes |-> ((t \div 4) + 1) * 4]
MCNextMonth == [t \in Minutes |->
                   CHOOSE u \in t + 1 .. 40 :
                       /\ u = 40 \/ MCMonth[u] # MCMonth[t]
                       /\ \A v \in t + 1 .. u - 1 : MCMonth[v] = MCMonth[t]]
MCBounds == <<[lo |-> 0, hi |-> 1], [lo |-> 0, hi |-> 1], [lo |-> 1, hi |-> 3],
              [lo |-> 1, hi |-> 2], [lo |-> 0, hi |-> 2]>>
=============================================================================
