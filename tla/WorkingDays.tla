----------------------------- MODULE WorkingDays -----------------------------
(***************************************************************************)
(* MylibDate of python_utils/mylib_date.py: working days counted from a    *)
(* date.  A date is the number of its day, and day 0 is a Sunday; what the *)
(* two configurations list is a set of days each.                          *)
(***************************************************************************)
EXTENDS Integers, FiniteSets, FiniteSetsExt

CONSTANTS
    ConfigDays,     \* bound: the days that the configurations may list
    LastToday       \* bound: the last day on which the program runs

VARIABLES
    holidays,       \* holidaysDict
    workdays,       \* workdaysDict
    today           \* nowDateTime

vars == <<holidays, workdays, today>>

Init == holidays = {} /\ workdays = {} /\ today = 0

DeclareHoliday(d) ==
    /\ holidays' = holidays \cup {d}
    /\ UNCHANGED <<workdays, today>>

DeclareWorkday(d) ==
    /\ workdays' = workdays \cup {d}
    /\ UNCHANGED <<holidays, today>>

Midnight ==
    /\ today < LastToday
    /\ today' = today + 1
    /\ UNCHANGED <<holidays, workdays>>

Next ==
    \/ \E d \in ConfigDays : DeclareHoliday(d) \/ DeclareWorkday(d)
    \/ Midnight

Spec == Init /\ [][Next]_vars

------------------------------------------------------------------------------
Weekend(d) == d % 7 \in {0, 6}

\* A holiday is off, whatever else; a weekend is, unless it is made a workday.
IsWorkingDay(d) == d \notin holidays /\ (Weekend(d) => d \in workdays)

\* Faulty variant of Move: the loop leaves the last day behind.
MoveBehind(d, step, num) == d + step

\* The day moves on, unless the last working day was found.
Move(d, step, num) == IF num # 0 THEN d + step ELSE d

\* The loop that counts num working days from d on, in steps of 1 or -1.
RECURSIVE Count(_, _, _)
Count(d, step, num) ==
    LET rest == IF IsWorkingDay(d) THEN num - 1 ELSE num
    IN  IF num <= 0 THEN d ELSE Count(Move(d, step, rest), step, rest)

NextNumWorkingDay(d, num) == Count(d, 1, num)
PreNumWorkingDayNoToday(d, num) == Count(d - 1, -1, num)

GetLastWorkingDay == PreNumWorkingDayNoToday(today, 1)
GetNextWorkingDay == NextNumWorkingDay(today, IF IsWorkingDay(today) THEN 2 ELSE 1)

------------------------------------------------------------------------------
(* Properties.                                                              *)

WorkingIn(from, to) == {d \in from .. to : IsWorkingDay(d)}

\* Counting n working days from today, today included, ends on a working day that
\* is the n-th; counting back, today excluded, likewise; from there n + 1 forward
\* lead to today again, if it is one.  The next and the last working day are the
\* nearest after and before today, however holidays, weekends and the workdays
\* that replace them lie.
CountsWorkingDays ==
    /\ \A n \in 1 .. 4 :
          LET ahead == NextNumWorkingDay(today, n)
              back == PreNumWorkingDayNoToday(today, n)
          IN  /\ IsWorkingDay(ahead) /\ Cardinality(WorkingIn(today, ahead)) = n
              /\ IsWorkingDay(back) /\ Cardinality(WorkingIn(back, today - 1)) = n
              /\ IsWorkingDay(today) => NextNumWorkingDay(back, n + 1) = today
    /\ today < GetNextWorkingDay /\ WorkingIn(today + 1, GetNextWorkingDay) = {GetNextWorkingDay}
    /\ GetLastWorkingDay < today /\ WorkingIn(GetLastWorkingDay, today - 1) = {GetLastWorkingDay}
==============================================================================
