----------------------------- MODULE JobSchedule -----------------------------
(***************************************************************************)
(* When a job is started: the schedule of a TJob, as parse_jobs fills it   *)
(* from the <schedule> element and TScheduler::schedule reads it, five     *)
(* times a second, for as long as the service runs.                        *)
(*                                                                         *)
(* A time is a number of minutes since midnight: set_next_time_run and     *)
(* set_duration add hours and minutes apart, with the carry between them,  *)
(* which is the same.  The elements that name days fill arrays that        *)
(* ready_to_run looks at with the fields of the current date, as they lie  *)
(* in memory: one array is read past its end into the next.                *)
(***************************************************************************)
EXTENDS Integers, Sequences

CONSTANTS
  DayLength,  \* minutes in a day (1440)
  Configs,    \* the <schedule> elements a job may have
  LastDay,    \* bound: the last day looked at
  Calendar,   \* the date of each day, as GetLocalTime gives it
  MaxReloads, \* bound: how many times the configuration is read again
  Skips       \* the scheduler may miss a minute (a suspended or late system)

Minutes == 0..DayLength - 1
Days    == 0..LastDay
Element == {"time", "period", "duration"}
Date    == [day : 1..31, dayofweek : 0..6, month : 1..12]

\* What an element that names days gives: the text of <month>, <day>, <weeks>
\* and <days>, as sets of words and numbers; beyond is what lies in memory
\* after the array of days, which is the end of the schedule.
Selection ==
  [kind : {"manual", "daily", "weekly", "by_day", "by_week"}, months : SUBSET STRING,
   days : SUBSET Nat, weeks : SUBSET Nat, week : SUBSET STRING, beyond : BOOLEAN]

\* A <schedule>: its values, the days it selects, and the order of its
\* elements.
ASSUME JobScheduleAssumption ==
  /\ DayLength \in Nat \ {0} /\ LastDay \in Nat /\ MaxReloads \in Nat
  /\ Skips \in BOOLEAN /\ Calendar \in [Days -> Date]
  /\ Configs \subseteq [start : Minutes, period : Nat, duration : Nat,
                        days : Selection, order : Seq(Element)]

VARIABLES
  conf,        \* the job's <schedule> element
  todo,        \* its elements not read yet
  day, now,    \* the local time
  start, end,  \* work.start_time, work.end_time
  next,        \* work.next_time
  period,      \* work.period
  wait,        \* work.wait_for_next_day
  running,     \* a task of the job is running
  ticked,      \* the scheduler has looked at the job in this minute
  runs, last,  \* history: starts of this day (up to 2), and the last one
  worked,      \* history: a task has been running on this day
  loaded,      \* history: the day the configuration was read
  reloads      \* how many times the configuration was read again

clock   == <<day, now>>
work    == <<start, end, next, period, wait>>
history == <<runs, last, worked, loaded>>
vars    == <<conf, todo, clock, work, running, ticked, history, reloads>>

TypeOK ==
  /\ conf \in Configs /\ todo \in Seq(Element)
  /\ day \in Days /\ now \in Minutes
  /\ start \in Minutes /\ end \in Minutes /\ next \in Minutes
  /\ period \in Nat /\ wait \in BOOLEAN
  /\ running \in BOOLEAN /\ ticked \in BOOLEAN
  /\ runs \in 0..2 /\ last \in Minutes /\ worked \in BOOLEAN
  /\ loaded \in Days /\ reloads \in 0..MaxReloads

\* init_schedule.
Init ==
  /\ conf \in Configs /\ todo = conf.order
  /\ day = 0 /\ now \in Minutes
  /\ start = 0 /\ end = DayLength - 1 /\ next = 0 /\ period = 0 /\ wait = FALSE
  /\ running = FALSE /\ ticked = FALSE
  /\ runs = 0 /\ last = 0 /\ worked = FALSE /\ loaded = 0 /\ reloads = 0

-----------------------------------------------------------------------------

\* str_week_names and str_month_names.
WeekNames  == <<"mon", "tue", "wen", "thu", "fri", "sat", "sun">>
MonthNames == <<"jan", "feb", "mar", "apr", "may", "jun", "jul", "aug", "sep", "oct",
                "nov", "dec">>

\* week_from_str and month_from_str: the indices set in an array of size bytes.
FromNames(names, words) == {i \in 0..Len(names) - 1 : names[i + 1] \in words}

\* days_from_str: numbers out of range are left out.
FromNumbers(numbers, size) == {v - 1 : v \in numbers \cap 1..size}

\* init_daily, init_month_daily and init_month_weekly refuse an empty array;
\* parse_jobs tests a number that is still 0 before it calls init_weekly.
Scheduled(s) ==
  \/ s.kind = "daily"
  \/ /\ s.kind = "by_day"
     /\ FromNumbers(s.days, 31) # {} /\ FromNames(MonthNames, s.months) # {}
  \/ /\ s.kind = "by_week"
     /\ FromNumbers(s.weeks, 5) # {} /\ FromNames(WeekNames, s.week) # {}
     /\ FromNames(MonthNames, s.months) # {}

\* What follows the array of months, at offset i: the days, or the weeks of
\* the month (5 bytes) and the week (7).
Variant(s, i) ==
  \/ /\ s.kind = "by_day"
     /\ i \in FromNumbers(s.days, 31) \/ (i = 31 /\ s.beyond)
  \/ /\ s.kind = "by_week"
     /\ i \in FromNumbers(s.weeks, 5) \/ (i - 5) \in FromNames(WeekNames, s.week)

\* month[i], of 12 bytes.
Month(s, i) == IF i < 12 THEN i \in FromNames(MonthNames, s.months) ELSE Variant(s, i - 12)

\* The first switch of ready_to_run, on the date d.
RunsOn(s, d) ==
  \/ s.kind = "daily"
  \/ s.kind = "weekly" /\ d.dayofweek \in FromNames(WeekNames, s.week)
  \/ s.kind = "by_day" /\ Month(s, d.day) /\ Variant(s, d.day)
  \/ /\ s.kind = "by_week" /\ Month(s, d.day)
     /\ Variant(s, (d.day \div 7) + 1) /\ Variant(s, 5 + d.dayofweek)

\* The job may run on this day.
Today == Scheduled(conf.days) /\ RunsOn(conf.days, Calendar[day])

\* Mutant: a next time past the end is kept.
SetNextPastEnd(t, s, e, p, n, w) == next' = (IF p = 0 THEN n ELSE t + p) /\ wait' = w

\* set_next_time_run at t, with start s, end e, period p, next n, wait w: one
\* period later, or, past the end, at the start of the next day.
SetNext(t, s, e, p, n, w) ==
  IF p # 0 /\ t + p > e THEN next' = s /\ wait' = TRUE
                        ELSE next' = (IF p = 0 THEN n ELSE t + p) /\ wait' = w

\* set_time, set_period and set_duration: each moves next_time with the values
\* the others have set so far.
SetTime(t) ==
  /\ start' = t /\ SetNext(t, t, end, period, next, wait)
  /\ UNCHANGED <<end, period>>

SetPeriod(p) ==
  /\ period' = p /\ SetNext(now, start, end, p, next, wait)
  /\ UNCHANGED <<start, end>>

SetDuration(d) ==
  /\ end' = IF start + d < DayLength THEN start + d ELSE DayLength - 1
  /\ SetNext(now, start, end', period, next, wait)
  /\ UNCHANGED <<start, period>>

\* The next element of <schedule>; values of 0 are skipped by parse_jobs.
Configure ==
  /\ todo # <<>> /\ todo' = Tail(todo)
  /\ \/ Head(todo) = "time" /\ SetTime(conf.start)
     \/ Head(todo) = "period" /\ conf.period # 0 /\ SetPeriod(conf.period)
     \/ Head(todo) = "duration" /\ conf.duration # 0 /\ SetDuration(conf.duration)
     \/ /\ Head(todo) = "period" => conf.period = 0
        /\ Head(todo) = "duration" => conf.duration = 0
        /\ Head(todo) # "time" /\ UNCHANGED work
  /\ UNCHANGED <<conf, clock, running, ticked, history, reloads>>

\* nex_day_init: in the first minute of the day, if the job waits for it.
DayNext == IF now = 0 /\ wait THEN start ELSE next

\* Mutant: the new day does not end the wait.
DayWaitAlways == wait

DayWait == wait /\ now # 0

\* Mutant: the next time is not looked at.
ReadyAnyTime ==
  /\ Today
  /\ start <= now /\ now <= end

Ready ==
  /\ Today
  /\ start <= now /\ now <= end /\ DayNext <= now

\* Mutant: a job without a period does not wait.
StartJobAgain ==
  /\ todo = <<>> /\ ~DayWait /\ ~running /\ Ready
  /\ SetNext(now, start, end, period, DayNext, DayWait)
  /\ running' = TRUE /\ ticked' = TRUE
  /\ runs' = (IF runs < 2 THEN runs + 1 ELSE 2) /\ last' = now /\ worked' = TRUE
  /\ UNCHANGED <<conf, todo, clock, start, end, period, loaded, reloads>>

\* schedule starts a task: ready_to_run sets the next time; without a period
\* the job waits for the next day.
StartJob ==
  /\ todo = <<>> /\ ~DayWait /\ ~running /\ Ready
  /\ \/ period # 0 /\ SetNext(now, start, end, period, DayNext, DayWait)
     \/ period = 0 /\ next' = DayNext /\ wait' = TRUE
  /\ running' = TRUE /\ ticked' = TRUE
  /\ runs' = (IF runs < 2 THEN runs + 1 ELSE 2) /\ last' = now /\ worked' = TRUE
  /\ UNCHANGED <<conf, todo, clock, start, end, period, loaded, reloads>>

\* schedule finds the job still running: check_next_time_to_run.
StillRunning ==
  /\ todo = <<>> /\ ~DayWait /\ running /\ ticked' = TRUE
  /\ \/ now = DayNext /\ SetNext(now, start, end, period, DayNext, DayWait)
     \/ now # DayNext /\ next' = DayNext /\ wait' = DayWait
  /\ UNCHANGED <<conf, todo, clock, start, end, period, running, history, reloads>>

\* schedule has nothing to do for the job (a job whose days were refused is
\* never started, and Ready is false for it).
NotReady ==
  /\ todo = <<>> /\ (DayWait \/ (~running /\ ~Ready))
  /\ next' = DayNext /\ wait' = DayWait /\ ticked' = TRUE
  /\ UNCHANGED <<conf, todo, clock, start, end, period, running, history, reloads>>

\* The task ends.
TaskEnds ==
  /\ running /\ running' = FALSE
  /\ UNCHANGED <<conf, todo, clock, work, ticked, history, reloads>>

\* The next minute; the scheduler looks at its jobs several times in each.
ClockTick ==
  /\ todo = <<>> /\ (ticked \/ Skips)
  /\ ticked' = FALSE
  /\ \/ now < DayLength - 1 /\ now' = now + 1 /\ UNCHANGED <<day, history>>
     \/ /\ now = DayLength - 1 /\ day < LastDay
        /\ now' = 0 /\ day' = day + 1
        /\ runs' = 0 /\ last' = 0 /\ worked' = running /\ UNCHANGED loaded
  /\ UNCHANGED <<conf, todo, work, running, reloads>>

\* The updater deletes the tasks and the jobs and reads the configuration.
Reload ==
  /\ reloads < MaxReloads /\ reloads' = reloads + 1
  /\ todo' = conf.order /\ running' = FALSE /\ ticked' = FALSE
  /\ start' = 0 /\ end' = DayLength - 1 /\ next' = 0 /\ period' = 0 /\ wait' = FALSE
  /\ runs' = 0 /\ last' = 0 /\ worked' = FALSE /\ loaded' = day
  /\ UNCHANGED <<conf, clock>>

Over == day = LastDay /\ now = DayLength - 1 /\ UNCHANGED vars

Next ==
  \/ Configure \/ StartJob \/ StillRunning \/ NotReady \/ TaskEnds \/ ClockTick
  \/ Reload \/ Over

Spec == Init /\ [][Next]_vars

-----------------------------------------------------------------------------
(* Properties.                                                             *)

\* A job without a period that does not start at midnight is started once a
\* day (job.cpp 379), however long its task runs, past midnight included.
OnceADay == period = 0 /\ start > 0 => runs < 2

\* Two starts of a job with a period are a period apart, or on two days
\* (469-517), although next_time is also moved while the task runs and the
\* window ends before midnight.
Spaced == [][running' /\ ~running /\ runs > 0 /\ start > 0 => now - last >= period]_vars

\* What parse_jobs was given: the duration is counted from a start already
\* known.
StartKnown ==
  \A i, j \in DOMAIN conf.order :
    conf.order[i] = "time" /\ conf.order[j] = "duration" => i < j

\* No selected day passes without the job: on a day it selects, after the day
\* the configuration was read, the job is started or is still running, as
\* long as the scheduler looks at it in every minute.
NoDayMissed ==
  [][day' # day /\ Today /\ loaded < day /\ StartKnown /\ ~Skips => worked]_vars

-----------------------------------------------------------------------------
(* Why: after a start the job waits for the next day, or its next time is a *)
(* period later; the wait ends at midnight, before any start of the day.    *)

Started  == runs > 0 => todo = <<>> /\ start <= last /\ last <= now
Waits    == period = 0 /\ start > 0 /\ runs > 0 => wait /\ runs = 1
NextLate == period > 0 /\ start > 0 /\ runs > 0 => wait \/ next >= last + period

ScheduleInv == Started /\ Waits /\ NextLate

-----------------------------------------------------------------------------
(* What a comment of the code says.                                        *)

\* What a <schedule> says of a date: the week has its names in WeekNames, the
\* weeks of a month begin on its days 1, 8, 15, 22 and 29.
Named(s, d) ==
  LET weekday == IF d.dayofweek = 0 THEN "sun" ELSE WeekNames[d.dayofweek]
      month   == MonthNames[d.month] \in s.months
  IN  \/ s.kind = "daily"
      \/ s.kind = "weekly" /\ weekday \in s.week
      \/ s.kind = "by_day" /\ month /\ d.day \in s.days
      \/ /\ s.kind = "by_week" /\ month /\ weekday \in s.week
         /\ (d.day - 1) \div 7 + 1 \in s.weeks

\* "first - test current day" (job.cpp 332): a job is started only on a day
\* its <schedule> names.
TestsCurrentDay == runs > 0 => Named(conf.days, Calendar[day])
=============================================================================
