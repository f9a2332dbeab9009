------------------------- MODULE JobScheduleProofs -------------------------
(* Proofs about JobSchedule, for every length of the day and every set of   *)
(* <schedule> elements.                                                     *)
EXTENDS JobSchedule, TLAPS

\* A next time is a time of the day: set_next_time_run stays in the window.
LEMMA SetNextType ==
  ASSUME NEW t \in Minutes, NEW s \in Minutes, NEW e \in Minutes, NEW p \in Nat,
         NEW n \in Minutes, NEW w \in BOOLEAN, SetNext(t, s, e, p, n, w)
  PROVE  next' \in Minutes /\ wait' \in BOOLEAN
<1>1. CASE p # 0 /\ t + p > e
  BY <1>1 DEF SetNext
<1>2. CASE ~(p # 0 /\ t + p > e)
  <2>1. next' = (IF p = 0 THEN n ELSE t + p) /\ wait' = w
    BY <1>2 DEF SetNext
  <2>2. next' \in Minutes
    BY <1>2, <2>1, JobScheduleAssumption DEF Minutes, JobScheduleAssumption
  <2> QED BY <2>1, <2>2
<1> QED BY <1>1, <1>2

\* The fields of a <schedule>.
LEMMA ConfigFields ==
  ASSUME NEW c \in Configs
  PROVE  /\ c.start \in Minutes /\ c.period \in Nat /\ c.duration \in Nat
         /\ c.order \in Seq(Element)
<1> DEFINE E == Seq(Element)
<1>1. c \in [start : Minutes, period : Nat, duration : Nat, days : Selection, order : E]
  BY JobScheduleAssumption DEF JobScheduleAssumption
<1> HIDE DEF E
<1>2. c.start \in Minutes /\ c.period \in Nat /\ c.duration \in Nat /\ c.order \in E
  BY <1>1
<1> QED BY <1>2 DEF E

LEMMA DayNextType ==
  ASSUME TypeOK
  PROVE  DayNext \in Minutes /\ DayWait \in BOOLEAN
  BY DEF TypeOK, DayNext, DayWait

\* The type invariant is inductive.
LEMMA TypeStep == TypeOK /\ [Next]_vars => TypeOK'
<1> SUFFICES ASSUME TypeOK, [Next]_vars PROVE TypeOK'
  OBVIOUS
<1>0. DayNext \in Minutes /\ DayWait \in BOOLEAN
  BY DayNextType
<1>1. CASE Configure
  <2>1. Head(todo) \in Element /\ todo' \in Seq(Element)
    BY <1>1 DEF Configure, TypeOK
  <2>2. conf.start \in Minutes /\ conf.period \in Nat /\ conf.duration \in Nat
    BY ConfigFields DEF TypeOK
  <2>3. start' \in Minutes /\ end' \in Minutes /\ period' \in Nat
    BY <1>1, <2>2, JobScheduleAssumption DEF Configure, SetTime, SetPeriod, SetDuration,
        TypeOK, Minutes, work, JobScheduleAssumption
  <2>4. next' \in Minutes /\ wait' \in BOOLEAN
    <3>1. CASE UNCHANGED work
      BY <3>1 DEF work, TypeOK
    <3>2. CASE SetNext(conf.start, conf.start, end, period, next, wait)
      BY <3>2, <2>2, SetNextType DEF TypeOK
    <3>3. CASE SetNext(now, start, end, conf.period, next, wait)
      BY <3>3, <2>2, SetNextType DEF TypeOK
    <3>4. CASE SetNext(now, start, end', period, next, wait)
      BY <3>4, <2>3, SetNextType DEF TypeOK
    <3> QED BY <1>1, <3>1, <3>2, <3>3, <3>4 DEF Configure, SetTime, SetPeriod, SetDuration
  <2>5. UNCHANGED <<conf, day, now, running, ticked, runs, last, worked, loaded, reloads>>
    BY <1>1 DEF Configure, clock, history
  <2> QED BY <2>1, <2>3, <2>4, <2>5 DEF TypeOK
<1>2. CASE StartJob
  <2>1. next' \in Minutes /\ wait' \in BOOLEAN
    BY <1>2, <1>0, SetNextType DEF StartJob, TypeOK
  <2> QED BY <1>2, <2>1 DEF StartJob, TypeOK, clock
<1>3. CASE StillRunning
  <2>1. next' \in Minutes /\ wait' \in BOOLEAN
    BY <1>3, <1>0, SetNextType DEF StillRunning, TypeOK
  <2> QED BY <1>3, <2>1 DEF StillRunning, TypeOK, clock, history
<1>4. CASE NotReady
  BY <1>4, <1>0 DEF NotReady, TypeOK, clock, history
<1>5. CASE TaskEnds
  BY <1>5 DEF TaskEnds, TypeOK, clock, work, history
<1>6. CASE ClockTick
  <2>1. now' \in Minutes /\ day' \in Days
    BY <1>6, JobScheduleAssumption
    DEF ClockTick, TypeOK, Minutes, Days, JobScheduleAssumption
  <2>2. runs' \in 0..2 /\ last' \in Minutes /\ worked' \in BOOLEAN /\ loaded' \in Days
    BY <1>6, JobScheduleAssumption
    DEF ClockTick, TypeOK, Minutes, history, JobScheduleAssumption
  <2>3. UNCHANGED <<conf, todo, start, end, next, period, wait, running, reloads>>
        /\ ticked' = FALSE
    BY <1>6 DEF ClockTick, work
  <2> QED BY <2>1, <2>2, <2>3 DEF TypeOK
<1>7. CASE Reload
  <2>1. conf.order \in Seq(Element)
    BY ConfigFields DEF TypeOK
  <2>2. 0 \in Minutes /\ DayLength - 1 \in Minutes
    BY JobScheduleAssumption DEF Minutes, JobScheduleAssumption
  <2>3. reloads' \in 0..MaxReloads
    BY <1>7, JobScheduleAssumption DEF Reload, TypeOK, JobScheduleAssumption
  <2>4. todo' \in Seq(Element)
    BY <1>7, <2>1 DEF Reload
  <2>5. start' \in Minutes /\ end' \in Minutes /\ next' \in Minutes /\ last' \in Minutes
    BY <1>7, <2>2 DEF Reload
  <2>6. conf' \in Configs /\ day' \in Days /\ now' \in Minutes /\ loaded' \in Days
    BY <1>7 DEF Reload, TypeOK, clock
  <2>7. period' \in Nat /\ runs' \in 0..2
    BY <1>7, SMT DEF Reload
  <2>8. wait' \in BOOLEAN /\ running' \in BOOLEAN /\ ticked' \in BOOLEAN /\ worked' \in BOOLEAN
    BY <1>7, Zenon DEF Reload
  <2> QED BY <2>3, <2>4, <2>5, <2>6, <2>7, <2>8 DEF TypeOK
<1>8. CASE UNCHANGED vars
  BY <1>8 DEF TypeOK, vars, clock, work, history
<1> QED BY <1>1, <1>2, <1>3, <1>4, <1>5, <1>6, <1>7, <1>8 DEF Next, Over

\* Every variable of the schedule keeps its type; in particular next_time is
\* always a time of the day (469-504).
THEOREM ScheduleTypeCorrect == Spec => []TypeOK
<1>1. Init => TypeOK
  <2> SUFFICES ASSUME Init PROVE TypeOK
    OBVIOUS
  <2>1. conf.order \in Seq(Element)
    BY ConfigFields DEF Init
  <2>2. 0 \in Minutes /\ DayLength - 1 \in Minutes /\ 0 \in Days /\ 0 \in 0..MaxReloads
    BY JobScheduleAssumption DEF Minutes, Days, JobScheduleAssumption
  <2>3. todo \in Seq(Element) /\ conf \in Configs /\ now \in Minutes
    BY <2>1 DEF Init
  <2>4. start \in Minutes /\ end \in Minutes /\ next \in Minutes /\ last \in Minutes
        /\ day \in Days /\ loaded \in Days /\ reloads \in 0..MaxReloads
    BY <2>2 DEF Init
  <2>5. period \in Nat /\ runs \in 0..2
    BY SMT DEF Init
  <2>6. wait \in BOOLEAN /\ running \in BOOLEAN /\ ticked \in BOOLEAN /\ worked \in BOOLEAN
    BY Zenon DEF Init
  <2> QED BY <2>3, <2>4, <2>5, <2>6 DEF TypeOK
<1> QED BY <1>1, TypeStep, PTL DEF Spec

\* What a start leaves behind is kept until the next day.
LEMMA ScheduleStep == TypeOK /\ ScheduleInv /\ [Next]_vars => ScheduleInv'
<1> SUFFICES ASSUME TypeOK, ScheduleInv, [Next]_vars PROVE ScheduleInv'
  OBVIOUS
<1> USE DEF ScheduleInv, Started, Waits, NextLate
<1>0. start \in Int /\ last \in Int /\ now \in Int /\ period \in Nat /\ runs \in 0..2
      /\ next \in Int /\ now >= 0 /\ start >= 0
  BY DEF TypeOK, Minutes
<1>1. CASE Configure
  BY <1>1 DEF Configure, history, clock, TypeOK
<1>2. CASE StartJob
  <2>1. period = 0 /\ start > 0 => runs = 0
    BY <1>0, <1>2 DEF StartJob, DayWait
  <2>2. period > 0 => wait' \/ next' = now + period
    BY <1>0, <1>2 DEF StartJob, SetNext
  <2>3. start <= now /\ last' = now /\ UNCHANGED <<todo, now, start, period>> /\ todo = <<>>
    BY <1>2 DEF StartJob, Ready, clock
  <2>4. period = 0 => wait'
    BY <1>2 DEF StartJob
  <2>5. runs = 0 => runs' = 1
    BY <1>2 DEF StartJob
  <2> QED BY <1>0, <2>1, <2>2, <2>3, <2>4, <2>5
<1>3. CASE StillRunning
  <2>1. UNCHANGED <<todo, now, start, period, runs, last>>
    BY <1>3 DEF StillRunning, clock, history
  <2>2. runs > 0 /\ start > 0 => DayNext = next /\ DayWait = wait
    BY <1>0 DEF DayNext, DayWait, TypeOK
  <2>3. CASE now = DayNext /\ SetNext(now, start, end, period, DayNext, DayWait)
    BY <1>0, <2>1, <2>2, <2>3 DEF SetNext
  <2>4. CASE next' = DayNext /\ wait' = DayWait
    BY <1>0, <2>1, <2>2, <2>4
  <2> QED BY <1>3, <2>3, <2>4 DEF StillRunning
<1>4. CASE NotReady
  BY <1>0, <1>4 DEF NotReady, DayNext, DayWait, clock, history, TypeOK
<1>5. CASE TaskEnds
  BY <1>5 DEF TaskEnds, clock, work, history
<1>6. CASE ClockTick
  BY <1>0, <1>6 DEF ClockTick, work, history
<1>7. CASE Reload
  BY <1>7 DEF Reload
<1>8. CASE UNCHANGED vars
  BY <1>8 DEF vars, clock, work, history
<1> QED BY <1>1, <1>2, <1>3, <1>4, <1>5, <1>6, <1>7, <1>8 DEF Next, Over

\* The inductive invariant of the schedule.
LEMMA ScheduleInvariant == Spec => [](TypeOK /\ ScheduleInv)
<1>1. Init => ScheduleInv
  BY DEF Init, ScheduleInv, Started, Waits, NextLate
<1> QED BY <1>1, ScheduleStep, ScheduleTypeCorrect, PTL DEF Spec

\* A job without a period that does not start at midnight is started at most
\* once a day.
THEOREM StartedOnceADay == Spec => []OnceADay
<1>1. TypeOK /\ ScheduleInv => OnceADay
  BY DEF ScheduleInv, Waits, OnceADay, TypeOK
<1> QED BY <1>1, ScheduleInvariant, PTL

\* Two starts of one day are at least a period apart.
THEOREM StartsSpaced == Spec => Spaced
<1> DEFINE Step == running' /\ ~running /\ runs > 0 /\ start > 0 => now - last >= period
<1>1. TypeOK /\ ScheduleInv /\ [Next]_vars => [Step]_vars
  <2> SUFFICES ASSUME TypeOK, ScheduleInv, Next, running', ~running, runs > 0, start > 0
               PROVE  now - last >= period
    BY DEF Over
  <2>1. StartJob
    BY DEF Next, Configure, StillRunning, NotReady, TaskEnds, ClockTick, Reload, Over,
           vars, TypeOK
  <2>2. now \in Int /\ last \in Int /\ next \in Int /\ period \in Nat /\ start <= now
    BY DEF TypeOK, Minutes, ScheduleInv, Started
  <2>3. ~wait /\ next <= now
    BY <2>1, <2>2 DEF StartJob, DayWait, Ready, DayNext, TypeOK, Minutes
  <2> QED BY <2>2, <2>3 DEF ScheduleInv, Started, NextLate
<1> QED BY <1>1, ScheduleInvariant, PTL DEF Spec, Spaced

-----------------------------------------------------------------------------
(* No selected day is missed.                                              *)

Read == Len(conf.order) - Len(todo)

\* What of the <schedule> has been read: the end has moved only after a
\* duration, no next time is set before there is a period, and a
\* configuration is read within one minute.
Configured ==
  /\ Read \in 0..Len(conf.order)
  /\ \A i \in DOMAIN todo : todo[i] = conf.order[Read + i]
  /\ end # DayLength - 1 => \E j \in 1..Read : conf.order[j] = "duration"
  /\ todo # <<>> => loaded = day /\ (period = 0 => next = 0)

\* The window is not empty, and the next time is in it or the job waits.
Window == StartKnown => start <= end /\ (wait \/ next <= end)

\* The job has not been at work on a day on which it may run.
Idle == Today /\ loaded < day /\ StartKnown /\ ~Skips /\ ~worked

\* On such a day the wait ends with the first look at the job, and no look has
\* met its start and its next time.
Missing ==
  Idle => /\ now > 0 \/ ticked => ~wait
          /\ now <= start \/ (~wait /\ now <= next)
          /\ ticked => now < start \/ now < next

DaySpent == running => worked

DayInv == Configured /\ Window /\ Missing /\ DaySpent

\* The step of set_next_time_run stays before the end or waits.
LEMMA SetNextWindow ==
  ASSUME NEW t \in Minutes, NEW s \in Minutes, NEW e \in Minutes, NEW p \in Nat,
         NEW n \in Minutes, NEW w \in BOOLEAN, SetNext(t, s, e, p, n, w),
         p = 0 => w \/ n <= e
  PROVE  wait' \/ next' <= e
BY DEF SetNext, Minutes

LEMMA ConfiguredStep ==
  ASSUME TypeOK, Configured, [Next]_vars
  PROVE  Configured'
<1>0. /\ todo \in Seq(Element) /\ conf.order \in Seq(Element) /\ period \in Nat
      /\ next \in Minutes /\ wait \in BOOLEAN /\ conf' = conf
  <2>1. conf' = conf
    BY DEF Next, Configure, StartJob, StillRunning, NotReady, TaskEnds, ClockTick, Reload, Over,
           vars
  <2> QED
    BY <2>1, ConfigFields DEF TypeOK
<1>1. CASE Configure
  <2>1. /\ todo' = Tail(todo) /\ todo # <<>> /\ UNCHANGED <<day, loaded>>
        /\ Len(todo') = Len(todo) - 1
    BY <1>0, <1>1 DEF Configure, clock, history
  <2>2. Read' = Read + 1 /\ Read' \in 0..Len(conf'.order)
    BY <1>0, <2>1 DEF Configured, Read
  <2>3. \A i \in DOMAIN todo' : todo'[i] = conf'.order[Read' + i]
    <3> SUFFICES ASSUME NEW i \in DOMAIN todo' PROVE todo'[i] = conf.order[Read' + i]
      BY <1>0
    <3>1. i \in Nat /\ i + 1 \in DOMAIN todo /\ todo'[i] = todo[i + 1]
      BY <1>0, <2>1
    <3>2. todo[i + 1] = conf.order[Read + (i + 1)]
      BY <3>1 DEF Configured
    <3>3. Read + (i + 1) = Read' + i
      BY <2>2, <3>1 DEF Configured
    <3> QED
      BY <3>1, <3>2, <3>3
  <2>4. Head(todo) = conf.order[Read + 1]
    BY <1>0, <2>1 DEF Configured
  <2>5. end' # DayLength - 1 => \E j \in 1..Read' : conf'.order[j] = "duration"
    <3>1. CASE end' = end
      <4> SUFFICES ASSUME end # DayLength - 1 PROVE \E j \in 1..Read' : conf'.order[j] = "duration"
        BY <3>1
      <4>1. PICK j \in 1..Read : conf.order[j] = "duration"
        BY DEF Configured
      <4>2. Read \in Nat
        BY DEF Configured
      <4>3. j \in 1..Read'
        BY <2>2, <4>1, <4>2
      <4> QED
        BY <1>0, <4>1, <4>3
    <3>2. CASE Head(todo) = "duration"
      <4>1. Read \in Nat
        BY DEF Configured
      <4>2. Read + 1 \in 1..Read'
        BY <2>2, <4>1
      <4> QED
        BY <1>0, <2>4, <3>2, <4>2
    <3> QED
      BY <1>1, <3>1, <3>2 DEF Configure, SetTime, SetPeriod, work
  <2>6. period' = 0 => next' = 0
    <3>1. CASE Head(todo) = "time" /\ SetTime(conf.start)
      BY <2>1, <3>1 DEF Configured, SetTime, SetNext
    <3>2. CASE conf.period # 0 /\ SetPeriod(conf.period)
      BY <3>2 DEF SetPeriod
    <3>3. CASE SetDuration(conf.duration)
      BY <2>1, <3>3 DEF Configured, SetDuration, SetNext
    <3>4. CASE UNCHANGED work
      BY <2>1, <3>4 DEF Configured, work
    <3> QED
      BY <1>1, <3>1, <3>2, <3>3, <3>4 DEF Configure
  <2> QED
    BY <2>1, <2>2, <2>3, <2>5, <2>6 DEF Configured
<1>2. CASE Reload
  <2>1. Read' = 0 /\ todo' = conf.order /\ end' = DayLength - 1 /\ loaded' = day' /\ next' = 0
    BY <1>0, <1>2 DEF Reload, Read, clock
  <2> QED
    BY <1>0, <2>1 DEF Configured
<1>3. CASE ~Configure /\ ~Reload
  <2>1. todo' = todo /\ end' = end
    BY <1>3 DEF Next, StartJob, StillRunning, NotReady, TaskEnds, ClockTick, Over, vars, work
  <2>2. todo # <<>> => UNCHANGED <<next, period, day, loaded>>
    BY <1>3 DEF Next, StartJob, StillRunning, NotReady, TaskEnds, ClockTick, Over, vars, work,
                clock, history
  <2>3. Read' = Read
    BY <1>0, <2>1 DEF Read
  <2> QED
    BY <1>0, <2>1, <2>2, <2>3 DEF Configured
<1> QED
  BY <1>1, <1>2, <1>3

LEMMA WindowStep ==
  ASSUME TypeOK, Configured, Window, [Next]_vars
  PROVE  Window'
<1> SUFFICES ASSUME StartKnown PROVE start' <= end' /\ (wait' \/ next' <= end')
  <2>1. conf' = conf
    BY DEF Next, Configure, StartJob, StillRunning, NotReady, TaskEnds, ClockTick, Reload, Over,
           vars
  <2> QED
    BY <2>1 DEF Window, StartKnown
<1>0. /\ start <= end /\ (wait \/ next <= end)
      /\ start \in Minutes /\ end \in Minutes /\ next \in Minutes /\ now \in Minutes
      /\ period \in Nat /\ wait \in BOOLEAN /\ DayNext \in Minutes /\ DayWait \in BOOLEAN
      /\ DayWait \/ DayNext <= end
  BY DEF Window, TypeOK, DayNext, DayWait
<1>1. CASE Configure
  <2>0. /\ conf.start \in Minutes /\ conf.period \in Nat /\ conf.duration \in Nat
        /\ conf.order \in Seq(Element) /\ todo \in Seq(Element) /\ todo # <<>>
    BY <1>1, ConfigFields DEF Configure, TypeOK
  <2>1. CASE Head(todo) = "time" /\ SetTime(conf.start)
    <3>1. /\ Head(todo) = conf.order[Read + 1] /\ Read + 1 \in DOMAIN conf.order
          /\ Read \in 0..Len(conf.order)
      BY <2>0 DEF Configured, Read
    <3>2. end = DayLength - 1
      <4> SUFFICES ASSUME end # DayLength - 1 PROVE FALSE
        OBVIOUS
      <4>1. PICK j \in 1..Read : conf.order[j] = "duration"
        BY DEF Configured
      <4>2. j \in DOMAIN conf.order
        BY <2>0, <3>1, <4>1
      <4>3. Read + 1 < j
        BY <2>1, <3>1, <4>1, <4>2 DEF StartKnown
      <4> QED
        BY <3>1, <4>1, <4>3
    <3>3. start' = conf.start /\ end' = end /\ next' \in Minutes
      BY <1>0, <2>0, <2>1, SetNextType DEF SetTime
    <3> QED
      BY <2>0, <3>2, <3>3, JobScheduleAssumption DEF Minutes, JobScheduleAssumption
  <2>2. CASE conf.period # 0 /\ SetPeriod(conf.period)
    BY <1>0, <2>0, <2>2, SetNextWindow DEF SetPeriod
  <2>3. CASE SetDuration(conf.duration)
    <3>1. end' \in Minutes /\ start' = start /\ start <= end'
      <4>1. /\ start' = start
            /\ end' = IF start + conf.duration < DayLength THEN start + conf.duration ELSE DayLength - 1
        BY <2>3 DEF SetDuration
      <4> QED
        BY <1>0, <2>0, <4>1, JobScheduleAssumption DEF Minutes, JobScheduleAssumption
    <3>2. period = 0 => wait \/ next <= end'
      BY <2>0, <3>1 DEF Configured, Minutes
    <3>3. SetNext(now, start, end', period, next, wait)
      BY <2>3 DEF SetDuration
    <3> QED
      BY <1>0, <3>1, <3>2, <3>3, SetNextWindow
  <2>4. CASE UNCHANGED work
    BY <1>0, <2>4 DEF work
  <2> QED
    BY <1>1, <2>1, <2>2, <2>3, <2>4 DEF Configure
<1>2. CASE StartJob
  <2>1. CASE period # 0 /\ SetNext(now, start, end, period, DayNext, DayWait)
    BY <1>0, <1>2, <2>1, SetNextWindow DEF StartJob
  <2>2. CASE wait' = TRUE
    BY <1>0, <1>2, <2>2 DEF StartJob
  <2> QED
    BY <1>2, <2>1, <2>2 DEF StartJob
<1>3. CASE StillRunning
  <2>1. CASE SetNext(now, start, end, period, DayNext, DayWait)
    BY <1>0, <1>3, <2>1, SetNextWindow DEF StillRunning
  <2>2. CASE next' = DayNext /\ wait' = DayWait
    BY <1>0, <1>3, <2>2 DEF StillRunning
  <2> QED
    BY <1>3, <2>1, <2>2 DEF StillRunning
<1>4. CASE NotReady
  BY <1>0, <1>4 DEF NotReady
<1>5. CASE Reload
  BY <1>5, JobScheduleAssumption DEF Reload, JobScheduleAssumption
<1>6. CASE TaskEnds \/ ClockTick \/ Over \/ UNCHANGED vars
  <2>1. UNCHANGED work
    BY <1>6 DEF TaskEnds, ClockTick, Over, vars
  <2> QED
    BY <1>0, <2>1 DEF work
<1> QED
  BY <1>1, <1>2, <1>3, <1>4, <1>5, <1>6 DEF Next

\* A task that runs was started on this day or carried into it.
LEMMA SpentStep ==
  ASSUME TypeOK, DaySpent, [Next]_vars
  PROVE  DaySpent'
<1>1. CASE StartJob
  BY <1>1 DEF StartJob, DaySpent
<1>2. CASE ClockTick
  <2>1. running' = running /\ (worked' = running \/ worked' = worked)
    BY <1>2 DEF ClockTick, history
  <2> QED
    BY <2>1 DEF DaySpent
<1>3. CASE Reload \/ TaskEnds
  BY <1>3 DEF Reload, TaskEnds, DaySpent
<1>4. CASE Configure \/ StillRunning \/ NotReady \/ Over \/ UNCHANGED vars
  <2>1. UNCHANGED <<running, worked>>
    BY <1>4 DEF Configure, StillRunning, NotReady, Over, vars, history
  <2> QED
    BY <2>1 DEF DaySpent
<1> QED
  BY <1>1, <1>2, <1>3, <1>4 DEF Next

\* The scheduler looks at the job in every minute of a day on which it may
\* run, and one of them is past its start and its next time.
LEMMA MissingStep ==
  ASSUME TypeOK, DayInv, [Next]_vars
  PROVE  Missing'
<1> SUFFICES ASSUME Idle'
             PROVE  /\ now' > 0 \/ ticked' => ~wait'
                    /\ now' <= start' \/ (~wait' /\ now' <= next')
                    /\ ticked' => now' < start' \/ now' < next'
  BY DEF Missing
<1>0. /\ start \in Minutes /\ end \in Minutes /\ next \in Minutes /\ now \in Minutes
      /\ day \in Days /\ loaded \in Days /\ todo \in Seq(Element)
      /\ wait \in BOOLEAN /\ ticked \in BOOLEAN /\ start >= 0 /\ now >= 0
  BY DEF TypeOK, Minutes
<1>1. CASE ClockTick /\ now < DayLength - 1
  <2>1. /\ now' = now + 1 /\ ticked' = FALSE
        /\ UNCHANGED <<conf, day, worked, loaded, start, next, wait>>
    BY <1>0, <1>1 DEF ClockTick, Minutes, work, history
  <2>2. Idle
    BY <2>1 DEF Idle, Today, StartKnown
  <2>3. ticked
    BY <1>1, <2>2 DEF ClockTick, Idle
  <2>4. ~wait /\ (now < start \/ now < next)
    BY <2>2, <2>3 DEF DayInv, Missing
  <2> QED
    BY <1>0, <2>1, <2>4 DEF Minutes
<1>2. CASE ClockTick /\ now = DayLength - 1
  BY <1>0, <1>2 DEF ClockTick, Minutes, work
<1>3. CASE StartJob
  BY <1>3 DEF StartJob, Idle
<1>4. CASE Reload
  <2>1. loaded' = day /\ day' = day /\ day \in Int
    BY <1>0, <1>4 DEF Reload, clock, Days
  <2> QED
    BY <2>1 DEF Idle
<1>5. CASE Configure
  <2>1. todo # <<>> /\ UNCHANGED <<day, loaded>>
    BY <1>5 DEF Configure, clock, history
  <2> QED
    BY <1>0, <2>1 DEF Idle, Days, DayInv, Configured
<1>6. CASE StillRunning
  BY <1>6 DEF StillRunning, Idle, DayInv, DaySpent, history
<1>7. CASE NotReady
  <2>1. UNCHANGED <<conf, day, now, start, end, loaded, worked, running>>
    BY <1>7 DEF NotReady, clock, history
  <2>2. Idle /\ StartKnown
    BY <2>1 DEF Idle, Today, StartKnown
  <2>3. ~running /\ Today
    BY <2>2 DEF Idle, DayInv, DaySpent
  <2>4. /\ start <= end /\ (wait \/ next <= end)
        /\ now > 0 \/ ticked => ~wait
        /\ now <= start \/ (~wait /\ now <= next)
        /\ ticked => now < start \/ now < next
    BY <2>2 DEF DayInv, Window, Missing
  <2>5. ~DayWait
    <3>1. now # 0 => now > 0
      BY <1>0 DEF Minutes
    <3> QED
      BY <2>4, <3>1, Zenon DEF DayWait
  <2>6. next' = DayNext /\ wait' = FALSE /\ ~Ready
    BY <1>7, <2>5 DEF NotReady
  <2>7. now <= start \/ now <= DayNext
    BY <2>4 DEF DayNext
  <2>8. start <= end /\ DayNext <= end
    BY <1>0, <2>4, <2>5 DEF DayNext, DayWait
  <2>9. now < start \/ now < DayNext
    BY <1>0, <2>3, <2>6, <2>7, <2>8 DEF Ready, DayNext, Minutes
  <2> QED
    BY <1>0, <2>1, <2>6, <2>7, <2>9
<1>8. CASE TaskEnds \/ Over \/ UNCHANGED vars
  <2>1. UNCHANGED <<conf, day, now, start, next, wait, loaded, ticked>> /\ worked' = worked
    BY <1>8 DEF TaskEnds, Over, vars, clock, work, history
  <2>2. Idle
    BY <2>1 DEF Idle, Today, StartKnown
  <2> QED
    BY <2>1, <2>2 DEF DayInv, Missing
<1> QED
  BY <1>1, <1>2, <1>3, <1>4, <1>5, <1>6, <1>7, <1>8 DEF Next, ClockTick

LEMMA DayInvariant == Spec => [](TypeOK /\ DayInv)
<1>1. Init => DayInv
  <2> SUFFICES ASSUME Init PROVE DayInv
    OBVIOUS
  <2>1. conf.order \in Seq(Element)
    BY ConfigFields DEF Init
  <2>2. Read = 0 /\ todo = conf.order /\ end = DayLength - 1 /\ loaded = day /\ next = 0
    BY <2>1 DEF Init, Read
  <2>3. Configured
    BY <2>1, <2>2 DEF Configured
  <2>4. Window /\ ~running
    BY JobScheduleAssumption DEF Init, Window, JobScheduleAssumption
  <2>5. ~Idle
    BY <2>2 DEF Init, Idle
  <2> QED
    BY <2>3, <2>4, <2>5 DEF DayInv, Missing, DaySpent
<1>2. TypeOK /\ DayInv /\ [Next]_vars => DayInv'
  BY ConfiguredStep, WindowStep, SpentStep, MissingStep DEF DayInv
<1> QED
  BY <1>1, <1>2, ScheduleTypeCorrect, PTL DEF Spec

\* No selected day passes without the job, as long as the scheduler looks at
\* it in every minute and the configuration gives its start before its
\* duration: whatever the period, however late a task ends and however often
\* set_next_time_run moves the next time (job.cpp 326-530).
THEOREM EverySelectedDay == Spec => NoDayMissed
<1> DEFINE Step == day' # day /\ Today /\ loaded < day /\ StartKnown /\ ~Skips => worked
<1>1. TypeOK /\ DayInv /\ [Next]_vars => [Step]_vars
  <2> SUFFICES ASSUME TypeOK, DayInv, Next, day' # day, Today, loaded < day, StartKnown,
                      ~Skips, ~worked
               PROVE  FALSE
    OBVIOUS
  <2>1. ClockTick /\ now = DayLength - 1
    BY DEF Next, Configure, StartJob, StillRunning, NotReady, TaskEnds, ClockTick, Reload, Over,
           clock, vars
  <2>2. ticked /\ (now < start \/ now < next)
    BY <2>1 DEF ClockTick, DayInv, Missing, Idle
  <2> QED
    BY <2>1, <2>2, JobScheduleAssumption DEF TypeOK, Minutes, JobScheduleAssumption
<1> QED
  BY <1>1, DayInvariant, PTL DEF Spec, NoDayMissed
=============================================================================
