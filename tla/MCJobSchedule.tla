--------------------------- MODULE MCJobSchedule ---------------------------
(* Instances of JobSchedule: days of six minutes, every start, period and   *)
(* duration that fits in them, and the elements in every order.             *)
EXTENDS JobSchedule

Orders == {<<"time", "period", "duration">>, <<"period", "time", "duration">>,
           <<"duration", "period", "time">>, <<"time", "duration", "period">>}

\* From Monday, 2 March; and the last days of a month of 31.
March == [d \in Days |-> [day |-> 2 + d, dayofweek |-> 1 + d, month |-> 3]]
Last  == [d \in Days |-> [day |-> 29 + d, dayofweek |-> 0 + d, month |-> 3]]

Nothing == [kind |-> "manual", months |-> {}, days |-> {}, weeks |-> {}, week |-> {},
            beyond |-> FALSE]
Daily   == [Nothing EXCEPT !.kind = "daily"]
ByDay   == [Nothing EXCEPT !.kind = "by_day"]
ByWeek  == [Nothing EXCEPT !.kind = "by_week"]

\* A job of every day, one that the code runs on the second and third day, and
\* two that it never runs.
Selections ==
  {Daily,
   [ByDay EXCEPT !.days = {4, 5, 32}, !.months = {"apr", "may"}],
   [Nothing EXCEPT !.kind = "weekly", !.week = {"mon", "tue"}],
   [ByWeek EXCEPT !.weeks = {0, 6}, !.week = {"mon"}, !.months = {"mar"}]}

AllConfigs == [start : 0..5, period : {0, 1, 2, 3, 6}, duration : {0, 1, 3},
               days : Selections, order : Orders]

\* Monthly jobs of the last days of a month.
DayConfigs == [start : {0, 1}, period : {0}, duration : {0}, order : {<<"time">>},
               days : {Daily,
                       [ByDay EXCEPT !.days = {18, 30, 31}, !.months = {"mar"}],
                       [ByWeek EXCEPT !.weeks = {5}, !.week = {"mon"}, !.months = {"mar"}]}]
=============================================================================
