----------------------------- MODULE MCScheduler -----------------------------
(* Instances of Scheduler: one job or two.                                   *)
EXTENDS Scheduler

CONSTANTS j1, j2

TwoJobs == {j1, j2}
OneJob  == {j1}
=============================================================================
