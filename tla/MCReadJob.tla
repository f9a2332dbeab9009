------------------------------ MODULE MCReadJob ------------------------------
(* Instances of ReadJob: two files of two contents, with a temporary file    *)
(* each or one they share.                                                   *)
EXTENDS ReadJob

CONSTANTS a, b

Job(t, o, w, p, names) ==
  [transaction |-> t, overwrite |-> o, wild |-> w, post |-> p, tempName |-> names]
Own    == [f \in Files |-> f]
Shared == [f \in Files |-> 1]

ReadJobs ==
  {Job(TRUE, TRUE, TRUE, "delete", Own), Job(FALSE, TRUE, FALSE, "delete", Own),
   Job(TRUE, TRUE, TRUE, "sync", Own), Job(FALSE, FALSE, TRUE, "sync", Own),
   Job(TRUE, TRUE, FALSE, "nothing", Shared)}
=============================================================================
