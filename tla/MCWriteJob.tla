----------------------------- MODULE MCWriteJob -----------------------------
(* Instances of WriteJob: two files of two contents, with a temporary file   *)
(* each or one they share.                                                   *)
EXTENDS WriteJob

CONSTANTS a, b

Job(t, o, w, p, names) ==
  [transaction |-> t, overwrite |-> o, wild |-> w, post |-> p, tempName |-> names]
Own    == [f \in Files |-> f]
Shared == [f \in Files |-> 1]

SafetyJobs ==
  {Job(TRUE, TRUE, TRUE, "delete", Own), Job(TRUE, FALSE, TRUE, "nothing", Own),
   Job(TRUE, TRUE, TRUE, "delete", Shared), Job(FALSE, TRUE, TRUE, "delete", Own),
   Job(FALSE, TRUE, TRUE, "sync", Own), Job(TRUE, TRUE, TRUE, "sync", Own),
   Job(TRUE, TRUE, FALSE, "nothing", Own)}
PlainJobs == {Job(FALSE, TRUE, TRUE, "delete", Own)}
=============================================================================
