----------------------------- MODULE StagedFiles -----------------------------
(***************************************************************************)
(* What a job of several files promises about the files it replaces,       *)
(* whichever side receives them: a file is replaced or removed only while  *)
(* the job installs, which in a transaction is not before its commit, and  *)
(* only by a content whose hash was announced for it.                      *)
(***************************************************************************)
CONSTANTS Files, Contents, NoFile

VARIABLES
  dest,       \* the files that are replaced
  known,      \* for each file every content whose hash was announced for it
  installing  \* files may be replaced

vars == <<dest, known, installing>>

Init ==
  /\ dest \in [Files -> Contents \cup {NoFile}]
  /\ known = [f \in Files |-> {}]
  /\ installing \in BOOLEAN

\* A hash is announced.
Announce ==
  /\ known' \in [Files -> SUBSET Contents]
  /\ \A f \in Files : known[f] \subseteq known'[f]
  /\ UNCHANGED <<dest, installing>>

\* The commit begins; an attempt that fails afterwards begins it again.
Open == installing' = TRUE /\ UNCHANGED <<dest, known>>

\* One file is replaced by a content announced for it.
Install(f) ==
  /\ installing
  /\ \E c \in known[f] : dest' = [dest EXCEPT ![f] = c]
  /\ UNCHANGED <<known, installing>>

\* The files the other side does not have are removed.
Remove(S) ==
  /\ installing
  /\ dest' = [f \in Files |-> IF f \in S THEN NoFile ELSE dest[f]]
  /\ UNCHANGED <<known, installing>>

Next ==
  \/ Announce \/ Open
  \/ \E f \in Files : Install(f)
  \/ \E S \in SUBSET Files : Remove(S)

Spec == Init /\ [][Next]_vars
=============================================================================
