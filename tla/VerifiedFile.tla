----------------------------- MODULE VerifiedFile -----------------------------
(***************************************************************************)
(* What a transfer promises about the file it replaces, whichever side     *)
(* receives it: a file that exists changes only by a copy, which replaces  *)
(* it by a content whose hash was announced beforehand.  A copy is not     *)
(* atomic: an interrupted one leaves the file torn.  Where there is no     *)
(* file others may put one.                                                *)
(***************************************************************************)
CONSTANTS Content, NoFile, Torn

VARIABLES
  dest,      \* the file that is replaced
  announced  \* every content whose hash was announced, and what others put

vars == <<dest, announced>>

TypeOK ==
  /\ dest \in Content \cup {NoFile, Torn}
  /\ announced \subseteq Content

\* The file holds an announced content whenever it is not torn.
Verified == dest \in announced \cup {NoFile, Torn}

Init ==
  /\ dest \in Content \cup {NoFile}
  /\ announced = {dest} \ {NoFile}

\* The sender tells the hash of what it is going to send.
Announce ==
  /\ announced \subseteq announced' /\ announced' \subseteq Content
  /\ UNCHANGED dest

\* CopyFile begins to overwrite the file, and completes.
BeginCopy == announced # {} /\ dest' = Torn /\ UNCHANGED announced
EndCopy   == dest = Torn /\ dest' \in announced /\ UNCHANGED announced

\* Somebody else makes the file.
Put ==
  /\ dest = NoFile /\ dest' \in Content
  /\ announced' = announced \cup {dest'}

Next == Announce \/ BeginCopy \/ EndCopy \/ Put

Spec == Init /\ [][Next]_vars
=============================================================================
