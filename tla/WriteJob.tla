------------------------------ MODULE WriteJob ------------------------------
(***************************************************************************)
(* A write job of several files: TClientJob::do_put_file as a whole, with  *)
(* or without a transaction, the attempts of work around it, and the state *)
(* a session keeps between commands: TMainClass::in_transaction and the    *)
(* list of files that command_transaction commits.                         *)
(*                                                                         *)
(* PutFile models how one file is sent; here put_file is one message with  *)
(* the file's hash and content and has one answer, and CopyFile is one     *)
(* step.  The files are those in the directory of one object that match    *)
(* its wildcard, or those that are named, each by an object.               *)
(***************************************************************************)
EXTENDS Integers, Sequences

CONSTANTS
  N,           \* how many files there may be
  Contents,    \* the contents a file may have
  Jobs,        \* the jobs looked at
  MaxTry,      \* MAX_TRY
  Overlap,     \* an attempt may start while an older session still runs
  MaxFaults,   \* bound: how many times the environment misbehaves
  NoFile, Mixed \* no such file; blocks of two contents

Files    == 1..N
Attempts == 1..MaxTry

\* wild: the object has a wildcard; otherwise each file is an object that names
\* it, and the job walks its objects as it walks the files of one, up to what it
\* does with each of them afterwards.  tempName: a temporary file is named after
\* the base name of its file, so files of two directories may share one.
ASSUME WriteJobAssumption ==
  /\ N \in Nat \ {0} /\ MaxTry \in Nat \ {0} /\ MaxFaults \in Nat
  /\ Overlap \in BOOLEAN
  /\ NoFile \notin Contents /\ Mixed \notin Contents /\ NoFile # Mixed
  /\ Jobs \subseteq [transaction : BOOLEAN, overwrite : BOOLEAN, wild : BOOLEAN,
                     post : {"nothing", "delete", "sync"}, tempName : [Files -> Files]]
  /\ \A j \in Jobs : ~j.wild => N = 1 \/ j.post = "nothing"

VARIABLES
  job,         \* the job
  src,         \* the source files
  added,       \* a file was added there since init_wait_changes
  cpc,         \* where the client is in do_put_file
  try,         \* the number of the current attempt
  todo,        \* what is left of put_files; then of the files to delete
  file_hash,   \* the hash taken of cur_file
  post,        \* postprocess_files: the files to delete after the commit
  objErr,      \* the object's error flag
  result,      \* result_var
  temp, dest,  \* the server's temporary files and destinations
  spc,         \* where each session is in its handler
  inTx,        \* in_transaction of each session
  files,       \* its list of files, the last one put first
  c2s, s2c,    \* the two directions of each connection
  up,          \* neither side has closed the connection
  asked,       \* history: the hashes announced for each file
  listed,      \* history: put_files at first
  sent,        \* history: what this attempt has found or put on the server
  commits,     \* history: a commit has been requested
  touched,     \* history: the files users have changed or a search has passed over
  copyFailed,  \* history: a CopyFile of the server has failed
  faults       \* how many faults there have been

source   == <<src, added, touched>>
position == <<todo, listed, file_hash, post, objErr, sent>>
client   == <<cpc, try, result, position, asked, commits>>
disk     == <<temp, dest, copyFailed>>
sessions == <<spc, inTx, files>>
net      == <<c2s, s2c, up>>
vars     == <<job, source, client, disk, sessions, net, faults>>

Frame(k, f, h, d) == [kind |-> k, file |-> f, hash |-> h, data |-> d]
Simple(k)         == Frame(k, 0, NoFile, NoFile)
\* The names of enum_files.
List(fs)          == [kind |-> "list", files |-> fs]
Commands == [kind : {"open", "get_hash", "put_file", "commit", "undo", "enum", "delete"},
             file : 0..N, hash : Contents \cup {NoFile}, data : Contents \cup {NoFile}]
Answers  == [kind : {"tx_ok", "hash", "not_found", "put_ok", "dont_need", "deleted", "error"},
             file : 0..N, hash : Contents \cup {NoFile, Mixed}, data : {NoFile}]
            \cup [kind : {"list"}, files : SUBSET Files]
Waiting  == {"wait_open", "wait_hash", "wait_put", "wait_commit", "wait_undo", "wait_list",
             "wait_drop"}

TypeOK ==
  /\ job \in Jobs
  /\ src \in [Files -> Contents \cup {NoFile}] /\ added \in BOOLEAN
  /\ cpc \in {"connect", "begin", "search", "file", "put", "undo", "sync", "drop", "clean",
              "listing", "wipe", "done"} \cup Waiting
  /\ try \in Attempts /\ todo \subseteq Files /\ listed \subseteq Files
  /\ file_hash \in Contents \cup {NoFile} /\ post \subseteq Files
  /\ objErr \in BOOLEAN /\ result \in BOOLEAN
  /\ temp \in [Files -> Contents \cup {NoFile, Mixed}]
  /\ dest \in [Files -> Contents \cup {NoFile, Mixed}]
  /\ spc \in [Attempts -> {"none", "idle", "copy", "commit", "ended"}]
  /\ inTx \in [Attempts -> BOOLEAN] /\ files \in [Attempts -> Seq(Files)]
  /\ c2s \in [Attempts -> Seq(Commands)] /\ s2c \in [Attempts -> Seq(Answers)]
  /\ up \in [Attempts -> BOOLEAN]
  /\ asked \in [Files -> SUBSET Contents]
  /\ sent \in [Files -> Contents \cup {NoFile}]
  /\ commits \in BOOLEAN /\ touched \subseteq Files /\ copyFailed \in BOOLEAN
  /\ faults \in 0..MaxFaults

Init ==
  /\ job \in Jobs
  /\ src \in [Files -> Contents \cup {NoFile}] /\ added = FALSE
  /\ cpc = "connect" /\ try = 1 /\ todo = {} /\ listed = {} /\ file_hash = NoFile /\ post = {}
  /\ objErr = FALSE /\ result = FALSE
  /\ temp = [f \in Files |-> NoFile]
  /\ dest \in [Files -> Contents \cup {NoFile}]
  /\ spc = [k \in Attempts |-> "none"]
  /\ inTx = [k \in Attempts |-> FALSE] /\ files = [k \in Attempts |-> <<>>]
  /\ c2s = [k \in Attempts |-> <<>>] /\ s2c = [k \in Attempts |-> <<>>]
  /\ up = [k \in Attempts |-> FALSE]
  /\ asked = [f \in Files |-> {}] /\ sent = [f \in Files |-> NoFile]
  /\ commits = FALSE /\ touched = {} /\ copyFailed = FALSE /\ faults = 0

\* A fault uses up one of the MaxFaults.
Fault == faults < MaxFaults /\ faults' = faults + 1

\* What is sent arrives while the connection is up, and is lost afterwards.
Sends(ch, k, m) == IF up[k] THEN [ch EXCEPT ![k] = Append(@, m)] ELSE ch

-----------------------------------------------------------------------------
(* The client.                                                             *)

\* Mutant: one attempt too many.
HangupOffByOne(r) ==
  /\ up' = [up EXCEPT ![try] = FALSE]
  /\ s2c' = [s2c EXCEPT ![try] = <<>>]
  /\ result' = r
  /\ cpc' = IF r \/ try > MaxTry THEN "done" ELSE "connect"
  /\ try' = IF r \/ try > MaxTry THEN try ELSE try + 1

\* do_put_file returns r; work closes the socket and makes the next attempt
\* unless r is TRUE or there is none left.
Hangup(r) ==
  /\ up' = [up EXCEPT ![try] = FALSE]
  /\ s2c' = [s2c EXCEPT ![try] = <<>>]
  /\ result' = r
  /\ cpc' = IF r \/ try = MaxTry THEN "done" ELSE "connect"
  /\ try' = IF r \/ try = MaxTry THEN try ELSE try + 1

\* Send command m and go to s; a failed write ends the attempt with r.
RequestElse(m, s, r) ==
  \/ /\ c2s' = Sends(c2s, try, m) /\ cpc' = s /\ UNCHANGED <<try, result, s2c, up>>
  \/ ~up[try] /\ Hangup(r) /\ UNCHANGED c2s

Request(m, s) == RequestElse(m, s, FALSE)

GoTo(s) == cpc' = s /\ UNCHANGED <<try, result>>

\* The files are taken in one order, whichever it is; on to the next file.
cur      == CHOOSE f \in todo : TRUE
NextFile == GoTo("file") /\ todo' = todo \ {cur}

\* goto out in a transaction: undo it, and return r afterwards.
GoUndo(r) == cpc' = "undo" /\ result' = r /\ UNCHANGED <<try, up>>

\* goto out: the attempt is repeated, after an undo in a transaction.
Abandon ==
  \/ job.transaction /\ GoUndo(FALSE) /\ UNCHANGED s2c
  \/ ~job.transaction /\ Hangup(FALSE)

\* Mutant: an error of a file does not end a transaction.
FileErrorIgnored ==
  objErr' = TRUE /\ NextFile /\ UNCHANGED net

\* An error of one file ends a transaction; without one the next file is tried.
FileError ==
  /\ objErr' = TRUE
  /\ \/ job.transaction /\ Abandon /\ UNCHANGED <<todo, c2s>>
     \/ ~job.transaction /\ NextFile /\ UNCHANGED net

Connect ==
  /\ cpc = "connect"
  /\ Overlap \/ \A k \in Attempts : spc[k] \in {"none", "ended"}
  /\ cpc' = "begin" /\ result' = TRUE /\ UNCHANGED try
  /\ up' = [up EXCEPT ![try] = TRUE] /\ spc' = [spc EXCEPT ![try] = "idle"]
  /\ todo' = {} /\ listed' = {} /\ file_hash' = NoFile /\ post' = {} /\ objErr' = FALSE
  /\ sent' = [f \in Files |-> NoFile]
  /\ UNCHANGED <<job, source, asked, commits, disk, inTx, files, c2s, s2c, faults>>

ConnectFail ==
  /\ cpc = "connect" /\ Fault /\ Hangup(FALSE)
  /\ UNCHANGED <<job, source, position, asked, commits, disk, sessions, c2s>>

Begin ==
  /\ cpc = "begin"
  /\ \/ job.transaction /\ Request(Simple("open"), "wait_open")
     \/ ~job.transaction /\ GoTo("search") /\ UNCHANGED net
  /\ UNCHANGED <<job, source, position, asked, commits, disk, sessions, faults>>

Answer     == Head(s2c[try])
TakeAnswer == s2c' = [s2c EXCEPT ![try] = Tail(@)]
Answered   == cpc \in Waiting /\ s2c[try] # <<>>

\* get_answer takes every frame of type ok for a good answer.
IsOk == Answer.kind \in {"tx_ok", "hash", "put_ok", "deleted", "list"}

Opened ==
  /\ Answered /\ cpc = "wait_open" /\ IsOk
  /\ TakeAnswer /\ GoTo("search")
  /\ UNCHANGED <<job, source, position, asked, commits, disk, sessions, c2s, up, faults>>

\* The files of the object: those that match its wildcard, or those named.
Present == {f \in Files : src[f] # NoFile}

\* What a search finds, or (a fault) a part of it: FindNextFile fails before the
\* end, and nothing tells the caller.
Finds(cut) ==
  IF cut THEN Fault /\ todo' \in SUBSET Present ELSE todo' = Present /\ UNCHANGED faults

Search(cut) ==
  /\ cpc = "search"
  /\ \/ job.wild /\ Finds(cut) /\ touched' = touched \cup (Present \ todo')
     \/ ~job.wild /\ ~cut /\ todo' = Files /\ UNCHANGED <<touched, faults>>
  /\ listed' = todo' /\ GoTo("file")
  /\ UNCHANGED <<job, src, added, file_hash, post, objErr, sent, asked, commits, disk, sessions,
                 net>>

\* The search fails, in the empty root of a drive or (a fault) elsewhere: a
\* transaction is undone and not repeated, otherwise the object is left behind.
SearchError(fault) ==
  /\ cpc = "search" /\ job.wild
  /\ IF fault THEN Present # {} /\ Fault ELSE Present = {} /\ UNCHANGED faults
  /\ objErr' = TRUE
  /\ \/ job.transaction /\ GoUndo(TRUE)
     \/ ~job.transaction /\ GoTo("file") /\ UNCHANGED up
  /\ UNCHANGED <<job, source, todo, listed, file_hash, post, sent, asked, commits, disk,
                 sessions, c2s, s2c>>

\* Take the hash of the next file and ask for the server's.
GetHash ==
  /\ cpc = "file" /\ todo # {} /\ src[cur] # NoFile
  /\ file_hash' = src[cur]
  /\ Request(Frame("get_hash", cur, NoFile, NoFile), "wait_hash")
  /\ UNCHANGED <<job, source, todo, listed, post, objErr, sent, asked, commits, disk, sessions,
                 faults>>

\* The file is not there, or (a fault) its hash cannot be taken.
NoHash(fault) ==
  /\ cpc = "file" /\ todo # {}
  /\ IF fault THEN src[cur] # NoFile /\ Fault ELSE src[cur] = NoFile /\ UNCHANGED faults
  /\ FileError
  /\ UNCHANGED <<job, source, listed, file_hash, post, sent, asked, commits, disk, sessions>>

\* The file is on the server: delete it now, or after the commit.
PostProcess ==
  /\ NextFile
  /\ sent' = [sent EXCEPT ![cur] = file_hash]
  /\ post' = IF job.post = "delete" /\ job.transaction THEN post \cup {cur} ELSE post
  /\ src' = IF job.post = "delete" /\ ~job.transaction THEN [src EXCEPT ![cur] = NoFile] ELSE src
  /\ UNCHANGED <<added, touched>>

\* "if hashes match - go out !!!"; otherwise send the file.
CompareHash ==
  /\ Answered /\ cpc = "wait_hash" /\ Answer.kind \in {"hash", "not_found"} /\ TakeAnswer
  /\ \/ Answer.kind = "hash" /\ Answer.hash = file_hash /\ PostProcess
     \/ /\ Answer.kind = "hash" => Answer.hash # file_hash
        /\ GoTo("put") /\ UNCHANGED <<source, todo, sent, post>>
  /\ UNCHANGED <<job, listed, file_hash, objErr, asked, commits, disk, sessions, c2s, up, faults>>

\* An error answer to get_hash.
HashError ==
  /\ Answered /\ cpc = "wait_hash" /\ Answer.kind \in {"error", "dont_need"}
  /\ objErr' = TRUE
  /\ \/ job.transaction /\ GoUndo(FALSE) /\ UNCHANGED todo
     \/ ~job.transaction /\ NextFile /\ UNCHANGED up
  /\ TakeAnswer
  /\ UNCHANGED <<job, source, listed, file_hash, post, sent, asked, commits, disk, sessions,
                 c2s, faults>>

PutFile ==
  /\ cpc = "put"
  /\ \/ /\ src[cur] # NoFile
        /\ Request(Frame("put_file", cur, file_hash, src[cur]), "wait_put")
        /\ asked' = [asked EXCEPT ![cur] = @ \cup {file_hash}]
        /\ UNCHANGED <<todo, objErr>>
     \/ src[cur] = NoFile /\ FileError /\ UNCHANGED asked
  /\ UNCHANGED <<job, source, listed, file_hash, post, sent, commits, disk, sessions, faults>>

PutDone ==
  /\ Answered /\ cpc = "wait_put" /\ Answer.kind = "put_ok" /\ TakeAnswer /\ PostProcess
  /\ UNCHANGED <<job, listed, file_hash, objErr, asked, commits, disk, sessions, c2s, up, faults>>

\* DONT_NEED_OVERWRITE is no error of the object.
DontNeed ==
  /\ Answered /\ cpc = "wait_put" /\ Answer.kind = "dont_need" /\ TakeAnswer
  /\ NextFile
  /\ UNCHANGED <<job, source, listed, file_hash, post, objErr, sent, asked, commits, disk,
                 sessions, c2s, up, faults>>

\* What follows the commit.
AfterCommit == GoTo(IF job.post = "sync" THEN "sync" ELSE "clean")

Commit ==
  /\ cpc = "file" /\ todo = {}
  /\ \/ job.transaction /\ Request(Simple("commit"), "wait_commit") /\ commits' = TRUE
     \/ ~job.transaction /\ AfterCommit /\ UNCHANGED <<net, commits>>
  /\ UNCHANGED <<job, source, position, asked, disk, sessions, faults>>

\* The commit is acknowledged: delete the sources.
Committed ==
  /\ Answered /\ cpc = "wait_commit" /\ IsOk /\ TakeAnswer /\ AfterCommit
  /\ src' = [f \in Files |-> IF f \in post THEN NoFile ELSE src[f]]
  /\ UNCHANGED <<job, added, touched, position, asked, commits, disk, sessions, c2s, up, faults>>

Undo ==
  /\ cpc = "undo" /\ Request(Simple("undo"), "wait_undo")
  /\ UNCHANGED <<job, source, position, asked, commits, disk, sessions, faults>>

\* SYNC files: search the directory again, of a wildcard only, and ask the
\* server what it has; a search that fails ends the job.
Sync(cut) ==
  /\ cpc = "sync"
  /\ \/ /\ job.wild /\ Finds(cut) /\ touched' = touched \cup (Present \ todo')
        /\ Request(Simple("enum"), "wait_list")
     \/ /\ ~job.wild /\ ~cut /\ todo' = {} /\ UNCHANGED <<touched, faults>>
        /\ Request(Simple("enum"), "wait_list")
     \/ /\ job.wild /\ ~cut /\ Present = {} /\ Hangup(TRUE)
        /\ UNCHANGED <<touched, todo, c2s, faults>>
  /\ UNCHANGED <<job, src, added, listed, file_hash, post, objErr, sent, asked, commits, disk,
                 sessions>>

\* Mutant: the two lists are compared the wrong way round.
SyncCompareSwapped ==
  /\ Answered /\ cpc = "wait_list" /\ Answer.kind = "list" /\ TakeAnswer
  /\ GoTo("drop") /\ todo' = todo \cap Answer.files
  /\ UNCHANGED <<job, source, listed, file_hash, post, objErr, sent, asked, commits, disk,
                 sessions, c2s, up, faults>>

\* "compare two lists": what the server has and the client has not.
SyncCompare ==
  /\ Answered /\ cpc = "wait_list" /\ Answer.kind = "list" /\ TakeAnswer
  /\ GoTo("drop") /\ todo' = Answer.files \ todo
  /\ UNCHANGED <<job, source, listed, file_hash, post, objErr, sent, asked, commits, disk,
                 sessions, c2s, up, faults>>

\* Have these files deleted, one by one; a write that fails ends the job as if
\* it were done.
SyncDelete ==
  /\ cpc = "drop"
  /\ \/ todo # {} /\ RequestElse(Frame("delete", cur, NoFile, NoFile), "wait_drop", TRUE)
     \/ todo = {} /\ Hangup(TRUE) /\ UNCHANGED c2s
  /\ UNCHANGED <<job, source, position, asked, commits, disk, sessions, faults>>

SyncDeleted ==
  /\ Answered /\ cpc = "wait_drop" /\ Answer.kind = "deleted" /\ TakeAnswer
  /\ GoTo("drop") /\ todo' = todo \ {cur}
  /\ UNCHANGED <<job, source, listed, file_hash, post, objErr, sent, asked, commits, disk,
                 sessions, c2s, up, faults>>

\* The end of an undo, and a wrong answer to anything else; a frame that is no
\* answer to get_hash.
Failed ==
  /\ Answered
  /\ \/ cpc \in {"wait_open", "wait_commit"} /\ ~IsOk /\ Hangup(FALSE)
     \/ cpc = "wait_list" /\ Answer.kind # "list" /\ Hangup(FALSE)
     \/ cpc = "wait_drop" /\ Answer.kind # "deleted" /\ Hangup(IsOk)
     \/ cpc = "wait_undo" /\ Hangup(IsOk /\ result)
     \/ /\ \/ cpc = "wait_put" /\ Answer.kind \notin {"put_ok", "dont_need"}
           \/ cpc = "wait_hash" /\ Answer.kind \in {"put_ok", "tx_ok", "deleted", "list"}
        /\ \/ job.transaction /\ GoUndo(FALSE) /\ TakeAnswer
           \/ ~job.transaction /\ Hangup(FALSE)
  /\ UNCHANGED <<job, source, position, asked, commits, disk, sessions, c2s, faults>>

\* The session has nothing to say, or is gone.
SessionWaits == spc[try] \in {"idle", "ended"} /\ c2s[try] = <<>>

\* get_answer ends with the connection, because nothing will come, or (a
\* fault) because the session is too slow; its answer may come later.
NoAnswer(slow) ==
  /\ cpc \in Waiting /\ s2c[try] = <<>>
  /\ IF slow THEN up[try] /\ ~SessionWaits /\ Fault
             ELSE (~up[try] \/ SessionWaits) /\ UNCHANGED faults
  /\ \/ cpc = "wait_hash" /\ FileError
     \/ cpc = "wait_put" /\ Abandon /\ UNCHANGED <<todo, objErr, c2s>>
     \/ cpc \notin {"wait_hash", "wait_put"} /\ Hangup(FALSE) /\ UNCHANGED <<todo, objErr, c2s>>
  /\ UNCHANGED <<job, source, listed, file_hash, post, sent, asked, commits, disk, sessions>>

\* "clean dir from ANY files" when no file had an error and none was added.
Clean ==
  /\ cpc = "clean"
  /\ \/ job.post = "delete" /\ ~objErr /\ ~added /\ GoTo("listing") /\ UNCHANGED <<s2c, up>>
     \/ ~(job.post = "delete" /\ ~objErr /\ ~added) /\ Hangup(TRUE)
  /\ UNCHANGED <<job, source, position, asked, commits, disk, sessions, c2s, faults>>

\* Only then list what is there now, and delete it one by one.
CleanList(cut) ==
  /\ cpc = "listing" /\ Finds(cut) /\ GoTo("wipe")
  /\ UNCHANGED <<job, source, listed, file_hash, post, objErr, sent, asked, commits, disk,
                 sessions, net>>

CleanFile ==
  /\ cpc = "wipe"
  /\ \/ /\ todo # {} /\ src' = [src EXCEPT ![cur] = NoFile] /\ todo' = todo \ {cur}
        /\ UNCHANGED <<cpc, try, result, s2c, up>>
     \/ todo = {} /\ Hangup(TRUE) /\ UNCHANGED <<src, todo>>
  /\ UNCHANGED <<job, added, touched, listed, file_hash, post, objErr, sent, asked, commits, disk,
                 sessions, c2s, faults>>

Client ==
  \/ Connect \/ Begin \/ Opened \/ Search(FALSE) \/ SearchError(FALSE) \/ GetHash \/ NoHash(FALSE)
  \/ CompareHash \/ HashError
  \/ PutFile \/ PutDone \/ DontNeed \/ Commit \/ Committed \/ Undo \/ Failed
  \/ NoAnswer(FALSE) \/ Sync(FALSE) \/ SyncCompare \/ SyncDelete \/ SyncDeleted
  \/ Clean \/ CleanList(FALSE) \/ CleanFile

-----------------------------------------------------------------------------
(* The server: the session of attempt k.                                   *)

Input(k)     == Head(c2s[k])
TakeInput(k) == c2s' = [c2s EXCEPT ![k] = Tail(@)]
Has(k, c)    == spc[k] = "idle" /\ c2s[k] # <<>> /\ Input(k).kind = c
Goto(k, s)   == spc' = [spc EXCEPT ![k] = s]

\* done(): the session ends, what it has not read is lost.
EndSession(k) ==
  /\ Goto(k, "ended")
  /\ up' = [up EXCEPT ![k] = FALSE]
  /\ c2s' = [c2s EXCEPT ![k] = <<>>]

\* Answer m to the command just read and go to s; a failed write ends the
\* session.
Reply(k, m, s) ==
  \/ Goto(k, s) /\ TakeInput(k) /\ s2c' = Sends(s2c, k, m) /\ UNCHANGED up
  \/ ~up[k] /\ EndSession(k) /\ UNCHANGED s2c

\* In a transaction an error ends the session.
ReplyError(k) ==
  \/ ~inTx[k] /\ Reply(k, Simple("error"), "idle")
  \/ inTx[k] /\ s2c' = Sends(s2c, k, Simple("error")) /\ EndSession(k)

SrvOpen(k) ==
  /\ Has(k, "open")
  /\ Reply(k, Simple(IF inTx[k] THEN "error" ELSE "tx_ok"), "idle")
  /\ inTx' = [inTx EXCEPT ![k] = TRUE]
  /\ files' = [files EXCEPT ![k] = IF inTx[k] THEN @ ELSE <<>>]
  /\ UNCHANGED <<job, source, client, disk, faults>>

\* The server's file cannot be read.
SrvHashError(k) ==
  /\ Has(k, "get_hash") /\ Fault /\ Reply(k, Simple("error"), "idle")
  /\ UNCHANGED <<job, source, client, disk, inTx, files>>

SrvGetHash(k) ==
  /\ Has(k, "get_hash")
  /\ LET d == dest[Input(k).file]
     IN Reply(k, IF d = NoFile THEN Simple("not_found") ELSE Frame("hash", Input(k).file, d, NoFile),
              "idle")
  /\ UNCHANGED <<job, source, client, disk, inTx, files, faults>>

\* Without overwrite an existing destination is left alone.
SrvDontNeed(k) ==
  /\ Has(k, "put_file") /\ ~job.overwrite /\ dest[Input(k).file] # NoFile
  /\ Reply(k, Simple("dont_need"), "idle")
  /\ UNCHANGED <<job, source, client, disk, inTx, files, faults>>

Temp(f) == job.tempName[f]

\* The temporary file after content d was received: the blocks it already
\* had are kept when it is long enough.
Received(t, d) == IF temp[t] \in {NoFile, d} THEN {d} ELSE {d, Mixed}

\* Mutant: in a transaction, too, the destination is replaced at once.
SrvPutFileAtOnce(k) ==
  /\ Has(k, "put_file") /\ (job.overwrite \/ dest[Input(k).file] = NoFile)
  /\ \E content \in Received(Temp(Input(k).file), Input(k).data) :
       /\ temp' = [temp EXCEPT ![Temp(Input(k).file)] = content]
       /\ dest' = [dest EXCEPT ![Input(k).file] = content]
       /\ Reply(k, Simple(IF content = Input(k).hash THEN "put_ok" ELSE "error"), "idle")
  /\ UNCHANGED <<job, source, client, copyFailed, inTx, files, faults>>

\* Mutant: in a transaction the list keeps only the last file.
SrvPutFileLast(k) ==
  /\ Has(k, "put_file") /\ (job.overwrite \/ dest[Input(k).file] = NoFile)
  /\ LET f == Input(k).file
     IN \E content \in Received(Temp(f), Input(k).data) :
          /\ temp' = [temp EXCEPT ![Temp(f)] = content]
          /\ \/ /\ content = Input(k).hash /\ files' = [files EXCEPT ![k] = <<f>>]
                /\ Reply(k, Simple("put_ok"), IF inTx[k] THEN "idle" ELSE "copy")
             \/ content # Input(k).hash /\ ReplyError(k) /\ UNCHANGED files
  /\ UNCHANGED <<job, source, client, dest, copyFailed, inTx, faults>>

\* Receive the file, check its hash, answer; then, in a transaction, put it on
\* the list, without one go on to copy it.
SrvPutFile(k) ==
  /\ Has(k, "put_file") /\ (job.overwrite \/ dest[Input(k).file] = NoFile)
  /\ LET f == Input(k).file
     IN \E content \in Received(Temp(f), Input(k).data) :
          /\ temp' = [temp EXCEPT ![Temp(f)] = content]
          /\ \/ /\ content = Input(k).hash
                /\ files' = [files EXCEPT ![k] = <<f>> \o (IF inTx[k] THEN @ ELSE <<>>)]
                /\ Reply(k, Simple("put_ok"), IF inTx[k] THEN "idle" ELSE "copy")
             \/ content # Input(k).hash /\ ReplyError(k) /\ UNCHANGED files
  /\ UNCHANGED <<job, source, client, dest, copyFailed, inTx, faults>>

\* Receiving fails before the end: connection lost, disk full, temp busy.
SrvPutError(k) ==
  /\ Has(k, "put_file") /\ Fault /\ ReplyError(k)
  /\ UNCHANGED <<job, source, client, disk, inTx, files>>

SrvCommit(k) ==
  /\ Has(k, "commit")
  /\ \/ inTx[k] /\ Goto(k, "commit") /\ TakeInput(k) /\ UNCHANGED <<s2c, up>>
     \/ ~inTx[k] /\ Reply(k, Simple("error"), "idle")
  /\ UNCHANGED <<job, source, client, disk, inTx, files, faults>>

\* CopyFile of the first file of the list; temp is deleted when it succeeds.
\* A failure is only logged.
SrvCopy(k) ==
  /\ spc[k] \in {"copy", "commit"} /\ files[k] # <<>>
  /\ LET f == Head(files[k])
         t == Temp(f)
     IN \/ /\ temp[t] # NoFile
           /\ dest' = [dest EXCEPT ![f] = temp[t]] /\ temp' = [temp EXCEPT ![t] = NoFile]
           /\ UNCHANGED copyFailed
        \/ /\ temp[t] = NoFile /\ copyFailed' = TRUE /\ UNCHANGED <<temp, dest>>
  /\ files' = [files EXCEPT ![k] = Tail(@)]
  /\ spc' = [spc EXCEPT ![k] = IF @ = "copy" THEN "idle" ELSE @]
  /\ UNCHANGED <<job, source, client, inTx, net, faults>>

SrvCopyFail(k) ==
  /\ spc[k] \in {"copy", "commit"} /\ files[k] # <<>> /\ Fault
  /\ copyFailed' = TRUE
  /\ files' = [files EXCEPT ![k] = Tail(@)]
  /\ spc' = [spc EXCEPT ![k] = IF @ = "copy" THEN "idle" ELSE @]
  /\ UNCHANGED <<job, source, client, temp, dest, inTx, net>>

\* The list is empty: the transaction is closed and acknowledged.
SrvCommitted(k) ==
  /\ spc[k] = "commit" /\ files[k] = <<>>
  /\ inTx' = [inTx EXCEPT ![k] = FALSE]
  /\ \/ Goto(k, "idle") /\ s2c' = Sends(s2c, k, Simple("tx_ok")) /\ UNCHANGED <<c2s, up>>
     \/ ~up[k] /\ EndSession(k) /\ UNCHANGED s2c
  /\ UNCHANGED <<job, source, client, disk, files, faults>>

\* The temporary files stay.
SrvUndo(k) ==
  /\ Has(k, "undo")
  /\ Reply(k, Simple(IF inTx[k] THEN "tx_ok" ELSE "error"), "idle")
  /\ inTx' = [inTx EXCEPT ![k] = FALSE]
  /\ files' = [files EXCEPT ![k] = IF inTx[k] THEN <<>> ELSE @]
  /\ UNCHANGED <<job, source, client, disk, faults>>

\* The files there are, perhaps none; the empty root of a drive is an error.
SrvEnum(k) ==
  /\ Has(k, "enum")
  /\ LET there == {f \in Files : dest[f] # NoFile}
     IN Reply(k, List(there), "idle") \/ (there = {} /\ Reply(k, Simple("error"), "idle"))
  /\ UNCHANGED <<job, source, client, disk, inTx, files, faults>>

SrvDelete(k) ==
  /\ Has(k, "delete")
  /\ LET f == Input(k).file
     IN /\ dest' = [dest EXCEPT ![f] = NoFile]
        /\ Reply(k, Simple(IF dest[f] = NoFile THEN "error" ELSE "deleted"), "idle")
  /\ UNCHANGED <<job, source, client, temp, copyFailed, inTx, files, faults>>

\* The files cannot be searched, or not to the end of a directory; the file
\* cannot be deleted.
SrvSyncError(k) ==
  /\ Fault
  /\ \/ (Has(k, "enum") \/ Has(k, "delete")) /\ Reply(k, Simple("error"), "idle")
     \/ Has(k, "enum") /\ \E part \in SUBSET {f \in Files : dest[f] # NoFile} :
                           Reply(k, List(part), "idle")
  /\ UNCHANGED <<job, source, client, disk, inTx, files>>

\* The connection is gone: the session ends, and its list with it.
SrvGiveUp(k) ==
  /\ spc[k] = "idle" /\ c2s[k] = <<>> /\ ~up[k]
  /\ Goto(k, "ended")
  /\ UNCHANGED <<job, source, client, disk, inTx, files, net, faults>>

Session(k) ==
  \/ SrvOpen(k) \/ SrvGetHash(k) \/ SrvDontNeed(k) \/ SrvPutFile(k) \/ SrvCommit(k)
  \/ SrvCopy(k) \/ SrvCommitted(k) \/ SrvUndo(k) \/ SrvEnum(k) \/ SrvDelete(k)
  \/ SrvGiveUp(k)

-----------------------------------------------------------------------------
(* The environment.                                                        *)

\* A user changes a source file, removes it or adds it again.
SourceChange ==
  /\ cpc # "done" /\ Fault
  /\ \E f \in Files, c \in Contents \cup {NoFile} :
       /\ c # src[f] /\ src' = [src EXCEPT ![f] = c]
       /\ touched' = touched \cup {f} /\ added' = (added \/ src[f] = NoFile)
  /\ UNCHANGED <<job, client, disk, sessions, net>>

\* The connection is reset, or the session has waited for its timeout.
Break(k) ==
  /\ up[k] /\ Fault
  /\ up' = [up EXCEPT ![k] = FALSE]
  /\ c2s' = [c2s EXCEPT ![k] = <<>>] /\ s2c' = [s2c EXCEPT ![k] = <<>>]
  /\ UNCHANGED <<job, source, client, disk, sessions>>

\* The server's process dies, between two files of a commit perhaps.
Crash ==
  /\ Fault
  /\ spc' = [k \in Attempts |-> IF spc[k] = "none" THEN "none" ELSE "ended"]
  /\ up' = [k \in Attempts |-> FALSE]
  /\ c2s' = [k \in Attempts |-> <<>>] /\ s2c' = [k \in Attempts |-> <<>>]
  /\ UNCHANGED <<job, source, client, disk, inTx, files>>

Environment ==
  \/ ConnectFail \/ Search(TRUE) \/ SearchError(TRUE) \/ NoHash(TRUE) \/ NoAnswer(TRUE)
  \/ Sync(TRUE) \/ CleanList(TRUE) \/ SourceChange \/ Crash
  \/ \E k \in Attempts : Break(k) \/ SrvHashError(k) \/ SrvPutError(k) \/ SrvCopyFail(k)
                          \/ SrvSyncError(k)

Finished ==
  /\ cpc = "done" /\ \A k \in Attempts : spc[k] \in {"none", "ended"}
  /\ UNCHANGED vars

Next ==
  \/ Client
  \/ \E k \in Attempts : Session(k)
  \/ Environment
  \/ Finished

Spec == Init /\ [][Next]_vars

-----------------------------------------------------------------------------
(* Properties.                                                             *)

\* No two files of the job share a temporary file.
OwnTemps == \A f, g \in Files : f # g => Temp(f) # Temp(g)

\* The destinations change as StagedFiles says: in a transaction none before
\* the client has requested a commit, whatever attempts were made and given up,
\* and each only by a content announced for it, or for a file that shares its
\* temporary file (command_transaction, 1004-1058).
Staged == INSTANCE StagedFiles
  WITH dest <- dest,
       known <- [f \in Files |-> UNION {asked[g] : g \in {h \in Files : Temp(h) = Temp(f)}}],
       installing <- ~job.transaction \/ commits
InstallsStaged == Staged!Spec

\* A synchronisation removes a file of the server only when there is no such
\* source, unless a user has touched it meanwhile or the client's own search has
\* passed it over (1803-1871).
SyncDeletesExtra ==
  [][\A f \in Files \ touched' : dest[f] # NoFile /\ dest'[f] = NoFile => src[f] = NoFile]_vars

\* A transaction that ends well has brought every file, although it may have
\* taken several attempts, some of which were committed in part.
AllDelivered ==
  job.transaction /\ job.overwrite /\ OwnTemps /\ ~copyFailed /\ cpc = "done" /\ result =>
    \A f \in listed : dest[f] = sent[f] \/ (job.post = "sync" /\ f \in touched)

\* A transaction deletes a source that no user has changed and no search passed
\* over only when the server has its content where it belongs (1652-1702, and
\* the cleaning, 1884-1966).
SourceKept ==
  [][job.transaction /\ job.overwrite /\ OwnTemps /\ ~copyFailed =>
       \A f \in Files \ touched' : src[f] # NoFile /\ src'[f] = NoFile => dest[f] = src[f]]_vars

-----------------------------------------------------------------------------
(* What a comment of the code says.                                        *)

\* "if hashes match - go out !!!" (clientjob.cpp 1418): a source is taken for
\* sent, and deleted, because the server has it.
DeletedIsHeld ==
  [][job.overwrite /\ OwnTemps /\ ~copyFailed =>
       \A f \in Files \ touched' : src[f] # NoFile /\ src'[f] = NoFile =>
         src[f] \in {dest[f], temp[Temp(f)]}]_vars
=============================================================================
