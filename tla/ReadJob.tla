------------------------------- MODULE ReadJob -------------------------------
(***************************************************************************)
(* A read job of several files: TClientJob::do_get_file as a whole, with   *)
(* or without a transaction, the attempts of work around it, and the       *)
(* commands of TMainClass that answer it: enum_files, get_hash, get_file   *)
(* and delete_file.                                                        *)
(*                                                                         *)
(* GetFile models how one file is fetched; here get_file has one answer,   *)
(* with the hash the server took and the content it sent, and CopyFile is  *)
(* one step.  The client receives, so the client commits: the list of a    *)
(* transaction is its own and no message opens or closes it.               *)
(***************************************************************************)
EXTENDS Integers, Sequences

CONSTANTS
  N,           \* how many files there may be
  Contents,    \* the contents a file may have
  Jobs,        \* the jobs looked at
  MaxTry,      \* MAX_TRY
  MaxFaults,   \* bound: how many times the environment misbehaves
  NoFile, Mixed \* no such file; blocks of two contents

Files    == 1..N
Attempts == 1..MaxTry

\* wild: the job has one object with a wildcard, whose files the server lists;
\* otherwise one object for each file.  tempName: a temporary file is named
\* after the base name of its file.  Only one post-process is possible.
ASSUME ReadJobAssumption ==
  /\ N \in Nat \ {0} /\ MaxTry \in Nat \ {0} /\ MaxFaults \in Nat
  /\ NoFile \notin Contents /\ Mixed \notin Contents /\ NoFile # Mixed
  /\ Jobs \subseteq [transaction : BOOLEAN, overwrite : BOOLEAN, wild : BOOLEAN,
                     post : {"nothing", "delete", "sync"}, tempName : [Files -> Files]]

VARIABLES
  job,         \* the job
  src,         \* the files in the server's directory
  cpc,         \* where the client is in do_get_file
  try,         \* the number of the current attempt
  todo,        \* what is left of get_files
  files,       \* the transaction's files to copy, the last one first
  result,      \* result_var, what do_get_file returned
  temp, dest,  \* the client's temporary files and destinations
  spc,         \* where each session is
  c2s, s2c,    \* the two directions of each connection
  up,          \* neither side has closed the connection
  listed,      \* history: what get_files held at first
  got,         \* history: the contents this attempt has found or fetched
  missed,      \* history: files this attempt left behind, could not copy or did not find
  whole,       \* history: do_get_file came to its last line
  commits,     \* history: a transaction has begun to commit
  asked,       \* history: the hashes announced for each file
  touched,     \* history: the files users have changed or the server's search passed over
  faults       \* how many faults there have been

source  == <<src, touched>>
lists   == <<todo, files, listed, got, missed>>
client  == <<cpc, try, result, whole>>
disk    == <<temp, dest, asked, commits>>
net     == <<c2s, s2c, up>>
vars    == <<job, source, lists, client, disk, spc, net, faults>>

\* fs: the file a frame is about, or the files of a list.
Frame(k, fs, h, d) == [kind |-> k, files |-> fs, hash |-> h, data |-> d]
Simple(k)          == Frame(k, {}, NoFile, NoFile)
Command(k, f)      == Frame(k, {f}, NoFile, NoFile)
Commands == [kind : {"enum", "get_hash", "get_file", "delete", "ack", "nack"},
             files : SUBSET Files, hash : {NoFile}, data : {NoFile}]
Answers  == [kind : {"list", "hash", "file", "deleted", "error", "rest"}, files : SUBSET Files,
             hash : Contents \cup {NoFile}, data : Contents \cup {NoFile}]
Waiting  == {"wait_list", "wait_hash", "wait_file", "wait_del", "wait_drop", "wait_sync"}

TypeOK ==
  /\ job \in Jobs
  /\ src \in [Files -> Contents \cup {NoFile}]
  /\ cpc \in {"connect", "begin", "file", "fetch", "copy", "del", "commit", "drop", "sync",
              "done"} \cup Waiting
  /\ try \in Attempts /\ todo \subseteq Files /\ files \in Seq(Files)
  /\ result \in BOOLEAN
  /\ temp \in [Files -> Contents \cup {NoFile, Mixed}]
  /\ dest \in [Files -> Contents \cup {NoFile}]
  /\ spc \in [Attempts -> {"none", "idle", "ack", "ended"}]
  /\ c2s \in [Attempts -> Seq(Commands)] /\ s2c \in [Attempts -> Seq(Answers)]
  /\ up \in [Attempts -> BOOLEAN]
  /\ listed \subseteq Files /\ got \in [Files -> Contents \cup {NoFile}]
  /\ missed \subseteq Files /\ whole \in BOOLEAN /\ commits \in BOOLEAN
  /\ asked \in [Files -> SUBSET Contents]
  /\ touched \subseteq Files /\ faults \in 0..MaxFaults

Init ==
  /\ job \in Jobs
  /\ src \in [Files -> Contents \cup {NoFile}]
  /\ cpc = "connect" /\ try = 1 /\ todo = {} /\ files = <<>> /\ result = FALSE
  /\ temp = [f \in Files |-> NoFile]
  /\ dest \in [Files -> Contents \cup {NoFile}]
  /\ spc = [k \in Attempts |-> "none"]
  /\ c2s = [k \in Attempts |-> <<>>] /\ s2c = [k \in Attempts |-> <<>>]
  /\ up = [k \in Attempts |-> FALSE]
  /\ listed = {} /\ got = [f \in Files |-> NoFile] /\ missed = {} /\ whole = FALSE
  /\ commits = FALSE /\ asked = [f \in Files |-> {}] /\ touched = {} /\ faults = 0

\* A fault uses up one of the MaxFaults.
Fault == faults < MaxFaults /\ faults' = faults + 1

\* What is sent arrives while the connection is up, and is lost afterwards.
Sends(ch, k, m) == IF up[k] THEN [ch EXCEPT ![k] = Append(@, m)] ELSE ch

-----------------------------------------------------------------------------
(* The client.                                                             *)

GoTo(s) == cpc' = s /\ UNCHANGED <<try, result, whole>>

\* Mutant: one attempt too many.
ReturnOffByOne(r) ==
  /\ up' = [up EXCEPT ![try] = FALSE]
  /\ s2c' = [s2c EXCEPT ![try] = <<>>]
  /\ result' = r
  /\ cpc' = IF r \/ try > MaxTry THEN "done" ELSE "connect"
  /\ try' = IF r \/ try > MaxTry THEN try ELSE try + 1

\* do_get_file returns r; work closes the socket and makes the next attempt
\* unless r is TRUE or there is none left.
Return(r) ==
  /\ up' = [up EXCEPT ![try] = FALSE]
  /\ s2c' = [s2c EXCEPT ![try] = <<>>]
  /\ result' = r
  /\ cpc' = IF r \/ try = MaxTry THEN "done" ELSE "connect"
  /\ try' = IF r \/ try = MaxTry THEN try ELSE try + 1

\* goto out, with result_var r.
Out(r) == Return(r) /\ UNCHANGED <<whole, c2s>>

\* Send command m and go to s; a failed write ends the attempt.
Request(m, s) ==
  \/ c2s' = Sends(c2s, try, m) /\ GoTo(s) /\ UNCHANGED <<s2c, up>>
  \/ ~up[try] /\ Out(FALSE)

\* cur_file; the files are taken in one order, whichever it is.
cur  == CHOOSE f \in todo : TRUE
Temp(f) == job.tempName[f]

\* goto next_block: on to the next file, this one was left behind.
NextBlock ==
  /\ todo' = todo \ {cur} /\ missed' = missed \cup {cur} /\ GoTo("file")
  /\ UNCHANGED <<files, listed, got>>

\* An error of one file ends a transaction; without one the next is tried.
FileError ==
  \/ job.transaction /\ Out(FALSE) /\ UNCHANGED lists
  \/ ~job.transaction /\ NextBlock /\ UNCHANGED <<c2s, s2c, up>>

\* The current file is done with.
Done == todo' = todo \ {cur} /\ UNCHANGED <<listed, missed>> /\ GoTo("file")

Connect ==
  /\ cpc = "connect" /\ GoTo("begin")
  /\ up' = [up EXCEPT ![try] = TRUE] /\ spc' = [spc EXCEPT ![try] = "idle"]
  /\ todo' = {} /\ files' = <<>> /\ listed' = {} /\ missed' = {}
  /\ got' = [f \in Files |-> NoFile]
  /\ UNCHANGED <<job, source, disk, c2s, s2c, faults>>

ConnectFail ==
  /\ cpc = "connect" /\ Fault /\ Out(FALSE)
  /\ UNCHANGED <<job, source, lists, disk, spc>>

\* The server lists the files of a wildcard.
Begin ==
  /\ cpc = "begin"
  /\ \/ job.wild /\ Request(Simple("enum"), "wait_list") /\ UNCHANGED lists
     \/ /\ ~job.wild /\ GoTo("file") /\ todo' = Files /\ listed' = Files
        /\ UNCHANGED <<files, got, missed, net>>
  /\ UNCHANGED <<job, source, disk, spc, faults>>

Answer     == Head(s2c[try])
TakeAnswer == s2c' = [s2c EXCEPT ![try] = Tail(@)]
Answered(w, k) == cpc = w /\ s2c[try] # <<>> /\ Answer.kind = k

Listed ==
  /\ Answered("wait_list", "list") /\ TakeAnswer /\ GoTo("file")
  /\ todo' = Answer.files /\ listed' = Answer.files
  /\ UNCHANGED <<job, source, files, got, missed, disk, spc, c2s, up, faults>>

\* Without overwrite an existing file is left alone; otherwise its hash is
\* asked for; a file that does not exist is fetched.
NextFile ==
  /\ cpc = "file" /\ todo # {}
  /\ \/ dest[cur] # NoFile /\ ~job.overwrite /\ NextBlock /\ UNCHANGED net
     \/ /\ dest[cur] # NoFile /\ job.overwrite
        /\ Request(Command("get_hash", cur), "wait_hash") /\ UNCHANGED lists
     \/ dest[cur] = NoFile /\ GoTo("fetch") /\ UNCHANGED <<lists, net>>
  /\ UNCHANGED <<job, source, disk, spc, faults>>

\* create_dir fails: a transaction is given up for good, and reported as done.
NoDirectory ==
  /\ cpc = "file" /\ todo # {} /\ Fault
  /\ \/ job.transaction /\ Out(TRUE) /\ UNCHANGED lists
     \/ ~job.transaction /\ NextBlock /\ UNCHANGED net
  /\ UNCHANGED <<job, source, disk, spc>>

\* "if hashes match - go out !!!": on to the post-process, in a transaction
\* too; otherwise, or when the own hash cannot be taken, fetch the file.
CompareHash(fault) ==
  /\ Answered("wait_hash", "hash") /\ TakeAnswer
  /\ IF fault THEN Fault ELSE UNCHANGED faults
  /\ \/ /\ ~fault /\ Answer.hash = dest[cur] /\ got' = [got EXCEPT ![cur] = dest[cur]]
        /\ \/ job.post = "delete" /\ GoTo("del") /\ UNCHANGED <<todo, listed, missed>>
           \/ job.post # "delete" /\ Done
        /\ UNCHANGED files
     \/ (fault \/ Answer.hash # dest[cur]) /\ GoTo("fetch") /\ UNCHANGED lists
  /\ UNCHANGED <<job, source, disk, spc, c2s, up>>

Fetch ==
  /\ cpc = "fetch" /\ Request(Command("get_file", cur), "wait_file")
  /\ UNCHANGED <<job, source, lists, disk, spc, faults>>

\* The temporary file cannot be opened.
NoTemp ==
  /\ cpc = "fetch" /\ Fault /\ FileError
  /\ UNCHANGED <<job, source, disk, spc>>

\* The temporary file after content d was received: the blocks it already
\* had are kept when it is long enough.
Received(t, d) == IF temp[t] \in {NoFile, d} THEN {d} ELSE {d, Mixed}

\* Mutants: the file is copied at once in a transaction, too; the list keeps
\* only the last file.
KeepAtOnce == GoTo("copy") /\ UNCHANGED <<todo, files, listed, missed>>
KeepLast ==
  \/ job.transaction /\ files' = <<cur>> /\ Done
  \/ ~job.transaction /\ GoTo("copy") /\ UNCHANGED <<todo, files, listed, missed>>

\* A transaction puts the file on its list, otherwise it is copied next.
Keep ==
  \/ job.transaction /\ files' = <<cur>> \o files /\ Done
  \/ ~job.transaction /\ GoTo("copy") /\ UNCHANGED <<todo, files, listed, missed>>

\* The file has the announced hash: acknowledge and keep it.  When the
\* acknowledgement cannot be written the attempt ends as if it were done.
Fetched ==
  /\ Answered("wait_file", "file") /\ Answer.hash \in Received(Temp(cur), Answer.data)
  /\ temp' = [temp EXCEPT ![Temp(cur)] = Answer.hash]
  /\ asked' = [asked EXCEPT ![cur] = @ \cup {Answer.hash}]
  /\ \/ /\ c2s' = Sends(c2s, try, Simple("ack")) /\ TakeAnswer /\ UNCHANGED up
        /\ got' = [got EXCEPT ![cur] = Answer.hash] /\ Keep
     \/ ~up[try] /\ Out(TRUE) /\ UNCHANGED lists
  /\ UNCHANGED <<job, source, dest, commits, spc, faults>>

\* "hashes don't match": the temporary file is deleted, the server told.
Mismatch ==
  /\ Answered("wait_file", "file") /\ Received(Temp(cur), Answer.data) # {Answer.hash}
  /\ temp' = [temp EXCEPT ![Temp(cur)] = NoFile]
  /\ asked' = [asked EXCEPT ![cur] = @ \cup {Answer.hash}]
  /\ \/ job.transaction /\ Out(FALSE) /\ UNCHANGED lists
     \/ /\ ~job.transaction /\ c2s' = Sends(c2s, try, Simple("nack")) /\ TakeAnswer
        /\ NextBlock /\ UNCHANGED up
     \/ ~up[try] /\ Out(FALSE) /\ UNCHANGED lists
  /\ UNCHANGED <<job, source, dest, commits, spc, faults>>

\* A block cannot be written, or the server could not read it: nothing is
\* acknowledged, and blocks may still be in the stream.  Or the hash of what
\* was received cannot be taken.
NotWritten ==
  /\ Answered("wait_file", "file") /\ Fault
  /\ \/ job.transaction /\ Out(FALSE) /\ UNCHANGED lists
     \/ /\ ~job.transaction /\ NextBlock /\ UNCHANGED up
        /\ \/ TakeAnswer /\ UNCHANGED c2s
           \/ s2c' = [s2c EXCEPT ![try] = <<Simple("rest")>> \o Tail(@)] /\ UNCHANGED c2s
           \/ TakeAnswer /\ c2s' = Sends(c2s, try, Simple("nack"))
  /\ UNCHANGED <<job, source, disk, spc>>

\* Mutant: the temporary file is deleted whether or not it was copied.
CopyToDeletes(f) ==
  /\ temp' = [temp EXCEPT ![Temp(f)] = NoFile]
  /\ \/ /\ temp[Temp(f)] # NoFile
        /\ dest' = [dest EXCEPT ![f] = temp[Temp(f)]] /\ UNCHANGED <<missed, faults>>
     \/ Fault /\ missed' = missed \cup {f} /\ UNCHANGED dest

\* CopyFile of file f; the temporary file is deleted when it succeeds.  A
\* failure is only logged.
CopyTo(f) ==
  \/ /\ temp[Temp(f)] # NoFile
     /\ dest' = [dest EXCEPT ![f] = temp[Temp(f)]]
     /\ temp' = [temp EXCEPT ![Temp(f)] = NoFile]
     /\ UNCHANGED <<missed, faults>>
  \/ /\ IF temp[Temp(f)] = NoFile THEN UNCHANGED faults ELSE Fault
     /\ missed' = missed \cup {f} /\ UNCHANGED <<temp, dest>>

\* The copy of a job that is no transaction, then its post-process.
Copy ==
  /\ cpc = "copy" /\ CopyTo(cur)
  /\ \/ job.post = "delete" /\ GoTo("del") /\ UNCHANGED todo
     \/ job.post # "delete" /\ GoTo("file") /\ todo' = todo \ {cur}
  /\ UNCHANGED <<job, source, files, listed, got, asked, commits, spc, net>>

Delete ==
  /\ cpc = "del" /\ Request(Command("delete", cur), "wait_del")
  /\ UNCHANGED <<job, source, lists, disk, spc, faults>>

Deleted ==
  /\ Answered("wait_del", "deleted") /\ TakeAnswer /\ Done
  /\ UNCHANGED <<job, source, files, got, disk, spc, c2s, up, faults>>

\* All files have been looked at: commit, and synchronise afterwards.
AllListed ==
  /\ cpc = "file" /\ todo = {}
  /\ \/ job.transaction /\ GoTo("commit") /\ commits' = TRUE
     \/ ~job.transaction /\ GoTo("sync") /\ UNCHANGED commits
  /\ UNCHANGED <<job, source, lists, temp, dest, asked, spc, net, faults>>

\* "copy all files to destination": the first file of the list; its source is
\* deleted next, whether or not the copy succeeded.
CommitCopy ==
  /\ cpc = "commit" /\ files # <<>> /\ CopyTo(Head(files))
  /\ \/ job.post = "delete" /\ GoTo("drop") /\ UNCHANGED files
     \/ job.post # "delete" /\ GoTo("commit") /\ files' = Tail(files)
  /\ UNCHANGED <<job, source, todo, listed, got, asked, commits, spc, net>>

CommitDelete ==
  /\ cpc = "drop" /\ Request(Command("delete", Head(files)), "wait_drop")
  /\ UNCHANGED <<job, source, lists, disk, spc, faults>>

CommitDeleted ==
  /\ cpc = "wait_drop" /\ s2c[try] # <<>> /\ Answer.kind # "error"
  /\ TakeAnswer /\ GoTo("commit") /\ files' = Tail(files)
  /\ UNCHANGED <<job, source, todo, listed, got, missed, disk, spc, c2s, up, faults>>

Committed ==
  /\ cpc = "commit" /\ files = <<>> /\ GoTo("sync")
  /\ UNCHANGED <<job, source, lists, disk, spc, net, faults>>

\* do_get_file comes to its end.
End == Return(TRUE) /\ whole' = TRUE /\ UNCHANGED c2s

\* SYNC files: of a wildcard the server is asked again what it has; a named
\* file is compared with itself.
Sync ==
  /\ cpc = "sync"
  /\ \/ job.post = "sync" /\ job.wild /\ Request(Simple("enum"), "wait_sync")
     \/ ~(job.post = "sync" /\ job.wild) /\ End
  /\ UNCHANGED <<job, source, lists, disk, spc, faults>>

\* What the client's own search passes over: nothing, or, when a directory
\* cannot be read to its end, some of the files; no error is reported.
PassesOver(over, cut) ==
  /\ missed' = missed \cup over
  /\ IF cut THEN Fault /\ over # {} ELSE over = {} /\ UNCHANGED faults

\* Mutant: found_file is not reset for the next file.
SyncDeleteNoReset(cut) ==
  /\ Answered("wait_sync", "list")
  /\ \E over \in SUBSET {f \in Files : dest[f] # NoFile} :
       /\ PassesOver(over, cut)
       /\ dest' = [f \in Files |->
                    IF f \in over \/ \E g \in Answer.files : g <= f /\ dest[g] # NoFile
                    THEN dest[f] ELSE NoFile]
  /\ End
  /\ UNCHANGED <<job, source, todo, files, listed, got, temp, asked, commits, spc>>

\* Delete the files that are found and the server did not list.
SyncDelete(cut) ==
  /\ Answered("wait_sync", "list")
  /\ \E over \in SUBSET {f \in Files : dest[f] # NoFile} :
       /\ PassesOver(over, cut)
       /\ dest' = [f \in Files |-> IF f \in Answer.files \cup over THEN dest[f] ELSE NoFile]
  /\ End
  /\ UNCHANGED <<job, source, todo, files, listed, got, temp, asked, commits, spc>>

\* The search fails in the empty root of a drive, or (a fault) for a reason of
\* its own.
NoSearch(fault) ==
  /\ Answered("wait_sync", "list")
  /\ IF fault THEN Fault ELSE (\A f \in Files : dest[f] = NoFile) /\ UNCHANGED faults
  /\ Out(TRUE)
  /\ UNCHANGED <<job, source, lists, disk, spc>>

\* An error, or an answer to something else.
Refused ==
  /\ s2c[try] # <<>>
  /\ \/ cpc \in {"wait_list", "wait_sync"} /\ Answer.kind # "list"
     \/ cpc = "wait_hash" /\ Answer.kind # "hash"
     \/ cpc = "wait_file" /\ Answer.kind # "file"
     \/ cpc = "wait_del" /\ Answer.kind # "deleted"
     \/ cpc = "wait_drop" /\ Answer.kind = "error"
  /\ Out(FALSE)
  /\ UNCHANGED <<job, source, lists, disk, spc, faults>>

\* The session has nothing to say, or is gone.
SessionWaits == spc[try] \in {"idle", "ack", "ended"} /\ c2s[try] = <<>>

\* get_answer ends with the connection, because nothing will come, or (a
\* fault) because the session is too slow; it may do its work later.
NoAnswer(slow) ==
  /\ cpc \in Waiting /\ s2c[try] = <<>>
  /\ IF slow THEN up[try] /\ ~SessionWaits /\ Fault
             ELSE (~up[try] \/ SessionWaits) /\ UNCHANGED faults
  /\ Out(FALSE)
  /\ UNCHANGED <<job, source, lists, disk, spc>>

\* The service stops: the attempt ends as if it were done.
Shutdown ==
  /\ cpc \in Waiting \cup {"file"} /\ Fault /\ Out(TRUE)
  /\ UNCHANGED <<job, source, lists, disk, spc>>

Client ==
  \/ Connect \/ Begin \/ Listed \/ NextFile \/ CompareHash(FALSE) \/ Fetch \/ Fetched
  \/ Mismatch \/ Copy \/ Delete \/ Deleted \/ AllListed \/ CommitCopy \/ CommitDelete
  \/ CommitDeleted \/ Committed \/ Sync \/ SyncDelete(FALSE) \/ NoSearch(FALSE) \/ Refused
  \/ NoAnswer(FALSE)

-----------------------------------------------------------------------------
(* The server: the session of attempt k.                                   *)

Input(k)     == Head(c2s[k])
InputFile(k) == CHOOSE f \in Input(k).files : TRUE
TakeInput(k) == c2s' = [c2s EXCEPT ![k] = Tail(@)]
Goto(k, s)   == spc' = [spc EXCEPT ![k] = s]
Has(k, c)    == spc[k] = "idle" /\ c2s[k] # <<>> /\ Input(k).kind = c

\* Answer m to the command just read and go to s; a failed write ends the
\* session.
Reply(k, m, s) ==
  \/ Goto(k, s) /\ TakeInput(k) /\ s2c' = Sends(s2c, k, m) /\ UNCHANGED up
  \/ /\ ~up[k] /\ Goto(k, "ended") /\ c2s' = [c2s EXCEPT ![k] = <<>>]
     /\ UNCHANGED <<s2c, up>>

there   == {f \in Files : src[f] # NoFile}
List(S) == Frame("list", S, NoFile, NoFile)

\* The files there are, perhaps none; the empty root of a drive is an error.
SrvEnum(k) ==
  /\ Has(k, "enum")
  /\ \/ Reply(k, List(there), "idle")
     \/ there = {} /\ Reply(k, Simple("error"), "idle")
  /\ UNCHANGED <<job, source, lists, client, disk, faults>>

\* A directory cannot be read to its end: a part of the files, and no error.
SrvEnumCut(k) ==
  /\ Has(k, "enum") /\ Fault
  /\ \E part \in (SUBSET there) \ {there} :
       touched' = touched \cup (there \ part) /\ Reply(k, List(part), "idle")
  /\ UNCHANGED <<job, src, lists, client, disk>>

SrvGetHash(k) ==
  /\ Has(k, "get_hash")
  /\ LET f == InputFile(k)
     IN Reply(k, IF src[f] = NoFile THEN Simple("error") ELSE Frame("hash", {f}, src[f], NoFile),
              "idle")
  /\ UNCHANGED <<job, source, lists, client, disk, faults>>

\* The hash is taken, the file opened and sent; the session waits for the
\* acknowledgement.
SrvGetFile(k) ==
  /\ Has(k, "get_file")
  /\ LET f == InputFile(k)
     IN \/ src[f] = NoFile /\ Reply(k, Simple("error"), "idle")
        \/ src[f] # NoFile /\ Reply(k, Frame("file", {f}, src[f], src[f]), "ack")
  /\ UNCHANGED <<job, source, lists, client, disk, faults>>

\* A user changes the file after its hash was taken.
SrvGetFileChanged(k) ==
  /\ Has(k, "get_file") /\ Fault
  /\ LET f == InputFile(k)
     IN /\ src[f] # NoFile
        /\ \E c \in Contents \ {src[f]} :
             /\ src' = [src EXCEPT ![f] = c] /\ touched' = touched \cup {f}
             /\ Reply(k, Frame("file", {f}, src[f], c), "ack")
  /\ UNCHANGED <<job, lists, client, disk>>

\* Whatever comes next is taken for the acknowledgement, a command too.
SrvAck(k) ==
  /\ spc[k] = "ack" /\ c2s[k] # <<>> /\ Goto(k, "idle") /\ TakeInput(k)
  /\ UNCHANGED <<job, source, lists, client, disk, s2c, up, faults>>

SrvDelete(k) ==
  /\ Has(k, "delete")
  /\ LET f == InputFile(k)
     IN /\ src' = [src EXCEPT ![f] = NoFile]
        /\ Reply(k, Simple(IF src[f] = NoFile THEN "error" ELSE "deleted"), "idle")
  /\ UNCHANGED <<job, touched, lists, client, disk, faults>>

\* The file cannot be searched, read or deleted.
SrvError(k) ==
  /\ spc[k] = "idle" /\ c2s[k] # <<>> /\ Input(k).kind \notin {"ack", "nack"} /\ Fault
  /\ Reply(k, Simple("error"), "idle")
  /\ UNCHANGED <<job, source, lists, client, disk>>

\* The connection is gone: the session ends.
SrvGiveUp(k) ==
  /\ spc[k] \in {"idle", "ack"} /\ c2s[k] = <<>> /\ ~up[k] /\ Goto(k, "ended")
  /\ UNCHANGED <<job, source, lists, client, disk, net, faults>>

Session(k) ==
  \/ SrvEnum(k) \/ SrvGetHash(k) \/ SrvGetFile(k) \/ SrvAck(k) \/ SrvDelete(k) \/ SrvGiveUp(k)

-----------------------------------------------------------------------------
(* The environment.                                                        *)

\* A user changes a file of the server, removes it or adds it.
SourceChange ==
  /\ cpc # "done" /\ Fault
  /\ \E f \in Files, c \in Contents \cup {NoFile} :
       c # src[f] /\ src' = [src EXCEPT ![f] = c] /\ touched' = touched \cup {f}
  /\ UNCHANGED <<job, lists, client, disk, spc, net>>

\* The connection is reset.
Break(k) ==
  /\ up[k] /\ Fault
  /\ up' = [up EXCEPT ![k] = FALSE]
  /\ c2s' = [c2s EXCEPT ![k] = <<>>] /\ s2c' = [s2c EXCEPT ![k] = <<>>]
  /\ UNCHANGED <<job, source, lists, client, disk, spc>>

Environment ==
  \/ ConnectFail \/ NoDirectory \/ CompareHash(TRUE) \/ NoTemp \/ NotWritten
  \/ SyncDelete(TRUE) \/ NoSearch(TRUE) \/ NoAnswer(TRUE) \/ SourceChange \/ Shutdown
  \/ \E k \in Attempts : Break(k) \/ SrvError(k) \/ SrvEnumCut(k) \/ SrvGetFileChanged(k)

Finished ==
  /\ cpc = "done" /\ \A k \in Attempts : spc[k] \in {"none", "ended"}
  /\ UNCHANGED vars

Next ==
  \/ Client
  \/ \E k \in Attempts : Session(k)
  \/ Environment
  \/ Finished

Spec == Init /\ [][Next]_vars

-----------------------------------------------------------------------------
(* Properties.                                                             *)

\* No two files of the job share a temporary file.
OwnTemps == \A f, g \in Files : f # g => Temp(f) # Temp(g)

\* A source no user has changed and no search passed over is deleted only when
\* its content is in the destination or still in the temporary file, although a
\* failed CopyFile is only logged and the request may be carried out attempts
\* later (754-819, 854-926).
HeldSomewhere ==
  [][OwnTemps =>
       \A f \in Files \ touched' : src[f] # NoFile /\ src'[f] = NoFile =>
         src[f] \in {dest[f], temp[Temp(f)]}]_vars

\* A transaction that comes to its end has every file that was listed, except
\* those it had to leave and those touched, whatever earlier attempts fetched
\* or committed.
AllFetched ==
  job.transaction /\ OwnTemps /\ whole =>
    \A f \in listed \ (missed \cup touched) : got[f] # NoFile /\ dest[f] = got[f]

\* A synchronisation that comes to its end, with nothing left behind or passed
\* over and no user at work, has made the two directories equal.
Mirrors ==
  /\ job.post = "sync" /\ job.wild /\ OwnTemps /\ whole
  /\ touched = {} /\ missed = {}
  => dest = src

\* The destinations change as StagedFiles says: in a transaction none before
\* all files were received and checked, each by a content announced for it or
\* for a file that shares its temporary file.
Staged == INSTANCE StagedFiles
  WITH dest <- dest,
       known <- [f \in Files |-> UNION {asked[g] : g \in {h \in Files : Temp(h) = Temp(f)}}],
       installing <- ~job.transaction \/ commits
InstallsStaged == Staged!Spec
=============================================================================
