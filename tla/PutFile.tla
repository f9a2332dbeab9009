------------------------------- MODULE PutFile -------------------------------
(***************************************************************************)
(* One file sent by a write job: the per-file part of                      *)
(* TClientJob::do_put_file (non-transaction job), the attempts of          *)
(* TClientJob::work around it, and TMainClass::command_get_hash and        *)
(* command_put_file, which answer it.                                      *)
(*                                                                         *)
(* Attempt k of the job has its own TCP connection and its own server      *)
(* session, the thread TClientThread; a session outlives its connection    *)
(* until it notices.  All sessions of a point share one temporary file,    *)
(* because its name is the file's name followed by the point's id.         *)
(*                                                                         *)
(* A hash is the content it was computed from (MD5 taken as collision      *)
(* free).                                                                  *)
(***************************************************************************)
EXTENDS Blocks

CONSTANTS
  Versions,    \* the contents the source file may have
  Overwrites,  \* the values of TAObject::overwrite looked at
  DeleteSrc,   \* the job's postprocess is delete_files
  MaxTry,      \* MAX_TRY
  Overlap,     \* an attempt may start while an older session still runs
  MaxFaults,   \* bound: how many times the environment misbehaves
  NoFile, Torn \* no such file; a file CopyFile has only written in part

ASSUME PutFileAssumption ==
  /\ Versions \subseteq Content
  /\ Overwrites \subseteq BOOLEAN /\ DeleteSrc \in BOOLEAN /\ Overlap \in BOOLEAN
  /\ MaxTry \in Nat \ {0} /\ MaxFaults \in Nat
  /\ NoFile \notin Content /\ Torn \notin Content /\ NoFile # Torn

VARIABLES
  src,         \* the source file in the object's client_path
  added,       \* a file was added there since init_wait_changes
  overwrite,   \* the object's overwrite
  cpc,         \* where the client is in do_put_file
  try,         \* the number of the current attempt
  file_hash,   \* the hash the client took of the source
  pages,       \* whole blocks of the source when sending began
  blk,         \* the next block to send
  objErr,      \* the object's error flag
  result,      \* result_var, what do_put_file returned
  temp,        \* the server's temporary file of this point
  dest,        \* the destination file
  spc,         \* where each session is in its handler
  req,         \* the hash each session was given with put_file
  left,        \* file_size: the cells a session still expects
  off,         \* the file pointer of a session's handle on temp
  c2s, s2c,    \* the two directions of each connection
  up,          \* neither side has closed the connection
  announced,   \* history: every hash sent with put_file, and what others put
               \*   at the destination
  faults       \* how many faults there have been

source   == <<src, added, overwrite>>
client   == <<cpc, try, file_hash, pages, blk, objErr, result, announced>>
disk     == <<temp, dest>>
sessions == <<spc, req, left, off>>
net      == <<c2s, s2c, up>>
vars == <<source, client, disk, sessions, net, faults>>

Attempts == 1..MaxTry
Commands == [kind : {"put_file", "data"}, data : Content, n : Nat]
            \cup [kind : {"get_hash", "error", "rest"}, data : {NoFile}, n : {0}]
Answers  == [kind : {"hash", "not_found", "start", "dont_need", "ok", "error"},
             data : Content \cup {NoFile, Torn}, n : Nat]
Frame(k, d, n) == [kind |-> k, data |-> d, n |-> n]

Waiting  == {"wait_hash", "wait_start", "wait_ack"}
\* The states in which a session has temp open for writing.
Writing  == {"recv", "swallow"}
Live     == {"idle", "recv", "swallow", "check", "copy", "copying", "delete"}

ClientTypes ==
  /\ src \in Content \cup {NoFile} /\ added \in BOOLEAN /\ overwrite \in BOOLEAN
  /\ cpc \in {"connect", "hash", "send", "clean", "clean_del", "done"} \cup Waiting
  /\ try \in Attempts
  /\ file_hash \in Content \cup {NoFile}
  /\ pages \in Nat /\ blk \in Nat
  /\ objErr \in BOOLEAN /\ result \in BOOLEAN
  /\ announced \subseteq Content

ServerTypes ==
  /\ temp \in Content \cup {NoFile}
  /\ dest \in Content \cup {NoFile, Torn}
  /\ spc \in [Attempts -> Live \cup {"none", "ended"}]
  /\ req \in [Attempts -> Content \cup {NoFile}]
  /\ left \in [Attempts -> Int] /\ off \in [Attempts -> Nat]

NetTypes ==
  /\ c2s \in [Attempts -> Seq(Commands)] /\ s2c \in [Attempts -> Seq(Answers)]
  /\ up \in [Attempts -> BOOLEAN]

TypeOK == ClientTypes /\ ServerTypes /\ NetTypes /\ faults \in 0..MaxFaults

Init ==
  /\ src \in Versions /\ added = FALSE /\ overwrite \in Overwrites
  /\ cpc = "connect" /\ try = 1
  /\ file_hash = NoFile /\ pages = 0 /\ blk = 0
  /\ objErr = FALSE /\ result = FALSE
  /\ temp = NoFile /\ dest \in Versions \cup {NoFile}
  /\ spc = [k \in Attempts |-> "none"]
  /\ req = [k \in Attempts |-> NoFile]
  /\ left = [k \in Attempts |-> 0] /\ off = [k \in Attempts |-> 0]
  /\ c2s = [k \in Attempts |-> <<>>] /\ s2c = [k \in Attempts |-> <<>>]
  /\ up = [k \in Attempts |-> FALSE]
  /\ announced = {dest} \ {NoFile}
  /\ faults = 0

\* A fault uses up one of the MaxFaults.
Fault == faults < MaxFaults /\ faults' = faults + 1

\* send() on a connection that is up delivers; on one the peer has closed it
\* fails, or succeeds and the frame is lost.
Sends(ch, k, m) == IF up[k] THEN [ch EXCEPT ![k] = Append(@, m)] ELSE ch

-----------------------------------------------------------------------------
(* The client: TClientJob::work and do_put_file.                           *)

\* Mutant of Hangup: work does not count its attempts.
HangupUncounted(r) ==
  /\ up' = [up EXCEPT ![try] = FALSE]
  /\ s2c' = [s2c EXCEPT ![try] = <<>>]
  /\ result' = r /\ cpc' = (IF r THEN "done" ELSE "connect") /\ UNCHANGED try

\* Mutant of Hangup: one attempt too many.
HangupOffByOne(r) ==
  /\ up' = [up EXCEPT ![try] = FALSE]
  /\ s2c' = [s2c EXCEPT ![try] = <<>>]
  /\ result' = r
  /\ \/ (r \/ try > MaxTry) /\ cpc' = "done" /\ UNCHANGED try
     \/ ~(r \/ try > MaxTry) /\ cpc' = "connect" /\ try' = try + 1

\* do_put_file returns r; work closes the socket and makes the next attempt
\* unless r is TRUE or there is none left.
Hangup(r) ==
  /\ up' = [up EXCEPT ![try] = FALSE]
  /\ s2c' = [s2c EXCEPT ![try] = <<>>]
  /\ result' = r
  /\ \/ (r \/ try = MaxTry) /\ cpc' = "done" /\ UNCHANGED try
     \/ ~(r \/ try = MaxTry) /\ cpc' = "connect" /\ try' = try + 1

\* goto next_block: the file is left behind, with the object's error or not.
NextBlock(err) ==
  /\ cpc' = "clean" /\ objErr' = (objErr \/ err)
  /\ UNCHANGED <<try, result, up, s2c>>

Connect ==
  /\ cpc = "connect"
  /\ Overlap \/ \A k \in Attempts : spc[k] \in {"none", "ended"}
  /\ cpc' = "hash" /\ objErr' = FALSE
  /\ up' = [up EXCEPT ![try] = TRUE]
  /\ spc' = [spc EXCEPT ![try] = "idle"]
  /\ UNCHANGED <<source, try, file_hash, pages, blk, result, announced, disk,
                 req, left, off, c2s, s2c, faults>>

ConnectFail ==
  /\ cpc = "connect" /\ Fault /\ Hangup(FALSE)
  /\ UNCHANGED <<source, file_hash, pages, blk, objErr, announced, disk, sessions, c2s>>

GetHash ==
  /\ cpc = "hash"
  /\ \/ /\ src = NoFile /\ NextBlock(TRUE)
        /\ UNCHANGED <<file_hash, c2s>>
     \/ /\ src # NoFile /\ file_hash' = src /\ cpc' = "wait_hash"
        /\ c2s' = Sends(c2s, try, Frame("get_hash", NoFile, 0))
        /\ UNCHANGED <<try, objErr, result, s2c, up>>
     \/ /\ src # NoFile /\ file_hash' = src /\ ~up[try] /\ Hangup(FALSE)
        /\ UNCHANGED <<objErr, c2s>>
  /\ UNCHANGED <<source, pages, blk, announced, disk, sessions, faults>>

\* The frame the client reads, and the rest of its input.
Answer == Head(s2c[try])
TakeAnswer == s2c' = [s2c EXCEPT ![try] = Tail(@)]

\* post_process of a job that is not a transaction.
PostProcess ==
  /\ cpc' = "clean"
  /\ src' = IF DeleteSrc THEN NoFile ELSE src
  /\ UNCHANGED <<try, objErr, result, up, added, overwrite>>

\* The server's file is the same: nothing to send.
HashMatches ==
  /\ cpc = "wait_hash" /\ s2c[try] # <<>>
  /\ Answer.kind = "hash" /\ Answer.data = file_hash
  /\ TakeAnswer /\ PostProcess
  /\ UNCHANGED <<file_hash, pages, blk, announced, disk, sessions, c2s, faults>>

\* It differs or there is none: open the source and offer it.
PutRequest ==
  /\ cpc = "wait_hash" /\ s2c[try] # <<>>
  /\ \/ Answer.kind = "hash" /\ Answer.data # file_hash
     \/ Answer.kind = "not_found"
  /\ \/ /\ src = NoFile /\ cpc' = "clean" /\ objErr' = TRUE /\ TakeAnswer
        /\ UNCHANGED <<try, result, up, c2s, announced>>
     \/ /\ src # NoFile /\ cpc' = "wait_start" /\ TakeAnswer
        /\ announced' = announced \cup {file_hash}
        /\ c2s' = Sends(c2s, try, Frame("put_file", file_hash, Len(src)))
        /\ UNCHANGED <<try, objErr, result, up>>
     \/ /\ src # NoFile /\ ~up[try] /\ Hangup(FALSE)
        /\ UNCHANGED <<objErr, c2s, announced>>
  /\ UNCHANGED <<source, file_hash, pages, blk, disk, sessions, faults>>

\* The answer to get_hash is an error other than FILE_NOT_FOUND.
HashError ==
  /\ cpc = "wait_hash" /\ s2c[try] # <<>> /\ Answer.kind = "error"
  /\ cpc' = "clean" /\ objErr' = TRUE /\ TakeAnswer
  /\ UNCHANGED <<source, try, file_hash, pages, blk, result, announced, disk,
                 sessions, c2s, up, faults>>

\* The answer to put_file says from which block to send.
StartSending ==
  /\ cpc = "wait_start" /\ s2c[try] # <<>>
  /\ Answer.kind = "start" /\ TakeAnswer
  /\ \/ src = <<>> /\ cpc' = "wait_ack" /\ UNCHANGED <<pages, blk>>
     \/ /\ src # <<>> /\ cpc' = "send"
        /\ pages' = Len(src) \div BlockSize /\ blk' = Answer.n
  /\ UNCHANGED <<source, try, file_hash, objErr, result, announced, disk,
                 sessions, c2s, up, faults>>

DontNeedOverwrite ==
  /\ cpc = "wait_start" /\ s2c[try] # <<>> /\ Answer.kind = "dont_need"
  /\ cpc' = "clean" /\ TakeAnswer
  /\ UNCHANGED <<source, try, file_hash, pages, blk, objErr, result, announced,
                 disk, sessions, c2s, up, faults>>

\* Mutant of PutRefused: a refused file is left behind without an error.
PutRefusedIgnored ==
  /\ cpc = "wait_start" /\ s2c[try] # <<>> /\ Answer.kind = "error"
  /\ cpc' = "clean" /\ TakeAnswer
  /\ UNCHANGED <<source, try, file_hash, pages, blk, objErr, result, announced,
                 disk, sessions, c2s, up, faults>>

PutRefused ==
  /\ cpc = "wait_start" /\ s2c[try] # <<>> /\ Answer.kind = "error"
  /\ Hangup(FALSE)
  /\ UNCHANGED <<source, file_hash, pages, blk, objErr, announced, disk,
                 sessions, c2s, faults>>

\* Mutant of NextSize: what follows the whole blocks is forgotten.
NextSizeWhole == IF blk < pages THEN BlockSize ELSE 0

\* The size of the next data frame: a whole block, or what follows them.
NextSize == IF blk < pages THEN BlockSize ELSE Len(src) - pages * BlockSize
CanRead  == blk * BlockSize + NextSize <= Len(src)

SendBlock ==
  /\ cpc = "send" /\ NextSize > 0 /\ CanRead
  /\ \/ /\ c2s' = Sends(c2s, try, Frame("data",
                    SubSeq(src, blk * BlockSize + 1, blk * BlockSize + NextSize), 0))
        /\ blk' = blk + 1
        /\ cpc' = IF blk < pages THEN "send" ELSE "wait_ack"
        /\ UNCHANGED <<try, result, s2c, up>>
     \/ ~up[try] /\ Hangup(FALSE) /\ UNCHANGED <<blk, c2s>>
  /\ UNCHANGED <<source, file_hash, pages, objErr, announced, disk, sessions, faults>>

\* The loop over whole blocks is over and nothing remains.
SentAll ==
  /\ cpc = "send" /\ NextSize <= 0 /\ cpc' = "wait_ack"
  /\ UNCHANGED <<source, try, file_hash, pages, blk, objErr, result, announced,
                 disk, sessions, net, faults>>

\* The source cannot be read: a header of type error instead of the block.
SendReadError(fault) ==
  /\ cpc = "send" /\ NextSize > 0
  /\ IF fault THEN CanRead /\ Fault ELSE ~CanRead /\ UNCHANGED faults
  /\ \/ /\ c2s' = Sends(c2s, try, Frame("error", NoFile, 0)) /\ NextBlock(TRUE)
     \/ ~up[try] /\ Hangup(FALSE) /\ objErr' = TRUE /\ UNCHANGED c2s
  /\ UNCHANGED <<source, file_hash, pages, blk, announced, disk, sessions>>

Acknowledged ==
  /\ cpc = "wait_ack" /\ s2c[try] # <<>> /\ Answer.kind = "ok"
  /\ TakeAnswer /\ PostProcess
  /\ UNCHANGED <<file_hash, pages, blk, announced, disk, sessions, c2s, faults>>

Rejected ==
  /\ cpc = "wait_ack" /\ s2c[try] # <<>> /\ Answer.kind = "error"
  /\ Hangup(FALSE) /\ objErr' = TRUE
  /\ UNCHANGED <<source, file_hash, pages, blk, announced, disk, sessions, c2s, faults>>

\* Session k has read all that was sent and its buffer holds no whole frame.
Starved(k) ==
  c2s[k] # <<>> => /\ spc[k] = "recv" /\ Head(c2s[k]).kind = "data"
                   /\ Len(Head(c2s[k]).data) < Lesser(BlockSize, left[k])

Stuck(k) == spc[k] \in Writing \cup {"idle"} /\ Starved(k)

\* get_answer gives up: the connection is down, the session cannot answer
\* any more, or (a fault) it is slower than the client's timeout.
NoAnswer(slow) ==
  /\ cpc \in Waiting /\ s2c[try] = <<>>
  /\ IF slow THEN up[try] /\ ~Stuck(try) /\ Fault
             ELSE (~up[try] \/ Stuck(try)) /\ UNCHANGED faults
  /\ \/ cpc = "wait_hash" /\ NextBlock(TRUE)
     \/ cpc = "wait_start" /\ Hangup(FALSE) /\ UNCHANGED objErr
     \/ cpc = "wait_ack" /\ Hangup(FALSE) /\ objErr' = TRUE
  /\ UNCHANGED <<source, file_hash, pages, blk, announced, disk, sessions, c2s>>

\* clean dir from ANY files: unless the object has an error or a file was
\* added while sending.
Clean ==
  /\ cpc = "clean"
  /\ \/ DeleteSrc /\ ~objErr /\ ~added /\ cpc' = "clean_del"
        /\ UNCHANGED <<try, result, s2c, up>>
     \/ ~(DeleteSrc /\ ~objErr /\ ~added) /\ Hangup(TRUE)
  /\ UNCHANGED <<source, file_hash, pages, blk, objErr, announced, disk,
                 sessions, c2s, faults>>

CleanDelete ==
  /\ cpc = "clean_del" /\ src' = NoFile /\ Hangup(TRUE)
  /\ UNCHANGED <<added, overwrite, file_hash, pages, blk, objErr, announced, disk,
                 sessions, c2s, faults>>

Client ==
  \/ Connect \/ GetHash \/ HashMatches \/ PutRequest \/ HashError
  \/ StartSending \/ DontNeedOverwrite \/ PutRefused
  \/ SendBlock \/ SentAll \/ SendReadError(FALSE)
  \/ Acknowledged \/ Rejected \/ NoAnswer(FALSE) \/ Clean \/ CleanDelete

-----------------------------------------------------------------------------
(* The server: command_get_hash and command_put_file of session k.         *)

Input(k)     == Head(c2s[k])
TakeInput(k) == c2s' = [c2s EXCEPT ![k] = Tail(@)]
Goto(k, s)   == spc' = [spc EXCEPT ![k] = s]

\* The thread ends and deletes its socket.
EndSession(k) ==
  /\ Goto(k, "ended")
  /\ up' = [up EXCEPT ![k] = FALSE]
  /\ c2s' = [c2s EXCEPT ![k] = <<>>]

\* Session k reads its input, writes m and goes to s; if the write fails it
\* goes to bad.
Reply(k, m, s, bad) ==
  \/ /\ Goto(k, s) /\ TakeInput(k) /\ s2c' = Sends(s2c, k, m) /\ UNCHANGED up
  \/ /\ ~up[k] /\ bad = "ended" /\ EndSession(k) /\ UNCHANGED s2c
  \/ /\ ~up[k] /\ bad # "ended" /\ Goto(k, bad) /\ TakeInput(k) /\ UNCHANGED <<s2c, up>>

ErrorFrame == Frame("error", NoFile, 0)

\* The destination's hash; an error when the file cannot be read, because
\* another session copies over it or (a fault) for a reason of its own.
SrvGetHash(k) ==
  /\ spc[k] = "idle" /\ c2s[k] # <<>> /\ Input(k).kind = "get_hash"
  /\ \/ /\ dest = NoFile /\ Reply(k, Frame("not_found", NoFile, 0), "idle", "ended")
        /\ UNCHANGED faults
     \/ dest # NoFile /\ Reply(k, Frame("hash", dest, 0), "idle", "ended") /\ UNCHANGED faults
     \/ /\ dest # NoFile /\ Reply(k, ErrorFrame, "idle", "ended")
        /\ Fault \/ ((\E j \in Attempts : spc[j] = "copying") /\ UNCHANGED faults)
  /\ UNCHANGED <<source, client, disk, req, left, off>>

MayReplace == overwrite \/ dest = NoFile

SrvNoOverwrite(k) ==
  /\ spc[k] = "idle" /\ c2s[k] # <<>> /\ Input(k).kind = "put_file"
  /\ ~MayReplace
  /\ Reply(k, Frame("dont_need", NoFile, 0), "idle", "ended")
  /\ UNCHANGED <<source, client, disk, req, left, off, faults>>

\* temp cannot be opened for writing: another session has it open, or (a
\* fault) the disk does not let it be created.
SrvTempBusy(k) ==
  /\ spc[k] = "idle" /\ c2s[k] # <<>> /\ Input(k).kind = "put_file"
  /\ MayReplace
  /\ \/ Fault
     \/ (\E j \in Attempts \ {k} : spc[j] \in Writing \cup {"copying"}) /\ UNCHANGED faults
  /\ Reply(k, ErrorFrame, "idle", "ended")
  /\ UNCHANGED <<source, client, disk, req, left, off>>

\* Open or create temp, and resume after the blocks it already has.
SrvPutFile(k) ==
  /\ spc[k] = "idle" /\ c2s[k] # <<>> /\ Input(k).kind = "put_file"
  /\ MayReplace
  /\ \A j \in Attempts \ {k} : spc[j] \notin Writing
  /\ LET file  == IF temp = NoFile THEN <<>> ELSE temp
         start == StartBlock(file)
         size  == Input(k).n
     IN /\ temp' = file
        /\ req'  = [req EXCEPT ![k] = Input(k).data]
        /\ left' = [left EXCEPT ![k] = size - start * BlockSize]
        /\ off'  = [off EXCEPT ![k] = start * BlockSize]
        /\ Reply(k, Frame("start", NoFile, start),
                 IF size = 0 THEN "check" ELSE "recv", "ended")
  /\ UNCHANGED <<source, client, dest, faults>>

\* A data frame is complete once it holds the cells the session asks for;
\* cells sent beyond them stay in the stream.
Need(k) == Lesser(BlockSize, left[k])
HasBlock(k) ==
  /\ spc[k] = "recv" /\ c2s[k] # <<>> /\ Input(k).kind = "data"
  /\ Need(k) >= 0 /\ Need(k) <= Len(Input(k).data)

SrvReceive(k) ==
  /\ HasBlock(k)
  /\ temp' = WriteAt(temp, off[k], SubSeq(Input(k).data, 1, Need(k)))
  /\ off'  = [off EXCEPT ![k] = @ + Need(k)]
  /\ left' = [left EXCEPT ![k] = @ - Need(k)]
  /\ Goto(k, IF left[k] - Need(k) <= 0 THEN "check" ELSE "recv")
  /\ c2s' = [c2s EXCEPT ![k] = IF Len(Input(k).data) > Need(k)
                                 THEN [@ EXCEPT ![1] = Frame("rest", NoFile, 0)]
                                 ELSE Tail(@)]
  /\ UNCHANGED <<source, client, dest, req, s2c, up, faults>>

\* file.write failed: report it and go back to parsing commands.
SrvWriteError(k) ==
  /\ HasBlock(k) /\ Fault
  /\ Reply(k, ErrorFrame, "idle", "ended")
  /\ UNCHANGED <<source, client, disk, req, left, off>>

\* The header of an error frame arrives where a block is due: it fills the
\* buffer only when no cell is due.
SrvErrorHeader(k) ==
  /\ spc[k] = "recv" /\ left[k] >= 0 /\ c2s[k] # <<>> /\ Input(k).kind = "error"
  /\ Goto(k, IF left[k] = 0 THEN "idle" ELSE "swallow") /\ TakeInput(k)
  /\ UNCHANGED <<source, client, disk, req, left, off, s2c, up, faults>>

\* recv() of a negative size, or a header that is neither data nor error.
SrvBadStream(k) ==
  /\ \/ spc[k] = "recv" /\ left[k] < 0
     \/ spc[k] = "recv" /\ c2s[k] # <<>> /\ Input(k).kind \notin {"data", "error"}
     \/ spc[k] = "idle" /\ c2s[k] # <<>> /\ Input(k).kind = "rest"
  /\ EndSession(k)
  /\ UNCHANGED <<source, client, disk, req, left, off, s2c, faults>>

\* parse_buffer: a frame that is not a command is an INVALID_COMMAND.
SrvInvalidCommand(k) ==
  /\ spc[k] = "idle" /\ c2s[k] # <<>> /\ Input(k).kind \in {"data", "error"}
  /\ Reply(k, ErrorFrame, "idle", "ended")
  /\ UNCHANGED <<source, client, disk, req, left, off, faults>>

\* Mutant of SrvCheck: whatever was received is accepted.
SrvCheckNothing(k) ==
  /\ spc[k] = "check" /\ temp # NoFile
  /\ Goto(k, "copy") /\ s2c' = Sends(s2c, k, Frame("ok", NoFile, 0))
  /\ UNCHANGED <<source, client, disk, req, left, off, c2s, up, faults>>

\* CHECK recieved file hash: temp is closed, its hash compared with the
\* announced one and the answer written before anything is copied.
SrvCheck(k) ==
  /\ spc[k] = "check"
  /\ \/ /\ temp = req[k]
        /\ \/ Goto(k, "copy") /\ s2c' = Sends(s2c, k, Frame("ok", NoFile, 0))
           \/ ~up[k] /\ Goto(k, "idle") /\ UNCHANGED s2c
        /\ UNCHANGED <<c2s, up>>
     \/ /\ temp # req[k]
        /\ \/ Goto(k, "idle") /\ s2c' = Sends(s2c, k, ErrorFrame) /\ UNCHANGED <<c2s, up>>
           \/ ~up[k] /\ EndSession(k) /\ UNCHANGED s2c
  /\ UNCHANGED <<source, client, disk, req, left, off, faults>>

\* CopyFile over the destination is not atomic, and its failure is ignored.
SrvCopy(k) ==
  /\ spc[k] = "copy" /\ temp # NoFile
  /\ \A j \in Attempts : spc[j] # "copying"
  /\ dest' = Torn /\ Goto(k, "copying")
  /\ UNCHANGED <<source, client, temp, req, left, off, net, faults>>

SrvCopied(k) ==
  /\ spc[k] = "copying" /\ dest' = temp /\ Goto(k, "delete")
  /\ UNCHANGED <<source, client, temp, req, left, off, net, faults>>

\* Mutant of SrvCopyFail: the result of CopyFile is not looked at.
SrvCopyFailDeletes(k) ==
  /\ spc[k] = "copying" /\ Goto(k, "delete") /\ Fault
  /\ UNCHANGED <<source, client, disk, req, left, off, net>>

SrvCopyFail(k) ==
  /\ spc[k] \in {"copy", "copying"} /\ Goto(k, "idle")
  /\ IF spc[k] = "copy" /\ (temp = NoFile \/ \E j \in Attempts : spc[j] = "copying")
       THEN UNCHANGED faults ELSE Fault
  /\ UNCHANGED <<source, client, disk, req, left, off, net>>

\* delete only if CopyFile succeeded; fails while somebody has temp open.
SrvDelete(k) ==
  /\ spc[k] = "delete" /\ Goto(k, "idle")
  /\ temp' = IF \E j \in Attempts \ {k} : spc[j] \in Writing \cup {"copying"}
               THEN temp ELSE NoFile
  /\ UNCHANGED <<source, client, dest, req, left, off, net, faults>>

\* Mutant of SrvGiveUp: a session does not notice that its client has gone.
SrvGiveUpNever(k) ==
  /\ spc[k] \in Writing \cup {"idle"} /\ c2s[k] = <<>> /\ ~up[k]
  /\ UNCHANGED vars

\* The receive loop ends on disconnection or timeout, process_messages too.
SrvGiveUp(k) ==
  /\ \/ /\ spc[k] \in Writing /\ Starved(k)
        /\ ~up[k] \/ (cpc \in Waiting /\ s2c[k] = <<>>)
     \/ spc[k] = "idle" /\ c2s[k] = <<>> /\ ~up[k]
  /\ EndSession(k)
  /\ s2c' = IF spc[k] = "idle" THEN s2c ELSE Sends(s2c, k, ErrorFrame)
  /\ UNCHANGED <<source, client, disk, req, left, off, faults>>

Session(k) ==
  \/ SrvGetHash(k) \/ SrvNoOverwrite(k) \/ SrvTempBusy(k) \/ SrvPutFile(k)
  \/ SrvReceive(k) \/ SrvErrorHeader(k) \/ SrvBadStream(k) \/ SrvInvalidCommand(k)
  \/ SrvCheck(k) \/ SrvCopy(k) \/ SrvCopied(k) \/ SrvCopyFail(k) \/ SrvDelete(k)
  \/ SrvGiveUp(k)

-----------------------------------------------------------------------------
(* The environment.                                                        *)

\* A user changes the source; a file that is open cannot be removed.
SourceChange ==
  /\ cpc # "done" /\ Fault
  /\ src' \in (Versions \cup {NoFile}) \ {src}
  /\ src' = NoFile => cpc \notin {"wait_start", "send"}
  /\ added' = (added \/ src = NoFile)
  /\ UNCHANGED <<overwrite, client, disk, sessions, net>>

\* A user or another job puts a file where there is no destination yet.
DestMade ==
  /\ dest = NoFile /\ Fault
  /\ dest' \in Versions /\ announced' = announced \cup {dest'}
  /\ UNCHANGED <<source, cpc, try, file_hash, pages, blk, objErr, result, temp,
                 sessions, net>>

\* The connection of attempt k is reset and what it carried is lost.
Break(k) ==
  /\ up[k] /\ Fault
  /\ up' = [up EXCEPT ![k] = FALSE]
  /\ c2s' = [c2s EXCEPT ![k] = <<>>] /\ s2c' = [s2c EXCEPT ![k] = <<>>]
  /\ UNCHANGED <<source, client, disk, sessions>>

\* The server's process dies: the files stay as they are.
Crash ==
  /\ Fault
  /\ spc' = [k \in Attempts |-> IF spc[k] = "none" THEN "none" ELSE "ended"]
  /\ up' = [k \in Attempts |-> FALSE]
  /\ c2s' = [k \in Attempts |-> <<>>] /\ s2c' = [k \in Attempts |-> <<>>]
  /\ UNCHANGED <<source, client, disk, req, left, off>>

\* The job and every session have ended.
Finished ==
  /\ cpc = "done" /\ \A k \in Attempts : spc[k] \in {"none", "ended"}
  /\ UNCHANGED vars

Environment ==
  \/ ConnectFail \/ SendReadError(TRUE) \/ NoAnswer(TRUE)
  \/ SourceChange \/ DestMade \/ Crash
  \/ \E k \in Attempts : Break(k) \/ SrvWriteError(k)

Next ==
  \/ Client
  \/ \E k \in Attempts : Session(k)
  \/ Environment
  \/ Finished

Spec == Init /\ [][Next]_vars

\* Every thread keeps running; faults need not happen.
FairSpec == Spec /\ WF_vars(Client) /\ \A k \in Attempts : WF_vars(Session(k))

-----------------------------------------------------------------------------
(* Properties.                                                             *)

\* The destination only ever holds a content whose hash the client announced
\* and the server checked, what somebody else put there, or what an interrupted
\* CopyFile left: never a mix of what different attempts sent (command_put_file
\* 916-975).
DestVerified == dest \in announced \cup {NoFile, Torn}

\* A job that reports no error about the file has brought the content it
\* hashed to the server: it is the destination or still the temporary file,
\* although the answer is written before CopyFile (935-975).
SuccessMeansHeld ==
  cpc = "done" /\ result /\ ~objErr /\ overwrite => file_hash \in {dest, temp}

\* "delete only if CopyFile succeed": the temporary file disappears only when
\* the destination has its content.
TempKeptUntilCopied == [][temp # NoFile /\ temp' = NoFile => dest = temp]_vars

\* The destination is replaced as VerifiedFile says.
Replaced == INSTANCE VerifiedFile WITH dest <- dest, announced <- announced
ReplacesVerified == Replaced!Spec

\* "if file exist and don't need to overwrite - exit" (768): without overwrite
\* an existing destination stays as it is.  The check is made long before the
\* copy, which replaces whatever it finds ("if file exist - replace it", 950).
KeepsExisting == [][~overwrite /\ dest \in Content => dest' = dest]_vars

\* The job ends whatever the network does, and so does every session: each
\* wait has a timeout.
JobEnds == <>(cpc = "done")
SessionsEnd == \A k \in Attempts : spc[k] = "idle" ~> spc[k] = "ended"

\* When nothing goes wrong the first attempt is successful and, unless it may
\* not replace a file, delivers it, whatever its size is to the block size;
\* the copy follows the acknowledgement.
Delivers ==
  cpc = "done" /\ faults = 0 /\ spc[1] \in {"idle", "ended"} =>
    result /\ try = 1 /\ (overwrite => dest = file_hash)

-----------------------------------------------------------------------------
(* Why: one session at a time, so the temporary file it checked is the one *)
(* it copies.                                                              *)

Busy == Writing \cup {"check", "copy", "copying", "delete"}

AnnouncedCommands == {m \in Commands : m.kind = "put_file" => m.data \in announced}

\* At most one session lives.
OneSession == \A j, k \in Attempts : spc[j] \in Live /\ spc[k] \in Live => j = k

\* What a session was or will be asked to receive was announced.
Promised == c2s \in [Attempts -> Seq(AnnouncedCommands)]
Asked    == \A k \in Attempts : spc[k] \in Busy => req[k] \in announced

\* From the check of temp to the end of its copy temp is what was checked;
\* dest is torn while it is copied and equals temp afterwards.
Checked ==
  \A k \in Attempts :
    /\ spc[k] \in {"copy", "copying", "delete"} => temp = req[k]
    /\ spc[k] = "copying" => dest = Torn
    /\ spc[k] = "delete"  => dest = temp

VerifiedInv == OneSession /\ Promised /\ Asked /\ Checked /\ DestVerified
=============================================================================
