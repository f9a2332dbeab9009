------------------------------- MODULE GetFile -------------------------------
(***************************************************************************)
(* One file fetched by a read job: the per-file part of                    *)
(* TClientJob::do_get_file (non-transaction job), the attempts of          *)
(* TClientJob::work around it, and TMainClass::command_get_hash,           *)
(* command_get_file and command_delete_file, which answer it.              *)
(*                                                                         *)
(* Here the client keeps the temporary file and replaces the destination;  *)
(* the server reads the source, which users may change at any time, and    *)
(* deletes it when the client asks.  Attempts and sessions are numbered as *)
(* in PutFile, and a hash is again the content it was computed from.       *)
(***************************************************************************)
EXTENDS Blocks

CONSTANTS
  Versions,     \* the contents the source file may have
  Overwrite,    \* TAObject::overwrite
  DeleteSrc,    \* the job's postprocess is delete_files
  MaxTry,       \* MAX_TRY
  MaxFaults,    \* bound: how many times the environment misbehaves
  NoFile, Torn  \* no such file; a file CopyFile has only written in part

ASSUME GetFileAssumption ==
  /\ Versions \subseteq Content
  /\ Overwrite \in BOOLEAN /\ DeleteSrc \in BOOLEAN
  /\ MaxTry \in Nat \ {0} /\ MaxFaults \in Nat
  /\ NoFile \notin Content /\ Torn \notin Content /\ NoFile # Torn

VARIABLES
  doubtful,    \* history: a user has changed the source, or its hash could not be taken
  src,         \* the source file in the object's server_path
  cpc,         \* where the client is in do_get_file
  try,         \* the number of the current attempt
  want,        \* get_file_ok: the file's hash, and its size
  left,        \* file_size: the cells the client still expects
  off,         \* the file pointer of the client's handle on temp
  result,      \* result_var, what do_get_file returned
  temp,        \* the client's temporary file
  dest,        \* the destination file, in the object's client_path
  spc,         \* where each session is in its handler
  hashed,      \* the hash a session took of the source (541)
  blk, pages,  \* a session's next block, and how many whole blocks it sends
  c2s, s2c,    \* the two directions of each connection
  up,          \* neither side has closed the connection
  announced,   \* history: every hash sent with get_file_ok
  unchecked,   \* history: what temp held when the server announced no content
  faults       \* how many faults there have been

client   == <<cpc, try, want, left, off, result>>
disk     == <<temp, dest, unchecked>>
sessions == <<spc, hashed, blk, pages, announced>>
net      == <<c2s, s2c, up>>
source   == <<src, doubtful>>
vars == <<source, client, disk, sessions, net, faults>>

Attempts == 1..MaxTry
Frame(k, d, n) == [kind |-> k, data |-> d, n |-> n]
Commands == [kind : {"get_hash", "get_file", "delete", "ok", "error"}, data : {NoFile}, n : Nat]
Answers  == [kind : {"hash", "file", "data", "deleted", "error", "rest"},
             data : Content \cup {NoFile}, n : Nat]

Waiting == {"wait_hash", "wait_file", "wait_del"}
Sending == {"hashed", "send"}   \* the session has the source open
Live    == Sending \cup {"idle", "ack"}

TypeOK ==
  /\ src \in Content \cup {NoFile} /\ doubtful \in BOOLEAN
  /\ cpc \in {"connect", "begin", "open", "recv", "check", "ack", "copy", "copying",
              "drop", "post", "done"} \cup Waiting
  /\ try \in Attempts
  /\ want \in [hash : Content \cup {NoFile}, size : Nat]
  /\ left \in Int /\ off \in Nat /\ result \in BOOLEAN
  /\ temp \in Content \cup {NoFile} /\ dest \in Content \cup {NoFile, Torn}
  /\ spc \in [Attempts -> Live \cup {"none", "ended"}]
  /\ hashed \in [Attempts -> Content \cup {NoFile}]
  /\ blk \in [Attempts -> Nat] /\ pages \in [Attempts -> Nat]
  /\ c2s \in [Attempts -> Seq(Commands)] /\ s2c \in [Attempts -> Seq(Answers)]
  /\ up \in [Attempts -> BOOLEAN]
  /\ announced \subseteq Content /\ unchecked \subseteq Content /\ faults \in 0..MaxFaults

Init ==
  /\ src \in Versions /\ doubtful = FALSE /\ cpc = "connect" /\ try = 1
  /\ want = [hash |-> NoFile, size |-> 0] /\ left = 0 /\ off = 0 /\ result = FALSE
  /\ temp = NoFile /\ dest \in Versions \cup {NoFile}
  /\ spc = [k \in Attempts |-> "none"]
  /\ hashed = [k \in Attempts |-> NoFile]
  /\ blk = [k \in Attempts |-> 0] /\ pages = [k \in Attempts |-> 0]
  /\ c2s = [k \in Attempts |-> <<>>] /\ s2c = [k \in Attempts |-> <<>>]
  /\ up = [k \in Attempts |-> FALSE]
  /\ announced = {dest} \ {NoFile} /\ unchecked = {} /\ faults = 0

\* A fault uses up one of the MaxFaults.
Fault == faults < MaxFaults /\ faults' = faults + 1

\* What is sent arrives while the connection is up, and is lost afterwards.
Sends(ch, k, m) == IF up[k] THEN [ch EXCEPT ![k] = Append(@, m)] ELSE ch

-----------------------------------------------------------------------------
(* The client.                                                             *)

\* Mutants: no attempt is ever counted; one attempt too many.
HangupUncounted(r) ==
  /\ up' = [up EXCEPT ![try] = FALSE]
  /\ s2c' = [s2c EXCEPT ![try] = <<>>]
  /\ result' = r /\ UNCHANGED try
  /\ cpc' = IF r THEN "done" ELSE "connect"

HangupOffByOne(r) ==
  /\ up' = [up EXCEPT ![try] = FALSE]
  /\ s2c' = [s2c EXCEPT ![try] = <<>>]
  /\ result' = r
  /\ cpc' = IF r \/ try > MaxTry THEN "done" ELSE "connect"
  /\ try' = IF r THEN try ELSE try + 1

\* do_get_file returns r; work closes the socket and makes the next attempt
\* unless r is TRUE or there is none left.
Hangup(r) ==
  /\ up' = [up EXCEPT ![try] = FALSE]
  /\ s2c' = [s2c EXCEPT ![try] = <<>>]
  /\ result' = r
  /\ \/ (r \/ try = MaxTry) /\ cpc' = "done" /\ UNCHANGED try
     \/ ~(r \/ try = MaxTry) /\ cpc' = "connect" /\ try' = try + 1

\* goto next_block: there is no other file and result_var is TRUE.
NextBlock == Hangup(TRUE)

\* Send command m and go to s; a failed write is repeated in a new attempt.
Request(m, s) ==
  \/ /\ c2s' = Sends(c2s, try, m) /\ cpc' = s /\ UNCHANGED <<try, result, s2c, up>>
  \/ ~up[try] /\ Hangup(FALSE) /\ UNCHANGED c2s

Connect ==
  /\ cpc = "connect" /\ cpc' = "begin"
  /\ up' = [up EXCEPT ![try] = TRUE] /\ spc' = [spc EXCEPT ![try] = "idle"]
  /\ UNCHANGED <<source, try, want, left, off, result, disk, hashed, blk, pages,
                 announced, c2s, s2c, faults>>

ConnectFail ==
  /\ cpc = "connect" /\ Fault /\ Hangup(FALSE)
  /\ UNCHANGED <<source, want, left, off, disk, sessions, c2s>>

\* Without overwrite an existing destination is left alone; otherwise its
\* hash is compared with the server's; without one the file is fetched.
MayReplace == Overwrite \/ dest = NoFile

Begin ==
  /\ cpc = "begin"
  /\ \/ ~MayReplace /\ NextBlock /\ UNCHANGED c2s
     \/ MayReplace /\ dest # NoFile /\ Request(Frame("get_hash", NoFile, 0), "wait_hash")
     \/ dest = NoFile /\ cpc' = "open" /\ UNCHANGED <<try, result, net>>
  /\ UNCHANGED <<source, want, left, off, disk, sessions, faults>>

Answer == Head(s2c[try])
TakeAnswer == s2c' = [s2c EXCEPT ![try] = Tail(@)]

\* A torn file has a hash of its own, equal to no other.
CompareHash ==
  /\ cpc = "wait_hash" /\ s2c[try] # <<>> /\ Answer.kind = "hash" /\ TakeAnswer
  /\ cpc' = IF Answer.data = dest THEN "post" ELSE "open"
  /\ UNCHANGED <<source, try, want, left, off, result, disk, sessions, c2s, up, faults>>

\* Any answer but ok, and any but the one expected, ends the attempt.
Refused ==
  /\ cpc \in Waiting /\ s2c[try] # <<>>
  /\ Answer.kind \notin [wait_hash |-> {"hash"}, wait_file |-> {"file"}, wait_del |-> {"deleted"}][cpc]
  /\ Hangup(FALSE)
  /\ UNCHANGED <<source, want, left, off, disk, sessions, c2s, faults>>

\* Open temp, or create it; ask for the blocks it does not have.
OpenTemp ==
  /\ cpc = "open"
  /\ LET file == IF temp = NoFile THEN <<>> ELSE temp
     IN /\ temp' = file /\ off' = StartBlock(file) * BlockSize
        /\ Request(Frame("get_file", NoFile, StartBlock(file)), "wait_file")
  /\ UNCHANGED <<source, want, left, dest, unchecked, sessions, faults>>

\* A size of 0 skips the blocks and the check: whatever temp holds is kept.
StartReceiving ==
  /\ cpc = "wait_file" /\ s2c[try] # <<>> /\ Answer.kind = "file" /\ TakeAnswer
  /\ want' = [hash |-> Answer.data, size |-> Answer.n]
  /\ left' = Answer.n - off
  /\ \/ /\ Answer.n = 0 /\ cpc' = "ack" /\ unchecked' = unchecked \cup {temp}
     \/ Answer.n > 0 /\ cpc' = "recv" /\ UNCHANGED unchecked
  /\ UNCHANGED <<source, try, off, result, temp, dest, sessions, c2s, up, faults>>

\* A data frame is complete once it holds the cells the client asks for.
Need == Lesser(BlockSize, left)
HasBlock ==
  /\ cpc = "recv" /\ left >= 0 /\ s2c[try] # <<>>
  /\ Answer.kind = "data" /\ Need <= Len(Answer.data)

Receive ==
  /\ HasBlock
  /\ temp' = WriteAt(temp, off, SubSeq(Answer.data, 1, Need))
  /\ off' = off + Need /\ left' = left - Need
  /\ cpc' = IF left - Need <= 0 THEN "check" ELSE "recv"
  /\ s2c' = [s2c EXCEPT ![try] = IF Len(Answer.data) > Need
                                   THEN [@ EXCEPT ![1] = Frame("rest", NoFile, 0)]
                                   ELSE Tail(@)]
  /\ UNCHANGED <<source, try, want, result, dest, unchecked, sessions, c2s, up, faults>>

WriteError ==
  /\ HasBlock /\ Fault /\ NextBlock
  /\ UNCHANGED <<source, want, left, off, disk, sessions, c2s>>

\* recv() of a negative size, or of none once a header is not recognised.
BadStream ==
  /\ cpc = "recv"
  /\ left >= 0 => s2c[try] # <<>> /\ Answer.kind \notin {"data", "error"}
  /\ Hangup(FALSE)
  /\ UNCHANGED <<source, want, left, off, disk, sessions, c2s, faults>>

\* Nothing more will come that completes a frame.
Starved ==
  s2c[try] # <<>> => cpc = "recv" /\ \/ Answer.kind = "data" /\ Len(Answer.data) < Need
                                     \/ Answer.kind = "error" /\ left > 0
SessionWaits == spc[try] \in {"idle", "ack", "ended"} /\ c2s[try] = <<>>

\* The client's wait ends with the connection, because the session has
\* nothing left to say, or (a fault) because it is too slow.
NoAnswer(slow) ==
  /\ cpc \in Waiting \cup {"recv"} /\ Starved
  /\ IF slow THEN up[try] /\ ~SessionWaits /\ Fault
             ELSE (~up[try] \/ SessionWaits) /\ UNCHANGED faults
  /\ Hangup(FALSE)
  /\ UNCHANGED <<source, want, left, off, disk, sessions, c2s>>

\* Delete file with bad hash, tell the server, go on with the next file.
Mismatch ==
  /\ cpc = "check" /\ temp # want.hash
  /\ temp' = NoFile
  /\ c2s' = Sends(c2s, try, Frame("error", NoFile, 0))
  /\ NextBlock \/ (~up[try] /\ Hangup(FALSE))
  /\ UNCHANGED <<source, want, left, off, dest, unchecked, sessions, faults>>

\* Mutant: the hashes are not compared.
MatchAnything ==
  /\ cpc = "check" /\ cpc' = "ack"
  /\ UNCHANGED <<source, try, want, left, off, result, disk, sessions, net, faults>>

Match ==
  /\ cpc = "check" /\ temp = want.hash /\ cpc' = "ack"
  /\ UNCHANGED <<source, try, want, left, off, result, disk, sessions, net, faults>>

\* The hash of temp cannot be taken.
HashFail ==
  /\ cpc = "check" /\ Fault
  /\ c2s' = Sends(c2s, try, Frame("error", NoFile, 0))
  /\ NextBlock \/ (~up[try] /\ Hangup(FALSE))
  /\ UNCHANGED <<source, want, left, off, disk, sessions>>

\* Send ACK; when that fails the job ends, and result_var is still TRUE.
Acknowledge ==
  /\ cpc = "ack"
  /\ \/ /\ c2s' = Sends(c2s, try, Frame("ok", NoFile, 0)) /\ cpc' = "copy"
        /\ UNCHANGED <<try, result, s2c, up>>
     \/ ~up[try] /\ Hangup(TRUE) /\ UNCHANGED c2s
  /\ UNCHANGED <<source, want, left, off, disk, sessions, faults>>

Copy ==
  /\ cpc = "copy" /\ dest' = Torn /\ cpc' = "copying"
  /\ UNCHANGED <<source, try, want, left, off, result, temp, unchecked, sessions, net, faults>>

Copied ==
  /\ cpc = "copying" /\ dest' = temp /\ cpc' = "drop"
  /\ UNCHANGED <<source, try, want, left, off, result, temp, unchecked, sessions, net, faults>>

\* Mutant: temp is deleted although CopyFile failed.
CopyFailDrops ==
  /\ cpc \in {"copy", "copying"} /\ Fault /\ cpc' = "drop"
  /\ UNCHANGED <<source, try, want, left, off, result, disk, sessions, net>>

\* The failure of CopyFile is only logged.
CopyFail ==
  /\ cpc \in {"copy", "copying"} /\ Fault /\ cpc' = "post"
  /\ UNCHANGED <<source, try, want, left, off, result, disk, sessions, net>>

\* Delete only if CopyFile succeeded.
DropTemp ==
  /\ cpc = "drop" /\ temp' = NoFile /\ cpc' = "post"
  /\ UNCHANGED <<source, try, want, left, off, result, dest, unchecked, sessions, net, faults>>

\* post_process: ask the server to delete the source.
PostProcess ==
  /\ cpc = "post"
  /\ \/ ~DeleteSrc /\ NextBlock /\ UNCHANGED c2s
     \/ DeleteSrc /\ Request(Frame("delete", NoFile, 0), "wait_del")
  /\ UNCHANGED <<source, want, left, off, disk, sessions, faults>>

Deleted ==
  /\ cpc = "wait_del" /\ s2c[try] # <<>> /\ Answer.kind = "deleted"
  /\ NextBlock
  /\ UNCHANGED <<source, want, left, off, disk, sessions, c2s, faults>>

Client ==
  \/ Connect \/ Begin \/ CompareHash \/ Refused \/ OpenTemp \/ StartReceiving
  \/ Receive \/ BadStream \/ NoAnswer(FALSE) \/ Mismatch \/ Match
  \/ Acknowledge \/ Copy \/ Copied \/ DropTemp \/ PostProcess \/ Deleted

-----------------------------------------------------------------------------
(* The server: the session of attempt k.                                   *)

Input(k)     == Head(c2s[k])
TakeInput(k) == c2s' = [c2s EXCEPT ![k] = Tail(@)]
Goto(k, s)   == spc' = [spc EXCEPT ![k] = s]

EndSession(k) ==
  /\ Goto(k, "ended")
  /\ up' = [up EXCEPT ![k] = FALSE]
  /\ c2s' = [c2s EXCEPT ![k] = <<>>]

\* Write m and go to s; a failed write ends the session.
Say(k, m, s) ==
  \/ Goto(k, s) /\ s2c' = Sends(s2c, k, m) /\ UNCHANGED up
  \/ ~up[k] /\ Goto(k, "ended") /\ up' = [up EXCEPT ![k] = FALSE] /\ UNCHANGED s2c

ErrorFrame == Frame("error", NoFile, 0)

SrvGetHash(k) ==
  /\ spc[k] = "idle" /\ c2s[k] # <<>> /\ Input(k).kind = "get_hash" /\ TakeInput(k)
  /\ Say(k, IF src = NoFile THEN ErrorFrame ELSE Frame("hash", src, 0), "idle")
  /\ UNCHANGED <<source, client, disk, hashed, blk, pages, announced, faults>>

\* Take the hash, then open the source; the result of get_file_hash is not
\* looked at: when it fails the hash is whatever the buffer holds.
SrvGetFile(k) ==
  /\ spc[k] = "idle" /\ c2s[k] # <<>> /\ Input(k).kind = "get_file" /\ TakeInput(k)
  /\ \/ src = NoFile /\ Say(k, ErrorFrame, "idle") /\ UNCHANGED <<doubtful, hashed, blk, faults>>
     \/ /\ src # NoFile /\ Goto(k, "hashed")
        /\ \/ hashed' = [hashed EXCEPT ![k] = src] /\ UNCHANGED <<doubtful, faults>>
           \/ hashed' = [hashed EXCEPT ![k] = NoFile] /\ doubtful' = TRUE /\ Fault
        /\ blk' = [blk EXCEPT ![k] = Input(k).n] /\ UNCHANGED <<s2c, up>>
  /\ UNCHANGED <<src, client, disk, pages, announced>>

SrvStart(k) ==
  /\ spc[k] = "hashed"
  /\ announced' = announced \cup ({hashed[k]} \ {NoFile})
  /\ pages' = [pages EXCEPT ![k] = Len(src) \div BlockSize]
  /\ Say(k, Frame("file", hashed[k], Len(src)), IF src = <<>> THEN "ack" ELSE "send")
  /\ UNCHANGED <<source, client, disk, hashed, blk, c2s, faults>>

\* Mutant: what follows the whole blocks is not sent.
NextSizeWhole(k) == IF blk[k] < pages[k] THEN BlockSize ELSE 0

\* The size of the next data frame: a whole block, or what follows them.
NextSize(k) == IF blk[k] < pages[k] THEN BlockSize ELSE Len(src) - pages[k] * BlockSize
CanRead(k)  == blk[k] * BlockSize + NextSize(k) <= Len(src)

SrvSend(k) ==
  /\ spc[k] = "send" /\ NextSize(k) > 0 /\ CanRead(k)
  /\ Say(k, Frame("data", SubSeq(src, blk[k] * BlockSize + 1, blk[k] * BlockSize + NextSize(k)), 0),
         IF blk[k] < pages[k] THEN "send" ELSE "ack")
  /\ blk' = [blk EXCEPT ![k] = @ + 1]
  /\ UNCHANGED <<source, client, disk, hashed, pages, announced, c2s, faults>>

SrvSentAll(k) ==
  /\ spc[k] = "send" /\ NextSize(k) <= 0 /\ Goto(k, "ack")
  /\ UNCHANGED <<source, client, disk, hashed, blk, pages, announced, net, faults>>

\* A block that cannot be read is reported, what follows the blocks is not.
SrvReadError(k, fault) ==
  /\ spc[k] = "send" /\ NextSize(k) > 0
  /\ IF fault THEN CanRead(k) /\ Fault ELSE ~CanRead(k) /\ UNCHANGED faults
  /\ \/ blk[k] < pages[k] /\ Say(k, ErrorFrame, "idle")
     \/ blk[k] >= pages[k] /\ Goto(k, "idle") /\ UNCHANGED <<s2c, up>>
  /\ UNCHANGED <<source, client, disk, hashed, blk, pages, announced, c2s>>

\* MUST get ack from client: whatever arrives is taken for it.
SrvAck(k) ==
  /\ spc[k] = "ack" /\ c2s[k] # <<>> /\ TakeInput(k) /\ Goto(k, "idle")
  /\ UNCHANGED <<source, client, disk, hashed, blk, pages, announced, s2c, up, faults>>

\* DeleteFile fails while another session has the source open.
SrvDeleteFile(k) ==
  /\ spc[k] = "idle" /\ c2s[k] # <<>> /\ Input(k).kind = "delete" /\ TakeInput(k)
  /\ \/ /\ src # NoFile /\ \A j \in Attempts : spc[j] \notin Sending
        /\ src' = NoFile /\ UNCHANGED doubtful /\ Say(k, Frame("deleted", NoFile, 0), "idle")
     \/ /\ src = NoFile \/ \E j \in Attempts : spc[j] \in Sending
        /\ UNCHANGED source /\ Say(k, ErrorFrame, "idle")
  /\ UNCHANGED <<client, disk, hashed, blk, pages, announced, faults>>

\* parse_buffer: a frame that is not a command.
SrvInvalidCommand(k) ==
  /\ spc[k] = "idle" /\ c2s[k] # <<>> /\ Input(k).kind \in {"ok", "error"} /\ TakeInput(k)
  /\ Say(k, ErrorFrame, "idle")
  /\ UNCHANGED <<source, client, disk, hashed, blk, pages, announced, faults>>

\* Mutant: the session waits for ever.
SrvGiveUpNever(k) == c2s[k] = <<>> /\ ~up[k] /\ UNCHANGED vars

\* The session ends with its connection; a session that waits for the ack
\* stops waiting when it times out (the client never waits for it then).
SrvGiveUp(k) ==
  /\ c2s[k] = <<>> /\ ~up[k]
  /\ \/ spc[k] = "idle" /\ EndSession(k)
     \/ spc[k] = "ack" /\ Goto(k, "idle") /\ UNCHANGED <<up, c2s>>
  /\ UNCHANGED <<source, client, disk, hashed, blk, pages, announced, s2c, faults>>

Session(k) ==
  \/ SrvGetHash(k) \/ SrvGetFile(k) \/ SrvStart(k) \/ SrvSend(k) \/ SrvSentAll(k)
  \/ SrvReadError(k, FALSE) \/ SrvAck(k) \/ SrvDeleteFile(k) \/ SrvInvalidCommand(k)
  \/ SrvGiveUp(k)

-----------------------------------------------------------------------------
(* The environment.                                                        *)

\* A user changes the source; a file that is open cannot be removed.
SourceChange ==
  /\ cpc # "done" /\ Fault /\ doubtful' = TRUE
  /\ src' \in (Versions \cup {NoFile}) \ {src}
  /\ src' = NoFile => \A k \in Attempts : spc[k] \notin Sending
  /\ UNCHANGED <<client, disk, sessions, net>>

Break(k) ==
  /\ up[k] /\ Fault
  /\ up' = [up EXCEPT ![k] = FALSE]
  /\ c2s' = [c2s EXCEPT ![k] = <<>>] /\ s2c' = [s2c EXCEPT ![k] = <<>>]
  /\ UNCHANGED <<source, client, disk, sessions>>

\* The server's process dies.
ServerCrash ==
  /\ Fault
  /\ spc' = [k \in Attempts |-> IF spc[k] = "none" THEN "none" ELSE "ended"]
  /\ up' = [k \in Attempts |-> FALSE]
  /\ c2s' = [k \in Attempts |-> <<>>] /\ s2c' = [k \in Attempts |-> <<>>]
  /\ UNCHANGED <<source, client, disk, hashed, blk, pages, announced>>

\* The client's process dies wherever it is; the next run of the job finds
\* the files as they are.
ClientCrash ==
  /\ cpc \notin {"connect", "done"} /\ Fault /\ Hangup(FALSE)
  /\ UNCHANGED <<source, want, left, off, disk, sessions, c2s>>

Finished ==
  /\ cpc = "done" /\ \A k \in Attempts : spc[k] \in {"none", "ended"}
  /\ UNCHANGED vars

Environment ==
  \/ ConnectFail \/ WriteError \/ HashFail \/ NoAnswer(TRUE) \/ CopyFail
  \/ SourceChange \/ ServerCrash \/ ClientCrash
  \/ \E k \in Attempts : Break(k) \/ SrvReadError(k, TRUE)

Next ==
  \/ Client
  \/ \E k \in Attempts : Session(k)
  \/ Environment
  \/ Finished

Spec == Init /\ [][Next]_vars

\* Every thread keeps running; faults need not happen.
FairSpec == Spec /\ WF_vars(Client) /\ \A k \in Attempts : WF_vars(Session(k))

-----------------------------------------------------------------------------
(* Properties.                                                             *)

\* The destination is replaced as VerifiedFile says: it only ever holds a
\* content whose hash the server sent and the client checked, or an interrupted
\* copy (706-775).  The one exception is what temp held when the server
\* announced a file of size 0: nobody checks it (704).
Replaced == INSTANCE VerifiedFile WITH dest <- dest, announced <- announced \cup unchecked
ReplacesVerified == Replaced!Spec

\* "delete only if CopyFile succeed", "delete file with bad hash !!!": the
\* temporary file disappears only when the destination has its content or
\* its hash is not the one the server sent.
TempKept == [][temp # NoFile /\ temp' = NoFile => dest = temp \/ temp # want.hash]_vars

\* The service deletes a source that no user has changed only while the
\* client has its content, although a request to delete may be carried out
\* long after the attempt that made it has been given up (778-819, 1285).
\* Where the server cannot take the hash the client deletes a good file, of
\* which an earlier attempt may have asked to delete the source.
SourceKept ==
  [][~doubtful' /\ src # NoFile /\ src' = NoFile => src \in {dest, temp}]_vars

\* The job ends whatever the network does, and so does every session.
JobEnds == <>(cpc = "done")
SessionsEnd == \A k \in Attempts : spc[k] = "idle" ~> spc[k] = "ended"

\* When nothing goes wrong the first attempt is successful, leaves no temporary
\* file and, unless it may not replace a file, delivers it, whatever its size is
\* to the block size.
Delivers ==
  cpc = "done" /\ faults = 0 =>
    /\ result /\ try = 1 /\ temp = NoFile
    /\ Overwrite => src = IF DeleteSrc THEN NoFile ELSE dest
=============================================================================
