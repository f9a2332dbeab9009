---------------------------- MODULE WriteJobProofs ----------------------------
(***************************************************************************)
(* Theorems about WriteJob, for any number of files, attempts and faults,  *)
(* any contents and any jobs.                                              *)
(***************************************************************************)
EXTENDS WriteJob, SequenceTheorems, TLAPS

LEMMA ConstantTypes ==
  /\ N \in Nat \ {0} /\ MaxTry \in Nat \ {0} /\ MaxFaults \in Nat
  /\ NoFile \notin Contents /\ Mixed \notin Contents /\ NoFile # Mixed
  /\ Jobs \subseteq [transaction : BOOLEAN, overwrite : BOOLEAN, wild : BOOLEAN,
                     post : {"nothing", "delete", "sync"}, tempName : [Files -> Files]]
BY WriteJobAssumption

-----------------------------------------------------------------------------
(* The type invariant, in parts, with what it rests on: a command about a  *)
(* file names one, a file that is sent has a hash, and there is a current  *)
(* file where the client works on one.                                     *)

LegalCommands ==
  {m \in Commands :
     /\ m.kind \in {"get_hash", "put_file", "delete"} => m.file \in Files
     /\ m.kind = "put_file" => m.hash \in Contents /\ m.data \in Contents}

SourceTypes ==
  src \in [Files -> Contents \cup {NoFile}] /\ added \in BOOLEAN /\ touched \subseteq Files

PositionTypes ==
  /\ todo \subseteq Files /\ listed \subseteq Files /\ post \subseteq Files
  /\ file_hash \in Contents \cup {NoFile} /\ objErr \in BOOLEAN
  /\ sent \in [Files -> Contents \cup {NoFile}]

ClientTypes ==
  /\ cpc \in {"connect", "begin", "search", "file", "put", "undo", "sync", "drop", "clean",
              "listing", "wipe", "done"} \cup Waiting
  /\ try \in Attempts /\ result \in BOOLEAN

HistoryTypes == asked \in [Files -> SUBSET Contents] /\ commits \in BOOLEAN

DiskTypes ==
  /\ temp \in [Files -> Contents \cup {NoFile, Mixed}]
  /\ dest \in [Files -> Contents \cup {NoFile, Mixed}]
  /\ copyFailed \in BOOLEAN

SessionTypes ==
  /\ spc \in [Attempts -> {"none", "idle", "copy", "commit", "ended"}]
  /\ inTx \in [Attempts -> BOOLEAN] /\ files \in [Attempts -> Seq(Files)]

NetTypes ==
  /\ c2s \in [Attempts -> Seq(LegalCommands)] /\ s2c \in [Attempts -> Seq(Answers)]
  /\ up \in [Attempts -> BOOLEAN]

Placed ==
  /\ cpc \in {"wait_hash", "put", "wait_put", "wait_drop"} => todo # {}
  /\ cpc \in {"wait_hash", "put", "wait_put"} => file_hash \in Contents

IType ==
  /\ job \in Jobs /\ faults \in 0..MaxFaults
  /\ SourceTypes /\ PositionTypes /\ ClientTypes /\ HistoryTypes /\ DiskTypes /\ SessionTypes
  /\ NetTypes /\ Placed

-----------------------------------------------------------------------------
(* Channels and the steps most actions are made of.                        *)

\* A channel stays a channel when a frame is sent or read.
LEMMA ChannelType ==
  ASSUME NEW S, NEW ch \in [Attempts -> Seq(S)], NEW k \in Attempts
  PROVE  /\ \A m \in S : Sends(ch, k, m) \in [Attempts -> Seq(S)]
         /\ [ch EXCEPT ![k] = <<>>] \in [Attempts -> Seq(S)]
         /\ ch[k] # <<>> => /\ Head(ch[k]) \in S
                            /\ [ch EXCEPT ![k] = Tail(@)] \in [Attempts -> Seq(S)]
<1>1. ch[k] \in Seq(S) /\ <<>> \in Seq(S) /\ \A m \in S : Append(ch[k], m) \in Seq(S)
  OBVIOUS
<1>2. ch[k] # <<>> => Head(ch[k]) \in S /\ Tail(ch[k]) \in Seq(S)
  BY <1>1
<1> QED
  BY <1>1, <1>2 DEF Sends

LEMMA CommandTypes ==
  /\ \A k \in {"open", "commit", "undo", "enum"} : Simple(k) \in LegalCommands
  /\ \A k \in {"get_hash", "delete"}, f \in Files : Frame(k, f, NoFile, NoFile) \in LegalCommands
  /\ \A f \in Files, h \in Contents, d \in Contents : Frame("put_file", f, h, d) \in LegalCommands
BY ConstantTypes DEF Simple, Frame, Commands, LegalCommands, Files

LEMMA AnswerTypes ==
  /\ \A k \in {"tx_ok", "not_found", "put_ok", "dont_need", "deleted", "error"} :
       Simple(k) \in Answers
  /\ \A f \in Files, h \in Contents \cup {NoFile, Mixed} : Frame("hash", f, h, NoFile) \in Answers
  /\ \A fs \in SUBSET Files : List(fs) \in Answers
BY ConstantTypes DEF Simple, Frame, List, Answers, Files

LEMMA JobTypes ==
  ASSUME IType
  PROVE  /\ job.transaction \in BOOLEAN /\ job.tempName \in [Files -> Files]
         /\ \A f \in Files : Temp(f) \in Files
<1>1. job \in [transaction : BOOLEAN, overwrite : BOOLEAN, wild : BOOLEAN,
               post : {"nothing", "delete", "sync"}, tempName : [Files -> Files]]
  BY ConstantTypes DEF IType
<1> QED
  BY <1>1 DEF Temp

LEMMA CurType ==
  ASSUME IType, todo # {}
  PROVE  cur \in Files /\ cur \in todo
BY DEF cur, IType, PositionTypes

LEMMA HangupType ==
  ASSUME IType, NEW r \in BOOLEAN, Hangup(r)
  PROVE  /\ up' \in [Attempts -> BOOLEAN] /\ s2c' \in [Attempts -> Seq(Answers)]
         /\ result' \in BOOLEAN /\ try' \in Attempts /\ cpc' \in {"done", "connect"}
<1>1. try \in Attempts /\ s2c \in [Attempts -> Seq(Answers)] /\ up \in [Attempts -> BOOLEAN]
  BY DEF IType, ClientTypes, NetTypes
<1>2. up' \in [Attempts -> BOOLEAN] /\ s2c' \in [Attempts -> Seq(Answers)]
  BY <1>1, ChannelType DEF Hangup
<1>3. try' \in Attempts
  BY <1>1, ConstantTypes DEF Hangup, Attempts
<1> QED
  BY <1>2, <1>3 DEF Hangup

LEMMA RequestType ==
  ASSUME IType, NEW m \in LegalCommands, NEW s, NEW r \in BOOLEAN, RequestElse(m, s, r)
  PROVE  /\ NetTypes' /\ cpc' \in {s, "done", "connect"}
         /\ result' \in BOOLEAN /\ try' \in Attempts
<1>1. CASE c2s' = Sends(c2s, try, m) /\ cpc' = s /\ UNCHANGED <<try, result, s2c, up>>
  <2>1. Sends(c2s, try, m) \in [Attempts -> Seq(LegalCommands)]
    BY ChannelType DEF IType, ClientTypes, NetTypes
  <2>2. result' \in BOOLEAN
    BY <1>1 DEF IType, ClientTypes
  <2> QED
    BY <1>1, <2>1, <2>2 DEF IType, ClientTypes, NetTypes
<1>2. CASE Hangup(r) /\ UNCHANGED c2s
  BY <1>2, HangupType DEF IType, NetTypes
<1> QED
  BY <1>1, <1>2 DEF RequestElse

LEMMA HangupNet ==
  ASSUME IType, NEW r \in BOOLEAN, Hangup(r), UNCHANGED c2s
  PROVE  NetTypes' /\ cpc' \in {"done", "connect"} /\ result' \in BOOLEAN /\ try' \in Attempts
BY HangupType DEF IType, NetTypes

LEMMA AnswerType ==
  ASSUME IType, s2c[try] # <<>>
  PROVE  /\ Answer \in Answers
         /\ TakeAnswer => s2c' \in [Attempts -> Seq(Answers)]
         /\ TakeAnswer /\ UNCHANGED <<c2s, up>> => NetTypes'
<1>1. try \in Attempts /\ s2c \in [Attempts -> Seq(Answers)]
  BY DEF IType, ClientTypes, NetTypes
<1>2. /\ Head(s2c[try]) \in Answers
      /\ [s2c EXCEPT ![try] = Tail(@)] \in [Attempts -> Seq(Answers)]
  BY <1>1, ChannelType
<1> QED
  BY <1>2 DEF Answer, TakeAnswer, IType, NetTypes

\* What is left alone keeps its type.
LEMMA Kept ==
  ASSUME IType
  PROVE  /\ UNCHANGED source => SourceTypes'
         /\ UNCHANGED position => PositionTypes'
         /\ UNCHANGED <<asked, commits>> => HistoryTypes'
         /\ UNCHANGED disk => DiskTypes'
         /\ UNCHANGED sessions => SessionTypes'
         /\ UNCHANGED net => NetTypes'
         /\ UNCHANGED <<cpc, try, result>> => ClientTypes'
<1>1. UNCHANGED source => SourceTypes'
  BY DEF IType, SourceTypes, source
<1>2. UNCHANGED position => PositionTypes'
  BY DEF IType, PositionTypes, position
<1>3. UNCHANGED <<asked, commits>> => HistoryTypes'
  BY DEF IType, HistoryTypes
<1>4. UNCHANGED disk => DiskTypes'
  BY DEF IType, DiskTypes, disk
<1>5. UNCHANGED sessions => SessionTypes'
  BY DEF IType, SessionTypes, sessions
<1>6. UNCHANGED net => NetTypes'
  BY DEF IType, NetTypes, net
<1>7. UNCHANGED <<cpc, try, result>> => ClientTypes'
  BY DEF IType, ClientTypes, Waiting
<1> QED
  BY <1>1, <1>2, <1>3, <1>4, <1>5, <1>6, <1>7


\* Going on keeps the client's types, and so does an undo.
LEMMA GoToType ==
  ASSUME IType, NEW s, GoTo(s),
         s \in {"search", "file", "put", "sync", "drop", "clean", "listing", "wipe"}
  PROVE  ClientTypes' /\ cpc' = s
BY DEF GoTo, IType, ClientTypes, Waiting

LEMMA UndoType ==
  ASSUME IType, NEW r \in BOOLEAN, GoUndo(r)
  PROVE  ClientTypes' /\ cpc' = "undo" /\ UNCHANGED up
BY DEF GoUndo, IType, ClientTypes, Waiting

LEMMA LeaveType ==
  ASSUME IType, NEW r \in BOOLEAN, Hangup(r), UNCHANGED c2s
  PROVE  NetTypes' /\ ClientTypes' /\ cpc' \in {"done", "connect"}
BY HangupNet DEF ClientTypes

LEMMA NextFileType ==
  ASSUME IType, NextFile
  PROVE  ClientTypes' /\ cpc' = "file" /\ todo' \subseteq Files
<1>1. todo \subseteq Files
  BY DEF IType, PositionTypes
<1> QED
  BY <1>1, GoToType DEF NextFile

LEMMA AbandonType ==
  ASSUME IType, Abandon, UNCHANGED c2s
  PROVE  NetTypes' /\ ClientTypes' /\ cpc' \in {"undo", "done", "connect"}
<1>1. CASE GoUndo(FALSE) /\ UNCHANGED s2c
  <2>1. UNCHANGED net
    BY <1>1, UndoType DEF net
  <2> QED
    BY <1>1, <2>1, UndoType, Kept
<1>2. CASE Hangup(FALSE)
  BY <1>2, LeaveType
<1> QED
  BY <1>1, <1>2 DEF Abandon

LEMMA FileErrorType ==
  ASSUME IType, FileError
  PROVE  /\ NetTypes' /\ ClientTypes' /\ cpc' \in {"undo", "done", "connect", "file"}
         /\ todo' \subseteq Files /\ objErr' \in BOOLEAN
<1>1. CASE Abandon /\ UNCHANGED <<todo, c2s>>
  BY <1>1, AbandonType DEF FileError, IType, PositionTypes
<1>2. CASE NextFile /\ UNCHANGED net
  BY <1>2, NextFileType, Kept DEF FileError
<1> QED
  BY <1>1, <1>2 DEF FileError

LEMMA PostProcessType ==
  ASSUME IType, todo # {}, PostProcess, UNCHANGED <<listed, file_hash, objErr>>
  PROVE  ClientTypes' /\ cpc' = "file" /\ PositionTypes' /\ SourceTypes'
<1>1. cur \in Files
  BY CurType
<1>2. ClientTypes' /\ cpc' = "file" /\ todo' \subseteq Files
  BY NextFileType DEF PostProcess
<1>3. PositionTypes'
  <2>1. post' \subseteq Files
    BY <1>1 DEF PostProcess, IType, PositionTypes
  <2>2. sent' \in [Files -> Contents \cup {NoFile}]
    BY <1>1 DEF PostProcess, IType, PositionTypes
  <2> QED
    BY <1>2, <2>1, <2>2 DEF IType, PositionTypes
<1>4. SourceTypes'
  BY <1>1 DEF PostProcess, IType, SourceTypes
<1> QED
  BY <1>2, <1>3, <1>4

\* Reading an answer and leaving the rest of the connection alone.
LEMMA ReadType ==
  ASSUME IType, Answered, TakeAnswer, UNCHANGED <<c2s, up>>
  PROVE  NetTypes'
BY AnswerType DEF Answered

\* A search gives some of the files there are, or all of them.
LEMMA FindsType ==
  ASSUME IType, NEW cut \in BOOLEAN, Finds(cut)
  PROVE  todo' \subseteq Present /\ todo' \subseteq Files /\ (Fault \/ UNCHANGED faults)
<1>1. todo' \subseteq Present /\ (Fault \/ UNCHANGED faults)
  BY DEF Finds
<1> QED
  BY <1>1 DEF Present

LEMMA FaultType ==
  ASSUME IType, Fault \/ UNCHANGED faults
  PROVE  faults' \in 0..MaxFaults
BY ConstantTypes DEF Fault, IType

-----------------------------------------------------------------------------
(* Every step of the client keeps the types.                               *)

\* What the client's steps may change, with its type after them.
Typed == NetTypes /\ ClientTypes /\ PositionTypes /\ SourceTypes /\ HistoryTypes /\ Placed

LEMMA ClientStep ==
  ASSUME IType,
         \/ Client \/ ConnectFail \/ Search(TRUE) \/ SearchError(TRUE) \/ NoHash(TRUE)
  \/ NoAnswer(TRUE) \/ Sync(TRUE) \/ CleanList(TRUE)
  PROVE  Typed'
<1>1. CASE Connect
  <2>1. NetTypes'
    BY <1>1, ConstantTypes DEF Connect, IType, NetTypes, ClientTypes
  <2>2. ClientTypes'
    BY <1>1 DEF Connect, IType, ClientTypes, Waiting
  <2>3. PositionTypes'
    BY <1>1 DEF Connect, PositionTypes
  <2>4. SourceTypes'
    BY <1>1, Kept DEF Connect
  <2>5. HistoryTypes'
    BY <1>1, Kept DEF Connect
  <2>6. Placed'
    BY <1>1 DEF Connect, Placed
  <2> QED
    BY <2>1, <2>2, <2>3, <2>4, <2>5, <2>6 DEF Typed
<1>2. CASE ConnectFail
  <2>1. NetTypes'
    BY <1>2, LeaveType DEF ConnectFail
  <2>2. ClientTypes'
    BY <1>2, LeaveType DEF ConnectFail
  <2>3. PositionTypes'
    BY <1>2, Kept DEF ConnectFail
  <2>4. SourceTypes'
    BY <1>2, Kept DEF ConnectFail
  <2>5. HistoryTypes'
    BY <1>2, Kept DEF ConnectFail
  <2>6. Placed'
    BY <1>2, LeaveType DEF ConnectFail, Placed
  <2> QED
    BY <2>1, <2>2, <2>3, <2>4, <2>5, <2>6 DEF Typed
<1>3. CASE Begin
  <2>b. NetTypes' /\ ClientTypes' /\ cpc' \in {"wait_open", "done", "connect", "search"}
    <3>1. CASE RequestElse(Simple("open"), "wait_open", FALSE)
      BY <3>1, CommandTypes, RequestType DEF ClientTypes, Waiting
    <3>2. CASE GoTo("search") /\ UNCHANGED net
      BY <3>2, GoToType, Kept
    <3> QED
      BY <1>3, <3>1, <3>2 DEF Begin, Request
  <2>1. NetTypes'
    BY <1>3, <2>b DEF Begin, Request
  <2>2. ClientTypes'
    BY <1>3, <2>b DEF Begin, Request
  <2>3. PositionTypes'
    BY <1>3, Kept DEF Begin, Request
  <2>4. SourceTypes'
    BY <1>3, Kept DEF Begin, Request
  <2>5. HistoryTypes'
    BY <1>3, Kept DEF Begin, Request
  <2>6. Placed'
    BY <1>3, <2>b DEF Begin, Request, Placed
  <2> QED
    BY <2>1, <2>2, <2>3, <2>4, <2>5, <2>6 DEF Typed
<1>4. CASE Opened
  <2>1. NetTypes'
    BY <1>4, ReadType DEF Opened
  <2>2. ClientTypes'
    BY <1>4, GoToType DEF Opened
  <2>3. PositionTypes'
    BY <1>4, Kept DEF Opened
  <2>4. SourceTypes'
    BY <1>4, Kept DEF Opened
  <2>5. HistoryTypes'
    BY <1>4, Kept DEF Opened
  <2>6. Placed'
    BY <1>4, GoToType DEF Opened, Placed
  <2> QED
    BY <2>1, <2>2, <2>3, <2>4, <2>5, <2>6 DEF Typed
<1>5. CASE Search(FALSE) \/ Search(TRUE)
  <2>1. NetTypes'
    BY <1>5, Kept DEF Search
  <2>2. ClientTypes' /\ cpc' = "file"
    BY <1>5, GoToType DEF Search
  <2>t. todo' \subseteq Files
    BY <1>5, FindsType DEF Search
  <2>3. PositionTypes'
    BY <1>5, <2>t DEF Search, IType, PositionTypes
  <2>4. SourceTypes'
    BY <1>5 DEF Search, IType, SourceTypes, Present
  <2>5. HistoryTypes'
    BY <1>5, Kept DEF Search
  <2>6. Placed'
    BY <2>2 DEF Placed
  <2> QED
    BY <2>1, <2>2, <2>3, <2>4, <2>5, <2>6 DEF Typed
<1>6. CASE SearchError(FALSE) \/ SearchError(TRUE)
  <2>a. NetTypes' /\ ClientTypes' /\ cpc' \in {"undo", "file"}
    BY <1>6, UndoType, GoToType, Kept DEF SearchError, net
  <2>1. NetTypes'
    BY <1>6, <2>a DEF SearchError
  <2>2. ClientTypes'
    BY <1>6, <2>a DEF SearchError
  <2>3. PositionTypes'
    BY <1>6 DEF SearchError, IType, PositionTypes
  <2>4. SourceTypes'
    BY <1>6, Kept DEF SearchError
  <2>5. HistoryTypes'
    BY <1>6, Kept DEF SearchError
  <2>6. Placed'
    BY <1>6, <2>a DEF SearchError, Placed
  <2> QED
    BY <2>1, <2>2, <2>3, <2>4, <2>5, <2>6 DEF Typed
<1>7. CASE GetHash
  <2>a. cur \in Files /\ src[cur] \in Contents
    BY <1>7, CurType DEF GetHash, IType, SourceTypes
  <2>b. NetTypes' /\ ClientTypes' /\ cpc' \in {"wait_hash", "done", "connect"}
    BY <1>7, <2>a, CommandTypes, RequestType DEF GetHash, Request, ClientTypes, Waiting
  <2>1. NetTypes'
    BY <1>7, <2>b DEF GetHash
  <2>2. ClientTypes'
    BY <1>7, <2>b DEF GetHash
  <2>3. PositionTypes'
    BY <1>7, <2>a DEF GetHash, IType, PositionTypes
  <2>4. SourceTypes'
    BY <1>7, Kept DEF GetHash
  <2>5. HistoryTypes'
    BY <1>7, Kept DEF GetHash
  <2>6. Placed'
    BY <1>7, <2>a, <2>b DEF GetHash, Placed
  <2> QED
    BY <2>1, <2>2, <2>3, <2>4, <2>5, <2>6 DEF Typed
<1>8. CASE NoHash(FALSE) \/ NoHash(TRUE)
  <2>1. NetTypes'
    BY <1>8, FileErrorType DEF NoHash
  <2>2. ClientTypes'
    BY <1>8, FileErrorType DEF NoHash
  <2>3. PositionTypes'
    BY <1>8, FileErrorType DEF NoHash, IType, PositionTypes
  <2>4. SourceTypes'
    BY <1>8, Kept DEF NoHash
  <2>5. HistoryTypes'
    BY <1>8, Kept DEF NoHash
  <2>6. Placed'
    BY <1>8, FileErrorType DEF NoHash, Placed
  <2> QED
    BY <2>1, <2>2, <2>3, <2>4, <2>5, <2>6 DEF Typed
<1>9. CASE CompareHash
  <2>n. todo # {} /\ file_hash \in Contents
    BY <1>9 DEF CompareHash, IType, Placed
  <2>a. /\ ClientTypes' /\ PositionTypes' /\ SourceTypes'
        /\ cpc' = "file" \/ (cpc' = "put" /\ todo' # {} /\ file_hash' \in Contents)
    <3>1. CASE PostProcess
      BY <1>9, <3>1, <2>n, PostProcessType DEF CompareHash
    <3>2. CASE GoTo("put") /\ UNCHANGED <<source, todo, sent, post>>
      <4>1. UNCHANGED position
        BY <1>9, <3>2 DEF CompareHash, position
      <4> QED
        BY <3>2, <4>1, <2>n, GoToType, Kept DEF position
    <3> QED
      BY <1>9, <3>1, <3>2 DEF CompareHash
  <2>1. NetTypes'
    BY <1>9, ReadType DEF CompareHash
  <2>2. ClientTypes'
    BY <1>9, <2>a DEF CompareHash
  <2>3. PositionTypes'
    BY <1>9, <2>a DEF CompareHash
  <2>4. SourceTypes'
    BY <1>9, <2>a DEF CompareHash
  <2>5. HistoryTypes'
    BY <1>9, Kept DEF CompareHash
  <2>6. Placed'
    BY <1>9, <2>a DEF CompareHash, Placed, IType
  <2> QED
    BY <2>1, <2>2, <2>3, <2>4, <2>5, <2>6 DEF Typed
<1>10. CASE HashError
  <2>a. ClientTypes' /\ cpc' \in {"undo", "file"} /\ todo' \subseteq Files /\ UNCHANGED up
    BY <1>10, UndoType, NextFileType DEF HashError, IType, PositionTypes
  <2>1. NetTypes'
    BY <1>10, <2>a, ReadType DEF HashError
  <2>2. ClientTypes'
    BY <1>10, <2>a DEF HashError
  <2>3. PositionTypes'
    BY <1>10, <2>a DEF HashError, IType, PositionTypes
  <2>4. SourceTypes'
    BY <1>10, Kept DEF HashError
  <2>5. HistoryTypes'
    BY <1>10, Kept DEF HashError
  <2>6. Placed'
    BY <1>10, <2>a DEF HashError, Placed
  <2> QED
    BY <2>1, <2>2, <2>3, <2>4, <2>5, <2>6 DEF Typed
<1>11. CASE PutFile
  <2>n. cur \in Files /\ todo # {} /\ file_hash \in Contents
    BY <1>11, CurType DEF PutFile, IType, Placed
  <2>a. /\ NetTypes' /\ ClientTypes' /\ HistoryTypes' /\ todo' \subseteq Files /\ objErr' \in BOOLEAN
        /\ \/ cpc' \in {"undo", "done", "connect", "file"}
           \/ cpc' = "wait_put" /\ UNCHANGED todo
    <3>1. CASE /\ src[cur] # NoFile
               /\ Request(Frame("put_file", cur, file_hash, src[cur]), "wait_put")
               /\ asked' = [asked EXCEPT ![cur] = @ \cup {file_hash}]
               /\ UNCHANGED <<todo, objErr>>
      <4>1. src[cur] \in Contents
        BY <3>1, <2>n DEF IType, SourceTypes
      <4>2. Frame("put_file", cur, file_hash, src[cur]) \in LegalCommands
        BY <2>n, <4>1, CommandTypes
      <4>3. NetTypes' /\ ClientTypes' /\ cpc' \in {"wait_put", "done", "connect"}
        BY <3>1, <4>2, RequestType DEF Request, ClientTypes, Waiting
      <4>4. HistoryTypes'
        BY <1>11, <3>1, <2>n DEF PutFile, IType, HistoryTypes
      <4> QED
        BY <3>1, <2>n, <4>3, <4>4 DEF IType, PositionTypes
    <3>2. CASE src[cur] = NoFile /\ FileError /\ UNCHANGED asked
      <4>1. HistoryTypes'
        BY <1>11, <3>2 DEF PutFile, IType, HistoryTypes
      <4> QED
        BY <3>2, <4>1, FileErrorType
    <3> QED
      BY <1>11, <3>1, <3>2 DEF PutFile
  <2>1. NetTypes'
    BY <1>11, <2>a DEF PutFile
  <2>2. ClientTypes'
    BY <1>11, <2>a DEF PutFile
  <2>3. PositionTypes'
    BY <1>11, <2>a DEF PutFile, IType, PositionTypes
  <2>4. SourceTypes'
    BY <1>11, Kept DEF PutFile
  <2>5. HistoryTypes'
    BY <1>11, <2>a DEF PutFile
  <2>6. Placed'
    BY <1>11, <2>a, <2>n DEF PutFile, Placed
  <2> QED
    BY <2>1, <2>2, <2>3, <2>4, <2>5, <2>6 DEF Typed
<1>12. CASE PutDone
  <2>n. todo # {}
    BY <1>12 DEF PutDone, IType, Placed
  <2>a. ClientTypes' /\ cpc' = "file" /\ PositionTypes' /\ SourceTypes'
    BY <1>12, <2>n, PostProcessType DEF PutDone
  <2>1. NetTypes'
    BY <1>12, ReadType DEF PutDone
  <2>2. ClientTypes'
    BY <1>12, <2>a DEF PutDone
  <2>3. PositionTypes'
    BY <1>12, <2>a DEF PutDone
  <2>4. SourceTypes'
    BY <1>12, <2>a DEF PutDone
  <2>5. HistoryTypes'
    BY <1>12, Kept DEF PutDone
  <2>6. Placed'
    BY <1>12, <2>a DEF PutDone, Placed
  <2> QED
    BY <2>1, <2>2, <2>3, <2>4, <2>5, <2>6 DEF Typed
<1>13. CASE DontNeed
  <2>1. NetTypes'
    BY <1>13, ReadType DEF DontNeed
  <2>2. ClientTypes'
    BY <1>13, NextFileType DEF DontNeed
  <2>3. PositionTypes'
    BY <1>13, NextFileType DEF DontNeed, IType, PositionTypes
  <2>4. SourceTypes'
    BY <1>13, Kept DEF DontNeed
  <2>5. HistoryTypes'
    BY <1>13, Kept DEF DontNeed
  <2>6. Placed'
    BY <1>13, NextFileType DEF DontNeed, Placed
  <2> QED
    BY <2>1, <2>2, <2>3, <2>4, <2>5, <2>6 DEF Typed
<1>14. CASE Commit
  <2>a. NetTypes' /\ ClientTypes' /\ cpc' \in {"wait_commit", "done", "connect", "sync", "clean"}
    <3>1. CASE Request(Simple("commit"), "wait_commit")
      BY <3>1, CommandTypes, RequestType DEF Request, ClientTypes, Waiting
    <3>2. CASE AfterCommit /\ UNCHANGED net
      BY <3>2, GoToType, Kept DEF AfterCommit
    <3> QED
      BY <1>14, <3>1, <3>2 DEF Commit
  <2>h. HistoryTypes'
    BY <1>14 DEF Commit, IType, HistoryTypes
  <2>1. NetTypes'
    BY <1>14, <2>a DEF Commit
  <2>2. ClientTypes'
    BY <1>14, <2>a DEF Commit
  <2>3. PositionTypes'
    BY <1>14, Kept DEF Commit
  <2>4. SourceTypes'
    BY <1>14, Kept DEF Commit
  <2>5. HistoryTypes'
    BY <1>14, <2>h DEF Commit
  <2>6. Placed'
    BY <1>14, <2>a DEF Commit, Placed
  <2> QED
    BY <2>1, <2>2, <2>3, <2>4, <2>5, <2>6 DEF Typed
<1>15. CASE Committed
  <2>a. ClientTypes' /\ cpc' \in {"sync", "clean"}
    BY <1>15, GoToType DEF Committed, AfterCommit
  <2>s. SourceTypes'
    BY <1>15 DEF Committed, IType, SourceTypes
  <2>1. NetTypes'
    BY <1>15, ReadType DEF Committed
  <2>2. ClientTypes'
    BY <1>15, <2>a DEF Committed
  <2>3. PositionTypes'
    BY <1>15, Kept DEF Committed
  <2>4. SourceTypes'
    BY <1>15, <2>s DEF Committed
  <2>5. HistoryTypes'
    BY <1>15, Kept DEF Committed
  <2>6. Placed'
    BY <1>15, <2>a DEF Committed, Placed
  <2> QED
    BY <2>1, <2>2, <2>3, <2>4, <2>5, <2>6 DEF Typed
<1>16. CASE Undo
  <2>a. NetTypes' /\ ClientTypes' /\ cpc' \in {"wait_undo", "done", "connect"}
    BY <1>16, CommandTypes, RequestType DEF Undo, Request, ClientTypes, Waiting
  <2>1. NetTypes'
    BY <1>16, <2>a DEF Undo
  <2>2. ClientTypes'
    BY <1>16, <2>a DEF Undo
  <2>3. PositionTypes'
    BY <1>16, Kept DEF Undo
  <2>4. SourceTypes'
    BY <1>16, Kept DEF Undo
  <2>5. HistoryTypes'
    BY <1>16, Kept DEF Undo
  <2>6. Placed'
    BY <1>16, <2>a DEF Undo, Placed
  <2> QED
    BY <2>1, <2>2, <2>3, <2>4, <2>5, <2>6 DEF Typed
<1>17. CASE Failed
  <2>r. IsOk \in BOOLEAN /\ (IsOk /\ result) \in BOOLEAN
    BY DEF IsOk
  <2>l. \A r \in BOOLEAN : Hangup(r) => NetTypes' /\ ClientTypes' /\ cpc' \in {"done", "connect"}
    BY <1>17, LeaveType DEF Failed
  <2>u. GoUndo(FALSE) /\ TakeAnswer => NetTypes' /\ ClientTypes' /\ cpc' = "undo"
    BY <1>17, UndoType, ReadType DEF Failed
  <2>h. Hangup(FALSE) \/ Hangup(IsOk) \/ Hangup(IsOk /\ result) \/ (GoUndo(FALSE) /\ TakeAnswer)
    BY <1>17 DEF Failed
  <2>a. NetTypes' /\ ClientTypes' /\ cpc' \in {"undo", "done", "connect"}
    BY <2>r, <2>l, <2>u, <2>h
  <2>1. NetTypes'
    BY <1>17, <2>a DEF Failed
  <2>2. ClientTypes'
    BY <1>17, <2>a DEF Failed
  <2>3. PositionTypes'
    BY <1>17, Kept DEF Failed
  <2>4. SourceTypes'
    BY <1>17, Kept DEF Failed
  <2>5. HistoryTypes'
    BY <1>17, Kept DEF Failed
  <2>6. Placed'
    BY <1>17, <2>a DEF Failed, Placed
  <2> QED
    BY <2>1, <2>2, <2>3, <2>4, <2>5, <2>6 DEF Typed
<1>18. CASE NoAnswer(FALSE) \/ NoAnswer(TRUE)
  <2>a. /\ NetTypes' /\ ClientTypes' /\ cpc' \in {"undo", "done", "connect", "file"}
        /\ todo' \subseteq Files /\ objErr' \in BOOLEAN
    <3>1. CASE FileError
      BY <3>1, FileErrorType
    <3>2. CASE Abandon /\ UNCHANGED <<todo, objErr, c2s>>
      BY <3>2, AbandonType DEF IType, PositionTypes
    <3>3. CASE Hangup(FALSE) /\ UNCHANGED <<todo, objErr, c2s>>
      BY <3>3, LeaveType DEF IType, PositionTypes
    <3> QED
      BY <1>18, <3>1, <3>2, <3>3 DEF NoAnswer
  <2>1. NetTypes'
    BY <1>18, <2>a DEF NoAnswer
  <2>2. ClientTypes'
    BY <1>18, <2>a DEF NoAnswer
  <2>3. PositionTypes'
    BY <1>18, <2>a DEF NoAnswer, IType, PositionTypes
  <2>4. SourceTypes'
    BY <1>18, Kept DEF NoAnswer
  <2>5. HistoryTypes'
    BY <1>18, Kept DEF NoAnswer
  <2>6. Placed'
    BY <1>18, <2>a DEF NoAnswer, Placed
  <2> QED
    BY <2>1, <2>2, <2>3, <2>4, <2>5, <2>6 DEF Typed
<1>19. CASE Sync(FALSE) \/ Sync(TRUE)
  <2>a. NetTypes' /\ ClientTypes' /\ cpc' \in {"wait_list", "done", "connect"}
    BY <1>19, CommandTypes, RequestType, LeaveType DEF Sync, Request, ClientTypes, Waiting
  <2>t. todo' \subseteq Files
    BY <1>19, FindsType DEF Sync, IType, PositionTypes
  <2>1. NetTypes'
    BY <1>19, <2>a DEF Sync
  <2>2. ClientTypes'
    BY <1>19, <2>a DEF Sync
  <2>3. PositionTypes'
    BY <1>19, <2>t DEF Sync, IType, PositionTypes
  <2>4. SourceTypes'
    BY <1>19 DEF Sync, IType, SourceTypes, Present
  <2>5. HistoryTypes'
    BY <1>19, Kept DEF Sync
  <2>6. Placed'
    BY <1>19, <2>a DEF Sync, Placed
  <2> QED
    BY <2>1, <2>2, <2>3, <2>4, <2>5, <2>6 DEF Typed
<1>20. CASE SyncCompare
  <2>a. Answer.files \subseteq Files
    BY <1>20, AnswerType DEF SyncCompare, Answered, Answers
  <2>1. NetTypes'
    BY <1>20, ReadType DEF SyncCompare
  <2>2. ClientTypes'
    BY <1>20, GoToType DEF SyncCompare
  <2>3. PositionTypes'
    BY <1>20, <2>a DEF SyncCompare, IType, PositionTypes
  <2>4. SourceTypes'
    BY <1>20, Kept DEF SyncCompare
  <2>5. HistoryTypes'
    BY <1>20, Kept DEF SyncCompare
  <2>6. Placed'
    BY <1>20, GoToType DEF SyncCompare, Placed
  <2> QED
    BY <2>1, <2>2, <2>3, <2>4, <2>5, <2>6 DEF Typed
<1>21. CASE SyncDelete
  <2>a. /\ NetTypes' /\ ClientTypes'
        /\ cpc' \in {"done", "connect"} \/ (cpc' = "wait_drop" /\ todo # {})
    <3>1. CASE todo # {} /\ RequestElse(Frame("delete", cur, NoFile, NoFile), "wait_drop", TRUE)
      <4>1. Frame("delete", cur, NoFile, NoFile) \in LegalCommands
        BY <3>1, CurType, CommandTypes
      <4> QED
        BY <3>1, <4>1, RequestType DEF ClientTypes, Waiting
    <3>2. CASE Hangup(TRUE) /\ UNCHANGED c2s
      BY <3>2, LeaveType
    <3> QED
      BY <1>21, <3>1, <3>2 DEF SyncDelete
  <2>1. NetTypes'
    BY <1>21, <2>a DEF SyncDelete
  <2>2. ClientTypes'
    BY <1>21, <2>a DEF SyncDelete
  <2>3. PositionTypes'
    BY <1>21, Kept DEF SyncDelete
  <2>4. SourceTypes'
    BY <1>21, Kept DEF SyncDelete
  <2>5. HistoryTypes'
    BY <1>21, Kept DEF SyncDelete
  <2>6. Placed'
    BY <1>21, <2>a DEF SyncDelete, Placed, position
  <2> QED
    BY <2>1, <2>2, <2>3, <2>4, <2>5, <2>6 DEF Typed
<1>22. CASE SyncDeleted
  <2>1. NetTypes'
    BY <1>22, ReadType DEF SyncDeleted
  <2>2. ClientTypes'
    BY <1>22, GoToType DEF SyncDeleted
  <2>3. PositionTypes'
    BY <1>22 DEF SyncDeleted, IType, PositionTypes
  <2>4. SourceTypes'
    BY <1>22, Kept DEF SyncDeleted
  <2>5. HistoryTypes'
    BY <1>22, Kept DEF SyncDeleted
  <2>6. Placed'
    BY <1>22, GoToType DEF SyncDeleted, Placed
  <2> QED
    BY <2>1, <2>2, <2>3, <2>4, <2>5, <2>6 DEF Typed
<1>23. CASE Clean
  <2>a. ClientTypes' /\ NetTypes' /\ cpc' \in {"listing", "done", "connect"}
    BY <1>23, LeaveType, GoToType, Kept DEF Clean, net
  <2>3. PositionTypes'
    BY <1>23, Kept DEF Clean
  <2>4. SourceTypes'
    BY <1>23, Kept DEF Clean
  <2>5. HistoryTypes'
    BY <1>23, Kept DEF Clean
  <2>6. Placed'
    BY <2>a DEF Placed
  <2> QED
    BY <2>a, <2>3, <2>4, <2>5, <2>6 DEF Typed
<1>24. CASE CleanList(FALSE) \/ CleanList(TRUE)
  <2>1. NetTypes'
    BY <1>24, Kept DEF CleanList
  <2>2. ClientTypes' /\ cpc' = "wipe"
    BY <1>24, GoToType DEF CleanList
  <2>t. todo' \subseteq Files
    BY <1>24, FindsType DEF CleanList
  <2>3. PositionTypes'
    BY <1>24, <2>t DEF CleanList, IType, PositionTypes
  <2>4. SourceTypes'
    BY <1>24, Kept DEF CleanList
  <2>5. HistoryTypes'
    BY <1>24, Kept DEF CleanList
  <2>6. Placed'
    BY <2>2 DEF Placed
  <2> QED
    BY <2>1, <2>2, <2>3, <2>4, <2>5, <2>6 DEF Typed
<1>25. CASE CleanFile
  <2>a. ClientTypes' /\ NetTypes' /\ cpc' \in {"wipe", "done", "connect"}
    <3>1. CASE UNCHANGED <<cpc, try, result, s2c, up>>
      BY <1>25, <3>1, Kept DEF CleanFile, net
    <3>2. CASE Hangup(TRUE)
      BY <1>25, <3>2, LeaveType DEF CleanFile
    <3> QED
      BY <1>25, <3>1, <3>2 DEF CleanFile
  <2>t. todo' \subseteq todo
    BY <1>25 DEF CleanFile
  <2>3. PositionTypes'
    BY <1>25, <2>t DEF CleanFile, IType, PositionTypes
  <2>4. SourceTypes'
    BY <1>25 DEF CleanFile, IType, SourceTypes
  <2>5. HistoryTypes'
    BY <1>25, Kept DEF CleanFile
  <2>6. Placed'
    BY <2>a DEF Placed
  <2> QED
    BY <2>a, <2>3, <2>4, <2>5, <2>6 DEF Typed
<1> QED
  BY <1>1, <1>2, <1>3, <1>4, <1>5, <1>6, <1>7, <1>8, <1>9, <1>10, <1>11, <1>12, <1>13,
     <1>14, <1>15, <1>16, <1>17, <1>18, <1>19, <1>20, <1>21, <1>22, <1>23,
     <1>24, <1>25
  DEF Client
-----------------------------------------------------------------------------
(* Every step of a session and of the environment keeps the types.         *)

LEMMA InputType ==
  ASSUME IType, NEW k \in Attempts, c2s[k] # <<>>
  PROVE  /\ Input(k) \in LegalCommands
         /\ Input(k).kind \in {"get_hash", "put_file", "delete"} => Input(k).file \in Files
         /\ Input(k).kind = "put_file" => Input(k).hash \in Contents /\ Input(k).data \in Contents
         /\ TakeInput(k) => c2s' \in [Attempts -> Seq(LegalCommands)]
<1>1. c2s \in [Attempts -> Seq(LegalCommands)]
  BY DEF IType, NetTypes
<1>2. Head(c2s[k]) \in LegalCommands /\ [c2s EXCEPT ![k] = Tail(@)] \in [Attempts -> Seq(LegalCommands)]
  BY <1>1, ChannelType
<1> QED
  BY <1>2 DEF Input, TakeInput, LegalCommands

SpcType == spc \in [Attempts -> {"none", "idle", "copy", "commit", "ended"}]

LEMMA GotoType ==
  ASSUME IType, NEW k \in Attempts, NEW s \in {"idle", "copy", "commit", "ended"}, Goto(k, s)
  PROVE  SpcType'
BY DEF Goto, SpcType, IType, SessionTypes

LEMMA EndSessionType ==
  ASSUME IType, NEW k \in Attempts, EndSession(k)
  PROVE  /\ SpcType' /\ up' \in [Attempts -> BOOLEAN]
         /\ c2s' \in [Attempts -> Seq(LegalCommands)]
<1>1. SpcType'
  BY GotoType DEF EndSession
<1> QED
  BY <1>1, ChannelType DEF EndSession, IType, NetTypes

LEMMA ReplyType ==
  ASSUME IType, NEW k \in Attempts, c2s[k] # <<>>, NEW m \in Answers, NEW s \in {"idle", "copy"},
         Reply(k, m, s)
  PROVE  NetTypes' /\ SpcType'
<1>1. CASE Goto(k, s) /\ TakeInput(k) /\ s2c' = Sends(s2c, k, m) /\ UNCHANGED up
  <2>1. SpcType'
    BY <1>1, GotoType
  <2>2. s2c' \in [Attempts -> Seq(Answers)]
    BY <1>1, ChannelType DEF IType, NetTypes
  <2>3. c2s' \in [Attempts -> Seq(LegalCommands)]
    BY <1>1, InputType
  <2> QED
    BY <1>1, <2>1, <2>2, <2>3 DEF IType, NetTypes
<1>2. CASE EndSession(k) /\ UNCHANGED s2c
  BY <1>2, EndSessionType DEF IType, NetTypes
<1> QED
  BY <1>1, <1>2 DEF Reply

LEMMA ReplyErrorType ==
  ASSUME IType, NEW k \in Attempts, c2s[k] # <<>>, ReplyError(k)
  PROVE  NetTypes' /\ SpcType'
<1>0. Simple("error") \in Answers
  BY AnswerTypes
<1>1. CASE Reply(k, Simple("error"), "idle")
  BY <1>0, <1>1, ReplyType
<1>2. CASE s2c' = Sends(s2c, k, Simple("error")) /\ EndSession(k)
  <2>1. s2c' \in [Attempts -> Seq(Answers)]
    BY <1>0, <1>2, ChannelType DEF IType, NetTypes
  <2> QED
    BY <1>2, <2>1, EndSessionType DEF NetTypes
<1> QED
  BY <1>1, <1>2 DEF ReplyError

LEMMA ReceivedType ==
  ASSUME IType, NEW t \in Files, NEW d \in Contents
  PROVE  Received(t, d) \subseteq Contents \cup {NoFile, Mixed}
BY DEF Received

\* What the session's steps may change, with its type after them.
Served == NetTypes /\ DiskTypes /\ SessionTypes

LEMMA SessionStep ==
  ASSUME IType, NEW k \in Attempts,
         \/ Session(k) \/ SrvHashError(k) \/ SrvPutError(k) \/ SrvCopyFail(k) \/ SrvSyncError(k)
  PROVE  Served'
<1>1. CASE SrvOpen(k)
  <2>a. Simple(IF inTx[k] THEN "error" ELSE "tx_ok") \in Answers
    BY AnswerTypes
  <2>1. NetTypes' /\ SpcType'
    BY <1>1, <2>a, ReplyType DEF SrvOpen, Has
  <2>2. DiskTypes'
    BY <1>1, Kept DEF SrvOpen
  <2>3. SessionTypes'
    <3>1. files[k] \in Seq(Files) /\ <<>> \in Seq(Files)
      BY DEF IType, SessionTypes
    <3>2. files' \in [Attempts -> Seq(Files)]
      BY <1>1, <3>1 DEF SrvOpen, IType, SessionTypes
    <3>3. inTx' \in [Attempts -> BOOLEAN]
      BY <1>1 DEF SrvOpen, IType, SessionTypes
    <3> QED
      BY <2>1, <3>2, <3>3 DEF SessionTypes, SpcType
  <2> QED
    BY <2>1, <2>2, <2>3 DEF Served
<1>2. CASE SrvHashError(k)
  <2>1. NetTypes' /\ SpcType'
    BY <1>2, AnswerTypes, ReplyType DEF SrvHashError, Has
  <2>2. DiskTypes'
    BY <1>2, Kept DEF SrvHashError
  <2>3. SessionTypes'
    BY <1>2, <2>1 DEF SrvHashError, IType, SessionTypes, SpcType
  <2> QED
    BY <2>1, <2>2, <2>3 DEF Served
<1>3. CASE SrvGetHash(k)
  <2>f. Input(k).file \in Files
    BY <1>3, InputType DEF SrvGetHash, Has
  <2>a. (IF dest[Input(k).file] = NoFile THEN Simple("not_found")
         ELSE Frame("hash", Input(k).file, dest[Input(k).file], NoFile)) \in Answers
    BY <2>f, AnswerTypes DEF IType, DiskTypes
  <2>1. NetTypes' /\ SpcType'
    BY <1>3, <2>a, ReplyType DEF SrvGetHash, Has
  <2>2. DiskTypes'
    BY <1>3, Kept DEF SrvGetHash
  <2>3. SessionTypes'
    BY <1>3, <2>1 DEF SrvGetHash, IType, SessionTypes, SpcType
  <2> QED
    BY <2>1, <2>2, <2>3 DEF Served
<1>4. CASE SrvDontNeed(k)
  <2>1. NetTypes' /\ SpcType'
    BY <1>4, AnswerTypes, ReplyType DEF SrvDontNeed, Has
  <2>2. DiskTypes'
    BY <1>4, Kept DEF SrvDontNeed
  <2>3. SessionTypes'
    BY <1>4, <2>1 DEF SrvDontNeed, IType, SessionTypes, SpcType
  <2> QED
    BY <2>1, <2>2, <2>3 DEF Served
<1>5. CASE SrvPutFile(k)
  <2>0. c2s[k] # <<>>
    BY <1>5 DEF SrvPutFile, Has
  <2>f. /\ Input(k).file \in Files /\ Temp(Input(k).file) \in Files
        /\ Input(k).hash \in Contents /\ Input(k).data \in Contents
    BY <1>5, <2>0, InputType, JobTypes DEF SrvPutFile, Has
  <2> DEFINE f == Input(k).file
  <2>1. PICK content \in Received(Temp(f), Input(k).data) :
          /\ temp' = [temp EXCEPT ![Temp(f)] = content]
          /\ \/ /\ content = Input(k).hash
                /\ files' = [files EXCEPT ![k] = <<f>> \o (IF inTx[k] THEN @ ELSE <<>>)]
                /\ Reply(k, Simple("put_ok"), IF inTx[k] THEN "idle" ELSE "copy")
             \/ content # Input(k).hash /\ ReplyError(k) /\ UNCHANGED files
    BY <1>5 DEF SrvPutFile
  <2>2. NetTypes' /\ SpcType'
    <3>1. CASE Reply(k, Simple("put_ok"), IF inTx[k] THEN "idle" ELSE "copy")
      BY <3>1, <2>0, AnswerTypes, ReplyType
    <3>2. CASE ReplyError(k)
      BY <3>2, <2>0, ReplyErrorType
    <3> QED
      BY <2>1, <3>1, <3>2
  <2>3. DiskTypes'
    <3>1. content \in Contents \cup {NoFile, Mixed}
      BY <2>1, <2>f, ReceivedType
    <3> QED
      BY <1>5, <2>1, <2>f, <3>1 DEF SrvPutFile, IType, DiskTypes
  <2>4. SessionTypes'
    <3>1. <<f>> \o (IF inTx[k] THEN files[k] ELSE <<>>) \in Seq(Files)
      BY <2>f DEF IType, SessionTypes
    <3>2. files' \in [Attempts -> Seq(Files)]
      BY <2>1, <3>1 DEF IType, SessionTypes
    <3> QED
      BY <1>5, <2>2, <3>2 DEF SrvPutFile, IType, SessionTypes, SpcType
  <2> QED
    BY <2>2, <2>3, <2>4 DEF Served
<1>6. CASE SrvPutError(k)
  <2>1. NetTypes' /\ SpcType'
    BY <1>6, AnswerTypes, ReplyErrorType DEF SrvPutError, Has
  <2>2. DiskTypes'
    BY <1>6, Kept DEF SrvPutError
  <2>3. SessionTypes'
    BY <1>6, <2>1 DEF SrvPutError, IType, SessionTypes, SpcType
  <2> QED
    BY <2>1, <2>2, <2>3 DEF Served
<1>7. CASE SrvCommit(k)
  <2>0. c2s[k] # <<>>
    BY <1>7 DEF SrvCommit, Has
  <2>1. NetTypes' /\ SpcType'
    <3>1. CASE Goto(k, "commit") /\ TakeInput(k) /\ UNCHANGED <<s2c, up>>
      BY <3>1, <2>0, GotoType, InputType DEF IType, NetTypes
    <3>2. CASE Reply(k, Simple("error"), "idle")
      BY <3>2, <2>0, AnswerTypes, ReplyType
    <3> QED
      BY <1>7, <3>1, <3>2 DEF SrvCommit
  <2>2. DiskTypes'
    BY <1>7, Kept DEF SrvCommit
  <2>3. SessionTypes'
    BY <1>7, <2>1 DEF SrvCommit, IType, SessionTypes, SpcType
  <2> QED
    BY <2>1, <2>2, <2>3 DEF Served
<1>8. CASE SrvCopy(k) \/ SrvCopyFail(k)
  <2>0. files[k] \in Seq(Files) /\ files[k] # <<>> /\ spc[k] \in {"copy", "commit"}
    BY <1>8 DEF SrvCopy, SrvCopyFail, IType, SessionTypes
  <2>1. Head(files[k]) \in Files /\ Tail(files[k]) \in Seq(Files)
    BY <2>0
  <2>2. NetTypes'
    BY <1>8, Kept DEF SrvCopy, SrvCopyFail
  <2>3. DiskTypes'
    <3>1. Temp(Head(files[k])) \in Files
      BY <2>1, JobTypes
    <3> QED
      BY <1>8, <2>1, <3>1 DEF SrvCopy, SrvCopyFail, IType, DiskTypes
  <2>4. SessionTypes'
    <3>1. files' \in [Attempts -> Seq(Files)]
      BY <1>8, <2>1 DEF SrvCopy, SrvCopyFail, IType, SessionTypes
    <3>2. SpcType'
      BY <1>8 DEF SrvCopy, SrvCopyFail, IType, SessionTypes, SpcType
    <3> QED
      BY <1>8, <3>1, <3>2 DEF SrvCopy, SrvCopyFail, IType, SessionTypes, SpcType
  <2> QED
    BY <2>2, <2>3, <2>4 DEF Served
<1>9. CASE SrvCommitted(k)
  <2>1. NetTypes' /\ SpcType'
    <3>1. CASE Goto(k, "idle") /\ s2c' = Sends(s2c, k, Simple("tx_ok")) /\ UNCHANGED <<c2s, up>>
      <4>1. s2c' \in [Attempts -> Seq(Answers)]
        BY <3>1, AnswerTypes, ChannelType DEF IType, NetTypes
      <4> QED
        BY <3>1, <4>1, GotoType DEF IType, NetTypes
    <3>2. CASE EndSession(k) /\ UNCHANGED s2c
      BY <3>2, EndSessionType DEF IType, NetTypes
    <3> QED
      BY <1>9, <3>1, <3>2 DEF SrvCommitted
  <2>2. DiskTypes'
    BY <1>9, Kept DEF SrvCommitted
  <2>3. SessionTypes'
    BY <1>9, <2>1 DEF SrvCommitted, IType, SessionTypes, SpcType
  <2> QED
    BY <2>1, <2>2, <2>3 DEF Served
<1>10. CASE SrvUndo(k)
  <2>a. Simple(IF inTx[k] THEN "tx_ok" ELSE "error") \in Answers
    BY AnswerTypes
  <2>1. NetTypes' /\ SpcType'
    BY <1>10, <2>a, ReplyType DEF SrvUndo, Has
  <2>2. DiskTypes'
    BY <1>10, Kept DEF SrvUndo
  <2>3. SessionTypes'
    <3>1. files[k] \in Seq(Files) /\ <<>> \in Seq(Files)
      BY DEF IType, SessionTypes
    <3>2. files' \in [Attempts -> Seq(Files)]
      BY <1>10, <3>1 DEF SrvUndo, IType, SessionTypes
    <3>3. inTx' \in [Attempts -> BOOLEAN]
      BY <1>10 DEF SrvUndo, IType, SessionTypes
    <3> QED
      BY <2>1, <3>2, <3>3 DEF SessionTypes, SpcType
  <2> QED
    BY <2>1, <2>2, <2>3 DEF Served
<1>11. CASE SrvEnum(k)
  <2>a. List({f \in Files : dest[f] # NoFile}) \in Answers
    BY AnswerTypes
  <2>1. NetTypes' /\ SpcType'
    BY <1>11, <2>a, AnswerTypes, ReplyType DEF SrvEnum, Has
  <2>2. DiskTypes'
    BY <1>11, Kept DEF SrvEnum
  <2>3. SessionTypes'
    BY <1>11, <2>1 DEF SrvEnum, IType, SessionTypes, SpcType
  <2> QED
    BY <2>1, <2>2, <2>3 DEF Served
<1>12. CASE SrvDelete(k)
  <2>f. Input(k).file \in Files
    BY <1>12, InputType DEF SrvDelete, Has
  <2>a. Simple(IF dest[Input(k).file] = NoFile THEN "error" ELSE "deleted") \in Answers
    BY AnswerTypes
  <2>1. NetTypes' /\ SpcType'
    BY <1>12, <2>a, ReplyType DEF SrvDelete, Has
  <2>2. DiskTypes'
    BY <1>12, <2>f DEF SrvDelete, IType, DiskTypes
  <2>3. SessionTypes'
    BY <1>12, <2>1 DEF SrvDelete, IType, SessionTypes, SpcType
  <2> QED
    BY <2>1, <2>2, <2>3 DEF Served
<1>13. CASE SrvSyncError(k)
  <2>a. PICK m \in Answers : Reply(k, m, "idle")
    BY <1>13, AnswerTypes DEF SrvSyncError
  <2>1. NetTypes' /\ SpcType'
    BY <1>13, <2>a, ReplyType DEF SrvSyncError, Has
  <2>2. DiskTypes'
    BY <1>13, Kept DEF SrvSyncError
  <2>3. SessionTypes'
    BY <1>13, <2>1 DEF SrvSyncError, IType, SessionTypes, SpcType
  <2> QED
    BY <2>1, <2>2, <2>3 DEF Served
<1>14. CASE SrvGiveUp(k)
  <2>1. SpcType'
    BY <1>14, GotoType DEF SrvGiveUp
  <2>2. SessionTypes'
    BY <1>14, <2>1 DEF SrvGiveUp, IType, SessionTypes, SpcType
  <2> QED
    BY <1>14, <2>2, Kept DEF SrvGiveUp, Served
<1> QED
  BY <1>1, <1>2, <1>3, <1>4, <1>5, <1>6, <1>7, <1>8, <1>9, <1>10, <1>11, <1>12, <1>13,
     <1>14
  DEF Session
LEMMA EnvironmentStep ==
  ASSUME IType, SourceChange \/ Crash \/ \E k \in Attempts : Break(k)
  PROVE  SourceTypes' /\ SessionTypes' /\ NetTypes'
<1>1. CASE SourceChange
  <2>1. SourceTypes'
    BY <1>1 DEF SourceChange, IType, SourceTypes
  <2> QED
    BY <1>1, <2>1, Kept DEF SourceChange
<1>2. CASE Crash
  <2>1. SessionTypes'
    BY <1>2 DEF Crash, IType, SessionTypes
  <2>2. NetTypes'
    BY <1>2 DEF Crash, NetTypes
  <2> QED
    BY <1>2, <2>1, <2>2, Kept DEF Crash
<1>3. ASSUME NEW k \in Attempts, Break(k)
      PROVE  SourceTypes' /\ SessionTypes' /\ NetTypes'
  <2>1. NetTypes'
    BY <1>3, ChannelType DEF Break, IType, NetTypes
  <2> QED
    BY <1>3, <2>1, Kept DEF Break
<1> QED
  BY <1>1, <1>2, <1>3

-----------------------------------------------------------------------------
(* The type invariant.                                                     *)

LEMMA ITypeInit == Init => IType
<1> SUFFICES ASSUME Init PROVE IType
  OBVIOUS
<1>1. SourceTypes /\ PositionTypes /\ HistoryTypes
  BY ConstantTypes DEF Init, SourceTypes, PositionTypes, HistoryTypes
<1>2. ClientTypes
  <2>1. 1 \in Attempts
    BY ConstantTypes DEF Attempts
  <2> QED
    BY <2>1 DEF Init, ClientTypes
<1>5. Placed
  BY DEF Init, Placed
<1>3. DiskTypes
  BY DEF Init, DiskTypes
<1>6. SessionTypes
  BY DEF Init, SessionTypes
<1>7. NetTypes
  BY DEF Init, NetTypes
<1>4. job \in Jobs /\ faults \in 0..MaxFaults
  BY ConstantTypes DEF Init
<1> QED
  BY <1>1, <1>2, <1>3, <1>4, <1>5, <1>6, <1>7 DEF IType

\* Every action leaves the job alone and counts at most one fault.
LEMMA FaultsCounted ==
  ASSUME Next
  PROVE  job' = job /\ (Fault \/ UNCHANGED faults)
<1>1. CASE Client
  BY <1>1 DEF Client, Connect, Begin, Opened, Search, SearchError, GetHash, NoHash, CompareHash,
      HashError, PutFile, PutDone, DontNeed, Commit, Committed, Undo, Failed, NoAnswer, Sync,
      SyncCompare, SyncDelete, SyncDeleted, Clean, CleanList, CleanFile, Finds
<1>2. ASSUME NEW k \in Attempts, Session(k) PROVE job' = job /\ UNCHANGED faults
  BY <1>2 DEF Session, SrvOpen, SrvGetHash, SrvDontNeed, SrvPutFile, SrvCommit, SrvCopy,
      SrvCommitted, SrvUndo, SrvEnum, SrvDelete, SrvGiveUp
<1>3. CASE Environment
  BY <1>3 DEF Environment, ConnectFail, Search, SearchError, NoHash, NoAnswer, Sync, CleanList,
      Finds, SourceChange, Crash, Break, SrvHashError, SrvPutError, SrvCopyFail, SrvSyncError
<1>4. CASE Finished
  BY <1>4 DEF Finished, vars
<1> QED
  BY <1>1, <1>2, <1>3, <1>4 DEF Next

\* What a step of the client leaves alone, and what the others do.
LEMMA ClientKeeps ==
  ASSUME \/ Client \/ ConnectFail \/ Search(TRUE) \/ SearchError(TRUE) \/ NoHash(TRUE)
  \/ NoAnswer(TRUE) \/ Sync(TRUE) \/ CleanList(TRUE)
  PROVE  UNCHANGED <<disk, inTx, files>> /\ (Connect \/ UNCHANGED spc)
BY DEF Client, Connect, Begin, Opened, Search, SearchError, GetHash, NoHash, CompareHash,
   HashError, PutFile, PutDone, DontNeed, Commit, Committed, Undo, Failed, NoAnswer, Sync,
   SyncCompare, SyncDelete, SyncDeleted, Clean, CleanList, CleanFile, ConnectFail, sessions

LEMMA SessionKeeps ==
  ASSUME NEW k \in Attempts,
         \/ Session(k) \/ SrvHashError(k) \/ SrvPutError(k) \/ SrvCopyFail(k) \/ SrvSyncError(k)
  PROVE  UNCHANGED <<source, client>>
BY DEF Session, SrvOpen, SrvGetHash, SrvDontNeed, SrvPutFile, SrvCommit, SrvCopy, SrvCommitted,
   SrvUndo, SrvEnum, SrvDelete, SrvGiveUp, SrvHashError, SrvPutError, SrvCopyFail, SrvSyncError

LEMMA ITypeStep ==
  ASSUME IType, [Next]_vars
  PROVE  IType'
<1>0. CASE UNCHANGED vars
  <2>1. Placed'
    BY <1>0 DEF IType, Placed, vars, client, position
  <2>2. job' \in Jobs /\ faults' \in 0..MaxFaults
    BY <1>0 DEF IType, vars
  <2> QED
    BY <1>0, <2>1, <2>2, Kept DEF IType, vars, client
<1>1. CASE Next
  <2>1. job' \in Jobs /\ faults' \in 0..MaxFaults
    BY <1>1, FaultsCounted, FaultType DEF IType
  <2>2. CASE \/ Client \/ ConnectFail \/ Search(TRUE) \/ SearchError(TRUE) \/ NoHash(TRUE)
  \/ NoAnswer(TRUE) \/ Sync(TRUE) \/ CleanList(TRUE)
    <3>1. Typed'
      BY <2>2, ClientStep
    <3>2. UNCHANGED <<disk, inTx, files>> /\ (Connect \/ UNCHANGED spc)
      BY <2>2, ClientKeeps
    <3>3. SessionTypes'
      BY <3>2 DEF Connect, IType, ClientTypes, SessionTypes
    <3> QED
      BY <2>1, <3>1, <3>2, <3>3, Kept DEF IType, Typed
  <2>3. ASSUME NEW k \in Attempts,
               \/ Session(k) \/ SrvHashError(k) \/ SrvPutError(k) \/ SrvCopyFail(k)
               \/ SrvSyncError(k)
        PROVE  IType'
    <3>1. Served'
      BY <2>3, SessionStep
    <3>2. UNCHANGED <<source, client>>
      BY <2>3, SessionKeeps
    <3>3. Placed'
      BY <3>2 DEF IType, Placed, client, position
    <3> QED
      BY <2>1, <3>1, <3>2, <3>3, Kept DEF IType, Served, client
  <2>4. CASE SourceChange \/ Crash \/ \E k \in Attempts : Break(k)
    <3>1. SourceTypes' /\ SessionTypes' /\ NetTypes'
      BY <2>4, EnvironmentStep
    <3>2. UNCHANGED <<client, disk>>
      BY <2>4 DEF SourceChange, Crash, Break
    <3>3. Placed'
      BY <3>2 DEF IType, Placed, client, position
    <3> QED
      BY <2>1, <3>1, <3>2, <3>3, Kept DEF IType, client
  <2>5. CASE Finished
    BY <1>0, <2>5 DEF Finished
  <2> QED
    BY <1>1, <2>2, <2>3, <2>4, <2>5 DEF Next, Environment
<1> QED
  BY <1>0, <1>1

LEMMA ITypeImplies == IType => TypeOK
<1> SUFFICES ASSUME IType PROVE TypeOK
  OBVIOUS
<1>1. c2s \in [Attempts -> Seq(Commands)]
  <2>1. \A s \in Seq(LegalCommands) : s \in Seq(Commands)
    BY DEF LegalCommands
  <2> QED
    BY <2>1 DEF IType, NetTypes
<1> QED
  BY <1>1 DEF TypeOK, IType, SourceTypes, PositionTypes, ClientTypes, HistoryTypes, DiskTypes,
     SessionTypes, NetTypes

LEMMA TypeInvariant == Spec => []IType
BY ITypeInit, ITypeStep, PTL DEF Spec

\* Type correctness of a write job of several files, whether or not an attempt
\* may start while an older session runs (do_put_file, command_transaction).
THEOREM WriteTypeCorrect == Spec => []TypeOK
BY TypeInvariant, ITypeImplies, PTL

-----------------------------------------------------------------------------
(* The refinement of StagedFiles, when no attempt starts before the older  *)
(* sessions have ended.                                                    *)

\* The commands the client may have put into a channel: no put_file without
\* the hash that was announced for its file.
Offered == {m \in LegalCommands : m.kind = "put_file" => m.hash \in asked[m.file]}
AllOffered == c2s \in [Attempts -> Seq(Offered)]

\* Nothing has happened yet in an attempt that has not begun.
Fresh ==
  \A k \in Attempts : k > try \/ (k = try /\ cpc = "connect") =>
    spc[k] = "none" /\ c2s[k] = <<>> /\ s2c[k] = <<>> /\ files[k] = <<>> /\ ~inTx[k]

Running    == {"idle", "copy", "commit"}
OneSession == \A j, k \in Attempts : spc[j] \in Running /\ spc[k] \in Running => j = k

\* What a session has on its list is in the temporary file, and announced.
Known(f) == UNION {asked[g] : g \in {h \in Files : Temp(h) = Temp(f)}}
Held     == {f \in Files : temp[Temp(f)] \in Known(f) \cup {NoFile}}
ListedAt(k) ==
  /\ spc[k] \in Running => files[k] \in Seq(Held)
  /\ spc[k] = "idle" /\ ~inTx[k] => files[k] = <<>>
  /\ spc[k] = "copy" => Len(files[k]) = 1 /\ ~inTx[k]
  /\ spc[k] = "commit" => inTx[k]
Listed == \A k \in Attempts : ListedAt(k)

\* Before the client has requested a commit, no channel holds one, no session
\* outside its transaction is to receive a file, and the client works in a
\* transaction that the session knows of.
Installing == ~job.transaction \/ commits
Without(K) == {m \in LegalCommands : m.kind \notin K}
UndoLast(s) == \A i \in 1..(Len(s) - 1) : s[i].kind # "undo"
QuietAt(k) ==
  /\ spc[k] \notin {"copy", "commit"}
  /\ c2s[k] \in Seq(Without({"commit", "delete"}))
  /\ ~inTx[k] => c2s[k] \in Seq(Without({"put_file"}))
  /\ UndoLast(c2s[k])
Working == {"search", "file", "wait_hash", "put", "wait_put"}
ClientQuiet ==
  /\ cpc = "begin" => c2s[try] = <<>> /\ s2c[try] = <<>>
  /\ cpc = "wait_open" => /\ c2s[try] \in Seq({m \in LegalCommands : m.kind = "open"})
                          /\ s2c[try] # <<>> => inTx[try]
  /\ cpc \in Working => inTx[try]
  /\ cpc \in Working \cup {"undo"} => c2s[try] \in Seq(Without({"undo"}))
  /\ cpc \notin {"wait_commit", "sync", "wait_list", "drop", "wait_drop", "clean", "listing",
                 "wipe"}
Unasked == ~Installing => ClientQuiet /\ \A k \in Attempts : QuietAt(k)

StagedInv == AllOffered /\ Fresh /\ OneSession /\ Listed /\ Unasked

\* Reading a queue of commands of some kind, and writing one.
LEMMA Queue ==
  ASSUME NEW S, NEW s \in Seq(S)
  PROVE  /\ \A m \in S : Append(s, m) \in Seq(S)
         /\ <<>> \in Seq(S)
         /\ s # <<>> => Head(s) \in S /\ Tail(s) \in Seq(S)
OBVIOUS

\* An undo is the last command: nothing follows it, and it may follow anything
\* that holds none.
LEMMA UndoQueue ==
  ASSUME NEW s \in Seq(LegalCommands)
  PROVE  /\ UndoLast(<<>>)
         /\ s # <<>> /\ UndoLast(s) => UndoLast(Tail(s))
         /\ s # <<>> /\ UndoLast(s) /\ Head(s).kind = "undo" => Tail(s) = <<>>
         /\ s \in Seq(Without({"undo"})) => \A m \in LegalCommands : UndoLast(Append(s, m))
<1>1. UndoLast(<<>>)
  BY DEF UndoLast
<1>2. ASSUME s # <<>>, UndoLast(s) PROVE UndoLast(Tail(s))
  <2>1. Len(Tail(s)) = Len(s) - 1 /\ \A i \in 1..Len(Tail(s)) : Tail(s)[i] = s[i + 1]
    BY <1>2
  <2>2. Len(s) \in Nat
    OBVIOUS
  <2> QED
    BY <1>2, <2>1, <2>2 DEF UndoLast
<1>3. ASSUME s # <<>>, UndoLast(s), Head(s).kind = "undo" PROVE Tail(s) = <<>>
  <2>1. Len(s) \in Nat /\ Len(s) >= 1 /\ Head(s) = s[1]
    BY <1>3
  <2>2. ~(1 \in 1..(Len(s) - 1))
    BY <1>3, <2>1 DEF UndoLast
  <2>3. \A n \in Nat : n >= 1 /\ ~(1 \in 1..(n - 1)) => n = 1
    OBVIOUS
  <2>4. Len(s) = 1
    BY <2>1, <2>2, <2>3
  <2>5. Tail(s) \in Seq(LegalCommands) /\ Len(Tail(s)) = 0
    BY <1>3, <2>4
  <2> QED
    BY <2>5, EmptySeq
<1>4. ASSUME s \in Seq(Without({"undo"})), NEW m \in LegalCommands PROVE UndoLast(Append(s, m))
  <2>1. /\ Len(Append(s, m)) = Len(s) + 1 /\ Len(s) \in Nat
        /\ \A i \in 1..Len(s) : Append(s, m)[i] = s[i]
    BY <1>4
  <2>2. \A i \in 1..Len(s) : s[i].kind # "undo"
    BY <1>4 DEF Without
  <2> QED
    BY <2>1, <2>2 DEF UndoLast
<1> QED
  BY <1>1, <1>2, <1>3, <1>4

\* Announcing more and removing a temporary file spoil nothing.
LEMMA Grows ==
  ASSUME IType, job' = job, \A g \in Files : asked[g] \subseteq asked'[g]
  PROVE  /\ Offered \subseteq Offered'
         /\ \A f \in Files : Temp(f)' = Temp(f) /\ Known(f) \subseteq Known(f)'
         /\ (\A f \in Files : temp'[Temp(f)] \in {temp[Temp(f)], NoFile}) => Held \subseteq Held'
<1>1. Offered \subseteq Offered'
  BY DEF Offered, LegalCommands
<1>2. \A f \in Files : Temp(f)' = Temp(f)
  BY DEF Temp
<1>3. \A f \in Files : Known(f) \subseteq Known(f)'
  BY <1>2 DEF Known
<1> QED
  BY <1>1, <1>2, <1>3 DEF Held

LEMMA ListedKept ==
  ASSUME NEW k \in Attempts, Held \subseteq Held', ListedAt(k),
         spc'[k] = spc[k], inTx'[k] = inTx[k], files'[k] = files[k]
  PROVE  ListedAt(k)'
BY DEF ListedAt

-----------------------------------------------------------------------------
(* The client's steps.                                                     *)

ClientSteps ==
  \/ Client \/ ConnectFail \/ Search(TRUE) \/ SearchError(TRUE) \/ NoHash(TRUE)
  \/ NoAnswer(TRUE) \/ Sync(TRUE) \/ CleanList(TRUE)

\* The client announces a hash or requests the commit, never both.
LEMMA ClientAnnounces ==
  ASSUME IType, ClientSteps
  PROVE  /\ \A g \in Files : asked[g] \subseteq asked'[g]
         /\ job' = job /\ (commits => commits') /\ (commits' # commits => asked' = asked)
<1>1. CASE PutFile
  BY <1>1 DEF PutFile, IType, HistoryTypes
<1>2. CASE Commit
  BY <1>2 DEF Commit, IType, HistoryTypes
<1>3. ASSUME ~PutFile, ~Commit PROVE UNCHANGED <<job, asked, commits>>
  BY <1>3 DEF ClientSteps, Client, Connect, Begin, Opened, Search, SearchError, GetHash, NoHash,
      CompareHash, HashError, PutDone, DontNeed, Committed, Undo, Failed, NoAnswer, Sync,
      SyncCompare, SyncDelete, SyncDeleted, Clean, CleanList, CleanFile, ConnectFail
<1> QED
  BY <1>1, <1>2, <1>3

\* It works on the connection of its attempt only, which ends with it.
ThisAttempt ==
  /\ \A k \in Attempts : k # try => c2s'[k] = c2s[k] /\ s2c'[k] = s2c[k]
  /\ \/ cpc' # "connect" /\ try' = try
     \/ cpc' = "connect" /\ try' = try + 1

LEMMA ThisHangup ==
  ASSUME IType, NEW r \in BOOLEAN, Hangup(r), UNCHANGED c2s
  PROVE  ThisAttempt
BY DEF Hangup, ThisAttempt, IType, NetTypes

LEMMA ThisRequest ==
  ASSUME IType, NEW m, NEW s, s # "connect", NEW r \in BOOLEAN, RequestElse(m, s, r)
  PROVE  ThisAttempt
<1>1. CASE c2s' = Sends(c2s, try, m) /\ cpc' = s /\ UNCHANGED <<try, result, s2c, up>>
  BY <1>1 DEF Sends, ThisAttempt, IType, NetTypes
<1>2. CASE Hangup(r) /\ UNCHANGED c2s
  BY <1>2, ThisHangup
<1> QED
  BY <1>1, <1>2 DEF RequestElse

\* Whatever it reads, and wherever it goes on without a hangup.
LEMMA ThisRead ==
  ASSUME IType, TakeAnswer \/ UNCHANGED s2c, UNCHANGED <<c2s, try>>, cpc' # "connect"
  PROVE  ThisAttempt
BY DEF TakeAnswer, ThisAttempt, IType, NetTypes

LEMMA ThisAbandon ==
  ASSUME IType, Abandon, UNCHANGED c2s
  PROVE  ThisAttempt
<1>1. CASE GoUndo(FALSE) /\ UNCHANGED s2c
  BY <1>1, ThisRead DEF GoUndo
<1>2. CASE Hangup(FALSE)
  BY <1>2, ThisHangup
<1> QED
  BY <1>1, <1>2 DEF Abandon

LEMMA ThisFileError ==
  ASSUME IType, FileError
  PROVE  ThisAttempt
<1>1. CASE Abandon /\ UNCHANGED <<todo, c2s>>
  BY <1>1, ThisAbandon
<1>2. CASE NextFile /\ UNCHANGED net
  BY <1>2, ThisRead DEF NextFile, GoTo, net
<1> QED
  BY <1>1, <1>2 DEF FileError

LEMMA ClientStays ==
  ASSUME IType, ClientSteps, ~Connect
  PROVE  ThisAttempt
<1>1. CASE \/ Opened \/ Search(FALSE) \/ Search(TRUE) \/ SearchError(FALSE) \/ SearchError(TRUE)
           \/ CompareHash
           \/ HashError \/ PutDone \/ DontNeed \/ Committed \/ SyncCompare \/ SyncDeleted
  <2>1. (TakeAnswer \/ UNCHANGED s2c) /\ UNCHANGED <<c2s, try>>
    BY <1>1 DEF Opened, Search, SearchError, CompareHash, HashError, PutDone, DontNeed, Committed,
       SyncCompare, SyncDeleted, GoTo, GoUndo, NextFile, PostProcess, AfterCommit, net
  <2>2. cpc' # "connect"
    BY <1>1 DEF Opened, Search, SearchError, CompareHash, HashError, PutDone, DontNeed, Committed,
       SyncCompare, SyncDeleted, GoTo, GoUndo, NextFile, PostProcess, AfterCommit
  <2> QED
    BY <2>1, <2>2, ThisRead
<1>2. CASE Begin
  <2>1. CASE Request(Simple("open"), "wait_open")
    BY <2>1, ThisRequest DEF Request
  <2>2. CASE GoTo("search") /\ UNCHANGED net
    BY <2>2, ThisRead DEF GoTo, net
  <2> QED
    BY <1>2, <2>1, <2>2 DEF Begin
<1>3. CASE GetHash
  BY <1>3, ThisRequest DEF GetHash, Request
<1>4. CASE PutFile
  <2>1. CASE Request(Frame("put_file", cur, file_hash, src[cur]), "wait_put")
    BY <2>1, ThisRequest DEF Request
  <2>2. CASE FileError
    BY <2>2, ThisFileError
  <2> QED
    BY <1>4, <2>1, <2>2 DEF PutFile
<1>5. CASE Commit
  <2>1. CASE Request(Simple("commit"), "wait_commit")
    BY <2>1, ThisRequest DEF Request
  <2>2. CASE AfterCommit /\ UNCHANGED net
    BY <2>2, ThisRead DEF AfterCommit, GoTo, net
  <2> QED
    BY <1>5, <2>1, <2>2 DEF Commit
<1>6. CASE Undo
  BY <1>6, ThisRequest DEF Undo, Request
<1>7. CASE Sync(FALSE) \/ Sync(TRUE)
  <2>1. CASE Request(Simple("enum"), "wait_list")
    BY <2>1, ThisRequest DEF Request
  <2>2. CASE Hangup(TRUE) /\ UNCHANGED c2s
    BY <2>2, ThisHangup
  <2> QED
    BY <1>7, <2>1, <2>2 DEF Sync
<1>8. CASE SyncDelete
  <2>1. CASE RequestElse(Frame("delete", cur, NoFile, NoFile), "wait_drop", TRUE)
    BY <2>1, ThisRequest
  <2>2. CASE Hangup(TRUE) /\ UNCHANGED c2s
    BY <2>2, ThisHangup
  <2> QED
    BY <1>8, <2>1, <2>2 DEF SyncDelete
<1>9. CASE NoHash(FALSE) \/ NoHash(TRUE)
  BY <1>9, ThisFileError DEF NoHash
<1>10. CASE ConnectFail
  BY <1>10, ThisHangup DEF ConnectFail
<1>11. CASE Clean \/ CleanFile
  <2>1. CASE Hangup(TRUE)
    BY <1>11, <2>1, ThisHangup DEF Clean, CleanFile
  <2>2. CASE ~Hangup(TRUE)
    BY <1>11, <2>2, ThisRead DEF Clean, CleanFile, GoTo
  <2> QED
    BY <2>1, <2>2
<1>14. CASE CleanList(FALSE) \/ CleanList(TRUE)
  BY <1>14, ThisRead DEF CleanList, GoTo, net
<1>12. CASE Failed
  <2>1. IsOk \in BOOLEAN /\ (IsOk /\ result) \in BOOLEAN
    BY DEF IsOk
  <2>2. \A r \in BOOLEAN : Hangup(r) => ThisAttempt
    BY <1>12, ThisHangup DEF Failed
  <2>3. GoUndo(FALSE) /\ TakeAnswer => ThisAttempt
    BY <1>12, ThisRead DEF Failed, GoUndo
  <2>4. Hangup(FALSE) \/ Hangup(IsOk) \/ Hangup(IsOk /\ result) \/ (GoUndo(FALSE) /\ TakeAnswer)
    BY <1>12 DEF Failed
  <2> QED
    BY <2>1, <2>2, <2>3, <2>4
<1>13. CASE NoAnswer(FALSE) \/ NoAnswer(TRUE)
  <2>1. CASE FileError
    BY <2>1, ThisFileError
  <2>2. CASE Abandon /\ UNCHANGED c2s
    BY <2>2, ThisAbandon
  <2>3. CASE Hangup(FALSE) /\ UNCHANGED c2s
    BY <2>3, ThisHangup
  <2> QED
    BY <1>13, <2>1, <2>2, <2>3 DEF NoAnswer
<1> QED
  BY <1>1, <1>2, <1>3, <1>4, <1>5, <1>6, <1>7, <1>8, <1>9, <1>10, <1>11, <1>12, <1>13, <1>14
  DEF ClientSteps, Client

\* Every command it sends is one that may be offered.
LEMMA ClientOffers ==
  ASSUME IType, ClientSteps
  PROVE  \/ c2s' = c2s
         \/ \E m \in Offered' : /\ c2s' = Sends(c2s, try, m)
                                /\ m.kind = "delete" => cpc = "drop" /\ m.file \in todo
<1> DEFINE Said(m) == /\ m \in Offered' /\ (c2s' = c2s \/ c2s' = Sends(c2s, try, m))
                      /\ m.kind = "delete" => cpc = "drop" /\ m.file \in todo
<1> SUFFICES c2s' = c2s \/ \E m : Said(m)
  OBVIOUS
<1>0. \A m \in LegalCommands : m.kind # "put_file" => m \in Offered'
  BY DEF Offered, LegalCommands
<1>1. \A k \in {"open", "commit", "undo", "enum"} :
        Simple(k) \in Offered' /\ Simple(k).kind # "delete"
  BY <1>0, CommandTypes DEF Simple, Frame
<1>2. \A f \in Files : /\ Frame("get_hash", f, NoFile, NoFile) \in Offered'
                       /\ Frame("get_hash", f, NoFile, NoFile).kind # "delete"
  BY <1>0, CommandTypes DEF Frame
<1>3. \A m, s, r : RequestElse(m, s, r) => c2s' = c2s \/ c2s' = Sends(c2s, try, m)
  BY DEF RequestElse
<1>4. CASE Begin
  BY <1>1, <1>3, <1>4 DEF Begin, Request, net
<1>5. CASE GetHash
  <2>1. cur \in Files
    BY <1>5, CurType DEF GetHash
  <2>2. c2s' = c2s \/ c2s' = Sends(c2s, try, Frame("get_hash", cur, NoFile, NoFile))
    BY <1>3, <1>5 DEF GetHash, Request
  <2> QED
    BY <1>2, <2>1, <2>2
<1>6. CASE PutFile
  <2>1. cur \in Files /\ file_hash \in Contents
    BY <1>6, CurType DEF PutFile, IType, Placed
  <2>2. CASE /\ src[cur] # NoFile
             /\ Request(Frame("put_file", cur, file_hash, src[cur]), "wait_put")
             /\ asked' = [asked EXCEPT ![cur] = @ \cup {file_hash}]
    <3>1. Frame("put_file", cur, file_hash, src[cur]) \in LegalCommands
      BY <2>1, <2>2, CommandTypes DEF IType, SourceTypes
    <3>2. file_hash \in asked'[cur]
      BY <2>1, <2>2 DEF IType, HistoryTypes
    <3>3. /\ Frame("put_file", cur, file_hash, src[cur]) \in Offered'
          /\ Frame("put_file", cur, file_hash, src[cur]).kind # "delete"
      BY <3>1, <3>2 DEF Offered, LegalCommands, Frame
    <3> QED
      BY <1>3, <2>2, <3>3 DEF Request
  <2>3. CASE FileError
    BY <2>3 DEF FileError, net
  <2> QED
    BY <1>6, <2>2, <2>3 DEF PutFile
<1>7. CASE Commit \/ Undo \/ Sync(FALSE) \/ Sync(TRUE)
  BY <1>1, <1>3, <1>7 DEF Commit, Undo, Sync, Request, net
<1>8. CASE SyncDelete
  <2>1. CASE todo # {} /\ RequestElse(Frame("delete", cur, NoFile, NoFile), "wait_drop", TRUE)
    <3>1. cur \in Files /\ cur \in todo
      BY <2>1, CurType
    <3>2. Frame("delete", cur, NoFile, NoFile) \in Offered'
      BY <1>0, <3>1, CommandTypes DEF Frame
    <3>3. Frame("delete", cur, NoFile, NoFile).file = cur /\ cpc = "drop"
      BY <1>8 DEF SyncDelete, Frame
    <3> QED
      BY <1>3, <2>1, <3>1, <3>2, <3>3
  <2> QED
    BY <1>8, <2>1 DEF SyncDelete
<1>9. CASE \/ Connect \/ Opened \/ Search(FALSE) \/ Search(TRUE) \/ SearchError(FALSE)
           \/ SearchError(TRUE) \/ CompareHash
           \/ HashError \/ PutDone \/ DontNeed \/ Committed \/ SyncCompare \/ SyncDeleted
           \/ NoHash(FALSE) \/ NoHash(TRUE) \/ Failed \/ NoAnswer(FALSE) \/ NoAnswer(TRUE)
           \/ Clean \/ CleanList(FALSE) \/ CleanList(TRUE) \/ CleanFile \/ ConnectFail
  BY <1>9 DEF Connect, Opened, Search, SearchError, CompareHash, HashError, PutDone, DontNeed,
     Committed, SyncCompare, SyncDeleted, NoHash, FileError, Failed, NoAnswer, Clean, CleanList,
     CleanFile, ConnectFail, net
<1> QED
  BY <1>4, <1>5, <1>6, <1>7, <1>8, <1>9 DEF ClientSteps, Client

\* In a transaction, before the commit is requested, the client gives the
\* attempt up, goes to the undo, goes on, or sends one of three commands.
GivesUp  == c2s' = c2s /\ cpc' \in {"done", "connect"}
ToUndo   == c2s' = c2s /\ cpc' = "undo" /\ try' = try /\ cpc \in Working
GoesOn   == /\ c2s' = c2s /\ cpc' \in Working /\ try' = try
            /\ cpc \in Working \/ (cpc = "wait_open" /\ s2c[try] # <<>>)
SendOpen == /\ cpc = "begin" /\ cpc' = "wait_open" /\ try' = try /\ s2c' = s2c
            /\ c2s' = Sends(c2s, try, Simple("open"))
SendFile == /\ cpc \in Working /\ cpc' \in Working /\ try' = try
            /\ \E m \in LegalCommands : m.kind \in {"get_hash", "put_file"} /\ c2s' = Sends(c2s, try, m)
SendUndo == /\ cpc = "undo" /\ cpc' = "wait_undo" /\ try' = try
            /\ c2s' = Sends(c2s, try, Simple("undo"))

LEMMA RequestKinds ==
  ASSUME NEW m, NEW s, NEW r, RequestElse(m, s, r)
  PROVE  GivesUp \/ (c2s' = Sends(c2s, try, m) /\ cpc' = s /\ try' = try /\ s2c' = s2c)
BY DEF RequestElse, Hangup, GivesUp

LEMMA ClientInTransaction ==
  ASSUME IType, ClientSteps, ~Connect, job.transaction, ~commits', ClientQuiet
  PROVE  GivesUp \/ ToUndo \/ GoesOn \/ SendOpen \/ SendFile \/ SendUndo
<1>0. cpc \notin {"wait_commit", "sync", "wait_list", "drop", "wait_drop", "clean",
                "listing", "wipe"}
  BY DEF ClientQuiet
<1>1. CASE Begin
  BY <1>1, RequestKinds DEF Begin, Request, SendOpen
<1>2. CASE Opened \/ Search(FALSE) \/ Search(TRUE) \/ CompareHash \/ PutDone \/ DontNeed
  BY <1>2 DEF Opened, Search, CompareHash, PutDone, DontNeed, Answered, PostProcess, NextFile,
     GoTo, net, GoesOn, Working
<1>3. CASE SearchError(FALSE) \/ SearchError(TRUE) \/ HashError
  BY <1>3 DEF SearchError, HashError, GoUndo, ToUndo, Working
<1>4. FileError /\ cpc \in Working => ToUndo
  BY DEF FileError, Abandon, GoUndo, ToUndo
<1>5. CASE NoHash(FALSE) \/ NoHash(TRUE)
  BY <1>4, <1>5 DEF NoHash, Working
<1>6. CASE GetHash
  <2>1. Frame("get_hash", cur, NoFile, NoFile) \in LegalCommands
    BY <1>6, CurType, CommandTypes DEF GetHash
  <2>2. Frame("get_hash", cur, NoFile, NoFile).kind = "get_hash"
    BY DEF Frame
  <2>3. PICK m \in LegalCommands : /\ m.kind \in {"get_hash", "put_file"}
                                  /\ RequestElse(m, "wait_hash", FALSE)
    BY <1>6, <2>1, <2>2 DEF GetHash, Request
  <2> QED
    BY <1>6, <2>3, RequestKinds DEF GetHash, SendFile, Working
<1>7. CASE PutFile
  <2>1. CASE src[cur] # NoFile /\ Request(Frame("put_file", cur, file_hash, src[cur]), "wait_put")
    <3>1. Frame("put_file", cur, file_hash, src[cur]) \in LegalCommands
      BY <1>7, <2>1, CurType, CommandTypes DEF PutFile, IType, Placed, SourceTypes
    <3>2. Frame("put_file", cur, file_hash, src[cur]).kind = "put_file"
      BY DEF Frame
    <3>3. PICK m \in LegalCommands : /\ m.kind \in {"get_hash", "put_file"}
                                    /\ RequestElse(m, "wait_put", FALSE)
      BY <2>1, <3>1, <3>2 DEF Request
    <3> QED
      BY <1>7, <3>3, RequestKinds DEF PutFile, SendFile, Working
  <2>2. CASE FileError
    BY <1>4, <1>7, <2>2 DEF PutFile, Working
  <2> QED
    BY <1>7, <2>1, <2>2 DEF PutFile
<1>8. CASE Undo
  BY <1>8, RequestKinds DEF Undo, Request, SendUndo
<1>9. CASE Failed
  BY <1>0, <1>9 DEF Failed, Hangup, GoUndo, GivesUp, ToUndo, Working
<1>10. CASE NoAnswer(FALSE) \/ NoAnswer(TRUE)
  <2>1. CASE cpc = "wait_hash" /\ FileError
    BY <1>4, <2>1 DEF Working
  <2>2. CASE cpc = "wait_put" /\ Abandon /\ UNCHANGED c2s
    BY <2>2 DEF Abandon, GoUndo, ToUndo, Working
  <2>3. CASE Hangup(FALSE) /\ UNCHANGED c2s
    BY <2>3 DEF Hangup, GivesUp
  <2> QED
    BY <1>10, <2>1, <2>2, <2>3 DEF NoAnswer
<1>11. CASE ConnectFail
  BY <1>11 DEF ConnectFail, Hangup, GivesUp
<1>12. ~(Commit \/ Committed \/ Sync(FALSE) \/ Sync(TRUE) \/ SyncCompare \/ SyncDelete
         \/ SyncDeleted \/ Clean \/ CleanList(FALSE) \/ CleanList(TRUE) \/ CleanFile)
  BY <1>0 DEF Commit, Committed, Sync, SyncCompare, SyncDelete, SyncDeleted, Clean, CleanList,
     CleanFile
<1> QED
  BY <1>1, <1>2, <1>3, <1>5, <1>6, <1>7, <1>8, <1>9, <1>10, <1>11, <1>12 DEF ClientSteps, Client

\* A command that may be sent leaves the channels as they have to be.
LEMMA QuietSend ==
  ASSUME IType, \A k \in Attempts : QuietAt(k), spc' = spc, inTx' = inTx,
         c2s[try] \in Seq(Without({"undo"})),
         NEW m \in LegalCommands, m.kind \notin {"commit", "delete"},
         m.kind = "put_file" => inTx[try],
         c2s' = Sends(c2s, try, m)
  PROVE  \A k \in Attempts : QuietAt(k)'
<1> SUFFICES ASSUME NEW k \in Attempts PROVE QuietAt(k)'
  OBVIOUS
<1>0. try \in Attempts /\ c2s \in [Attempts -> Seq(LegalCommands)]
  BY DEF IType, ClientTypes, NetTypes
<1>1. CASE c2s'[k] = c2s[k]
  BY <1>1 DEF QuietAt
<1>2. CASE k = try /\ c2s'[k] = Append(c2s[k], m)
  <2>1. m \in Without({"commit", "delete"}) /\ (~inTx[k] => m \in Without({"put_file"}))
    BY <1>2 DEF Without
  <2>2. c2s'[k] \in Seq(Without({"commit", "delete"}))
    <3>1. c2s[k] \in Seq(Without({"commit", "delete"}))
      BY DEF QuietAt
    <3> QED
      BY <1>2, <2>1, <3>1, Queue
  <2>3. ~inTx[k] => c2s'[k] \in Seq(Without({"put_file"}))
    <3>1. ~inTx[k] => c2s[k] \in Seq(Without({"put_file"}))
      BY DEF QuietAt
    <3> QED
      BY <1>2, <2>1, <3>1, Queue
  <2>4. UndoLast(c2s'[k])
    BY <1>0, <1>2, UndoQueue
  <2> QED
    BY <2>2, <2>3, <2>4 DEF QuietAt
<1> QED
  BY <1>0, <1>1, <1>2 DEF Sends

LEMMA ClientQuietKept ==
  ASSUME IType, Unasked, ClientSteps, ~Connect
  PROVE  Unasked'
<1> SUFFICES ASSUME ~Installing' PROVE ClientQuiet' /\ \A k \in Attempts : QuietAt(k)'
  BY DEF Unasked
<1>0. spc' = spc /\ inTx' = inTx
  BY ClientKeeps DEF ClientSteps
<1>1. job.transaction /\ ~commits' /\ ~Installing
  BY ClientAnnounces, JobTypes DEF Installing
<1>2. ClientQuiet /\ \A k \in Attempts : QuietAt(k)
  BY <1>1 DEF Unasked
<1>3. try \in Attempts /\ c2s \in [Attempts -> Seq(LegalCommands)]
  BY DEF IType, ClientTypes, NetTypes
<1>4. CASE GivesUp
  BY <1>0, <1>2, <1>4 DEF GivesUp, ClientQuiet, QuietAt, Working
<1>5. CASE ToUndo
  BY <1>0, <1>2, <1>5 DEF ToUndo, ClientQuiet, QuietAt, Working
<1>6. CASE GoesOn
  <2>1. inTx[try] /\ c2s[try] \in Seq(Without({"undo"}))
    <3>1. CASE cpc \in Working
      BY <1>2, <3>1 DEF ClientQuiet
    <3>2. CASE cpc = "wait_open" /\ s2c[try] # <<>>
      <4>1. c2s[try] \in Seq({m \in LegalCommands : m.kind = "open"}) /\ inTx[try]
        BY <1>2, <3>2 DEF ClientQuiet
      <4> QED
        BY <4>1 DEF Without
    <3> QED
      BY <1>6, <3>1, <3>2 DEF GoesOn
  <2> QED
    BY <1>0, <1>2, <1>6, <2>1 DEF GoesOn, ClientQuiet, QuietAt, Working
<1>7. CASE SendOpen
  <2> DEFINE m == Simple("open")
  <2>1. m \in LegalCommands /\ m.kind = "open"
    BY CommandTypes DEF Simple, Frame
  <2>2. c2s[try] = <<>> /\ s2c[try] = <<>>
    BY <1>2, <1>7 DEF SendOpen, ClientQuiet
  <2>3. c2s' = Sends(c2s, try, m)
    BY <1>7 DEF SendOpen
  <2> HIDE DEF m
  <2>4. \A k \in Attempts : QuietAt(k)'
    BY <1>0, <1>2, <2>1, <2>2, <2>3, QuietSend
  <2>5. c2s'[try] \in Seq({n \in LegalCommands : n.kind = "open"})
    <3>1. c2s'[try] \in {<<>>, Append(<<>>, m)}
      BY <1>3, <2>2, <2>3 DEF Sends
    <3>2. m \in {n \in LegalCommands : n.kind = "open"}
      BY <2>1
    <3>3. \A S : m \in S => <<>> \in Seq(S) /\ Append(<<>>, m) \in Seq(S)
      OBVIOUS
    <3> QED
      BY <3>1, <3>2, <3>3
  <2> QED
    BY <1>7, <2>2, <2>4, <2>5 DEF SendOpen, ClientQuiet, Working
<1>8. CASE SendFile
  <2>1. PICK m \in LegalCommands :
          m.kind \in {"get_hash", "put_file"} /\ c2s' = Sends(c2s, try, m)
    BY <1>8 DEF SendFile
  <2>2. inTx[try] /\ c2s[try] \in Seq(Without({"undo"}))
    BY <1>2, <1>8 DEF SendFile, ClientQuiet
  <2>3. \A k \in Attempts : QuietAt(k)'
    BY <1>0, <1>2, <2>1, <2>2, QuietSend
  <2>4. c2s'[try] \in Seq(Without({"undo"}))
    <3>1. m \in Without({"undo"})
      BY <2>1 DEF Without
    <3>2. c2s'[try] \in {c2s[try], Append(c2s[try], m)}
      BY <1>3, <2>1 DEF Sends
    <3> QED
      BY <2>2, <3>1, <3>2, Queue
  <2> QED
    BY <1>0, <1>8, <2>2, <2>3, <2>4 DEF SendFile, ClientQuiet, Working
<1>9. CASE SendUndo
  <2> DEFINE m == Simple("undo")
  <2>1. m \in LegalCommands /\ m.kind = "undo"
    BY CommandTypes DEF Simple, Frame
  <2>2. c2s[try] \in Seq(Without({"undo"}))
    BY <1>2, <1>9 DEF SendUndo, ClientQuiet
  <2>3. c2s' = Sends(c2s, try, m)
    BY <1>9 DEF SendUndo
  <2> HIDE DEF m
  <2>4. \A k \in Attempts : QuietAt(k)'
    BY <1>0, <1>2, <2>1, <2>2, <2>3, QuietSend
  <2> QED
    BY <1>9, <2>4 DEF SendUndo, ClientQuiet, Working
<1> QED
  BY <1>1, <1>2, <1>4, <1>5, <1>6, <1>7, <1>8, <1>9, ClientInTransaction

\* The rest of what the client's steps leave as it is.
LEMMA ClientStaged ==
  ASSUME IType, IType', StagedInv, ClientSteps, ~Connect
  PROVE  StagedInv'
<1>0. UNCHANGED <<disk, inTx, files, spc>>
  BY ClientKeeps DEF ClientSteps
<1>1. /\ job' = job /\ \A g \in Files : asked[g] \subseteq asked'[g]
  BY ClientAnnounces
<1>2. Offered \subseteq Offered' /\ Held \subseteq Held'
  BY <1>0, <1>1, Grows DEF disk
<1>3. AllOffered'
  <2>1. c2s \in [Attempts -> Seq(Offered')]
    <3>1. \A s \in Seq(Offered) : s \in Seq(Offered')
      BY <1>2
    <3> QED
      BY <3>1 DEF StagedInv, AllOffered
  <2>2. \A m \in Offered' : Sends(c2s, try, m) \in [Attempts -> Seq(Offered')]
    BY <2>1, ChannelType DEF IType, ClientTypes
  <2>3. c2s' \in [Attempts -> Seq(Offered')]
    BY <2>1, <2>2, ClientOffers
  <2> QED
    BY <2>3 DEF AllOffered
<1>4. Fresh'
  <2>1. try \in Nat /\ try' \in Nat /\ \A k \in Attempts : k \in Nat
    BY DEF IType, ClientTypes, Attempts
  <2>2. \A k \in Attempts : k > try' \/ (k = try' /\ cpc' = "connect") => k > try
    BY <2>1, ClientStays DEF ThisAttempt
  <2>3. \A k \in Attempts : k > try => c2s'[k] = c2s[k] /\ s2c'[k] = s2c[k]
    BY <2>1, ClientStays DEF ThisAttempt
  <2> QED
    BY <1>0, <2>2, <2>3 DEF StagedInv, Fresh
<1>5. OneSession' /\ Listed'
  <2>1. \A k \in Attempts : ListedAt(k)'
    BY <1>0, <1>2, ListedKept DEF StagedInv, Listed
  <2> QED
    BY <1>0, <2>1 DEF StagedInv, OneSession, Listed
<1>6. Unasked'
  BY ClientQuietKept DEF StagedInv
<1> QED
  BY <1>3, <1>4, <1>5, <1>6 DEF StagedInv

\* The first step of an attempt: there is no other session, and nothing in its
\* channels.
LEMMA ConnectStaged ==
  ASSUME IType, IType', StagedInv, Connect, ~Overlap
  PROVE  StagedInv'
<1>0. /\ job' = job /\ temp' = temp /\ UNCHANGED <<asked, commits, inTx, files, c2s, s2c, try>>
      /\ cpc = "connect" /\ cpc' = "begin" /\ spc' = [spc EXCEPT ![try] = "idle"]
      /\ \A k \in Attempts : spc[k] \in {"none", "ended"}
  BY DEF Connect, disk
<1>1. try \in Attempts /\ spc \in [Attempts -> {"none", "idle", "copy", "commit", "ended"}]
  BY DEF IType, ClientTypes, SessionTypes
<1>2. c2s[try] = <<>> /\ s2c[try] = <<>> /\ files[try] = <<>> /\ ~inTx[try]
  BY <1>0, <1>1 DEF StagedInv, Fresh
<1>3. Offered' = Offered /\ Held' = Held
  BY <1>0 DEF Offered, Held, Known, Temp
<1>4. AllOffered'
  BY <1>0, <1>3 DEF StagedInv, AllOffered
<1>5. Fresh'
  <2>1. \A k \in Attempts : k > try => k # try
    BY <1>1 DEF Attempts
  <2> QED
    BY <1>0, <1>1, <2>1 DEF StagedInv, Fresh
<1>6. OneSession'
  BY <1>0, <1>1 DEF OneSession, Running
<1>7. Listed'
  <2> SUFFICES ASSUME NEW k \in Attempts PROVE ListedAt(k)'
    BY DEF Listed
  <2>1. CASE k = try
    <3>1. spc'[k] = "idle" /\ files'[k] = <<>> /\ <<>> \in Seq(Held')
      BY <1>0, <1>1, <1>2, <2>1
    <3> QED
      BY <3>1 DEF ListedAt
  <2>2. CASE k # try
    <3>1. spc'[k] = spc[k]
      BY <1>0, <1>1, <2>2
    <3> QED
      BY <1>0, <1>3, <3>1, ListedKept DEF StagedInv, Listed
  <2> QED
    BY <2>1, <2>2
<1>8. Unasked'
  <2> SUFFICES ASSUME ~Installing' PROVE ClientQuiet' /\ \A k \in Attempts : QuietAt(k)'
    BY DEF Unasked
  <2>1. ~Installing
    BY <1>0 DEF Installing
  <2>2. \A k \in Attempts : QuietAt(k)'
    BY <1>0, <1>1, <2>1 DEF StagedInv, Unasked, QuietAt
  <2>3. ClientQuiet'
    BY <1>0, <1>2 DEF ClientQuiet, Working
  <2> QED
    BY <2>2, <2>3
<1> QED
  BY <1>4, <1>5, <1>6, <1>7, <1>8 DEF StagedInv

-----------------------------------------------------------------------------
(* The sessions' steps.                                                    *)

SessionSteps(k) ==
  Session(k) \/ SrvHashError(k) \/ SrvPutError(k) \/ SrvCopyFail(k) \/ SrvSyncError(k)

\* A session works on its own connection; it may take one command, or lose
\* those that are left when it ends.
NetOnly(k) ==
  /\ \A j \in Attempts : j # k => spc'[j] = spc[j] /\ c2s'[j] = c2s[j] /\ s2c'[j] = s2c[j]
  /\ spc'[k] \in Running \cup {"ended"}
  /\ c2s'[k] \in {c2s[k], <<>>} \/ (c2s[k] # <<>> /\ c2s'[k] = Tail(c2s[k]))
StateOnly(k) == \A j \in Attempts : j # k => inTx'[j] = inTx[j] /\ files'[j] = files[j]

LEMMA EndsOnly ==
  ASSUME IType, NEW k \in Attempts, EndSession(k),
         UNCHANGED s2c \/ \E m : s2c' = Sends(s2c, k, m)
  PROVE  NetOnly(k) /\ spc'[k] = "ended" /\ c2s'[k] = <<>>
BY DEF EndSession, Goto, Sends, NetOnly, IType, NetTypes, SessionTypes

LEMMA ReplyOnly ==
  ASSUME IType, NEW k \in Attempts, c2s[k] # <<>>, NEW m, NEW s \in {"idle", "copy"},
         Reply(k, m, s)
  PROVE  /\ NetOnly(k) /\ spc'[k] \in {s, "ended"} /\ c2s'[k] \in {Tail(c2s[k]), <<>>}
         /\ s2c'[k] # s2c[k] => spc'[k] = s
<1>1. CASE Goto(k, s) /\ TakeInput(k) /\ s2c' = Sends(s2c, k, m) /\ UNCHANGED up
  BY <1>1 DEF Goto, TakeInput, Sends, NetOnly, Running, IType, NetTypes, SessionTypes
<1>2. CASE EndSession(k) /\ UNCHANGED s2c
  BY <1>2, EndsOnly
<1> QED
  BY <1>1, <1>2 DEF Reply

LEMMA ReplyErrorOnly ==
  ASSUME IType, NEW k \in Attempts, c2s[k] # <<>>, ReplyError(k)
  PROVE  /\ NetOnly(k) /\ c2s'[k] \in {Tail(c2s[k]), <<>>}
         /\ spc'[k] = "ended" \/ (spc'[k] = "idle" /\ ~inTx[k])
<1>1. CASE ~inTx[k] /\ Reply(k, Simple("error"), "idle")
  BY <1>1, ReplyOnly
<1>2. CASE s2c' = Sends(s2c, k, Simple("error")) /\ EndSession(k)
  BY <1>2, EndsOnly
<1> QED
  BY <1>1, <1>2 DEF ReplyError

\* What a session's step has to keep: of its list, and before the commit of
\* its place, of the transaction, and of what it tells the client.
QuietHere(k) ==
  /\ spc'[k] \notin {"copy", "commit"}
  /\ inTx[k] /\ ~inTx'[k] => /\ c2s[k] # <<>> /\ Input(k).kind = "undo"
                             /\ c2s'[k] \in {Tail(c2s[k]), <<>>}
  /\ s2c'[k] # s2c[k] => c2s[k] # <<>> /\ (Input(k).kind = "open" => inTx'[k])
Fine(k) ==
  /\ spc[k] \in Running /\ NetOnly(k) /\ StateOnly(k) /\ ListedAt(k)'
  /\ ~Installing => QuietHere(k)

LEMMA QuietStays ==
  ASSUME IType, NEW k \in Attempts, ClientQuiet, \A j \in Attempts : QuietAt(j),
         UNCHANGED <<cpc, try>>, NetOnly(k), StateOnly(k), QuietHere(k)
  PROVE  ClientQuiet' /\ \A j \in Attempts : QuietAt(j)'
<1>0. try \in Attempts /\ c2s \in [Attempts -> Seq(LegalCommands)]
  BY DEF IType, ClientTypes, NetTypes
<1>1. \A S : c2s[k] \in Seq(S) => c2s'[k] \in Seq(S)
  BY Queue DEF NetOnly
<1>2. UndoLast(c2s'[k])
  BY <1>0, UndoQueue DEF NetOnly, QuietAt
<1>3. CASE inTx[k] /\ ~inTx'[k]
  <2>1. Head(c2s[k]).kind = "undo" /\ c2s[k] # <<>>
    BY <1>3 DEF QuietHere, Input
  <2>2. Tail(c2s[k]) = <<>>
    BY <1>0, <2>1, UndoQueue DEF QuietAt
  <2>3. c2s'[k] = <<>>
    BY <1>3, <2>2 DEF QuietHere
  <2>4. \A S : <<>> \in Seq(S)
    OBVIOUS
  <2>5. QuietAt(k)'
    BY <1>2, <2>3, <2>4 DEF QuietAt, QuietHere
  <2>6. k = try => cpc \notin Working \cup {"wait_open", "begin"}
    <3>1. ASSUME c2s[k] \in Seq(Without({"undo"})) PROVE FALSE
      <4>1. Head(c2s[k]) \in Without({"undo"})
        BY <2>1, <3>1, Queue
      <4> QED
        BY <2>1, <4>1 DEF Without
    <3>2. ASSUME c2s[k] \in Seq({m \in LegalCommands : m.kind = "open"}) PROVE FALSE
      <4>1. Head(c2s[k]) \in {m \in LegalCommands : m.kind = "open"}
        BY <2>1, <3>2, Queue
      <4> QED
        BY <2>1, <4>1
    <3> QED
      BY <2>1, <3>1, <3>2 DEF ClientQuiet
  <2>7. \A j \in Attempts : j # k => QuietAt(j)'
    BY DEF QuietAt, NetOnly, StateOnly
  <2>8. ClientQuiet'
    <3>1. CASE k = try
      BY <1>1, <2>6, <3>1 DEF ClientQuiet
    <3>2. CASE k # try
      BY <1>0, <3>2 DEF ClientQuiet, NetOnly, StateOnly
    <3> QED
      BY <3>1, <3>2
  <2> QED
    BY <2>5, <2>7, <2>8
<1>4. CASE inTx[k] => inTx'[k]
  <2>1. QuietAt(k)'
    BY <1>1, <1>2, <1>4 DEF QuietAt, QuietHere
  <2>2. \A j \in Attempts : j # k => QuietAt(j)'
    BY DEF QuietAt, NetOnly, StateOnly
  <2>3. ClientQuiet'
    <3>1. CASE k = try
      <4>1. cpc = "begin" => c2s'[try] = <<>> /\ s2c'[try] = <<>>
        <5>1. c2s[k] = <<>> => c2s'[k] = <<>>
          BY DEF NetOnly
        <5> QED
          BY <3>1, <5>1 DEF ClientQuiet, QuietHere
      <4>2. cpc = "wait_open" =>
              /\ c2s'[try] \in Seq({m \in LegalCommands : m.kind = "open"})
              /\ s2c'[try] # <<>> => inTx'[try]
        <5> SUFFICES ASSUME cpc = "wait_open"
                     PROVE  /\ c2s'[try] \in Seq({m \in LegalCommands : m.kind = "open"})
                            /\ s2c'[try] # <<>> => inTx'[try]
          OBVIOUS
        <5>1. c2s[k] \in Seq({m \in LegalCommands : m.kind = "open"}) /\ (s2c[k] # <<>> => inTx[k])
          BY <3>1 DEF ClientQuiet
        <5>2. c2s[k] # <<>> => Input(k).kind = "open"
          <6>1. c2s[k] # <<>> => Head(c2s[k]) \in {m \in LegalCommands : m.kind = "open"}
            BY <5>1, Queue
          <6> QED
            BY <6>1 DEF Input
        <5> QED
          BY <1>1, <1>4, <3>1, <5>1, <5>2 DEF QuietHere
      <4> QED
        BY <1>1, <1>4, <3>1, <4>1, <4>2 DEF ClientQuiet
    <3>2. CASE k # try
      BY <1>0, <3>2 DEF ClientQuiet, NetOnly, StateOnly
    <3> QED
      BY <3>1, <3>2
  <2> QED
    BY <2>1, <2>2, <2>3
<1> QED
  BY <1>3, <1>4

LEMMA FineStays ==
  ASSUME IType, IType', StagedInv, NEW k \in Attempts, Fine(k), job' = job, UNCHANGED client
  PROVE  StagedInv'
<1>0. try \in Attempts /\ \A j \in Attempts : j \in Nat
  BY DEF IType, ClientTypes, Attempts
<1>1. UNCHANGED <<cpc, try, asked, commits>>
  BY DEF client
<1>2. AllOffered'
  <2>1. Offered' = Offered
    BY <1>1 DEF Offered
  <2>2. \A j \in Attempts : c2s'[j] \in Seq(Offered)
    BY Queue DEF Fine, NetOnly, StagedInv, AllOffered
  <2>3. c2s' \in [Attempts -> Seq(Offered)]
    BY <2>2 DEF IType, NetTypes
  <2> QED
    BY <2>1, <2>3 DEF AllOffered
<1>3. Fresh'
  BY <1>1 DEF Fine, NetOnly, StateOnly, Running, StagedInv, Fresh
<1>4. OneSession'
  BY DEF Fine, NetOnly, Running, StagedInv, OneSession
<1>5. Listed'
  <2> SUFFICES ASSUME NEW j \in Attempts, j # k PROVE ListedAt(j)'
    BY DEF Fine, Listed
  <2>1. spc'[j] \notin Running
    BY DEF Fine, NetOnly, StagedInv, OneSession
  <2> QED
    BY <2>1 DEF ListedAt, Running
<1>6. Unasked'
  <2>1. Installing' = Installing
    BY <1>1 DEF Installing
  <2> QED
    BY <1>1, <2>1, QuietStays DEF Fine, StagedInv, Unasked
<1> QED
  BY <1>2, <1>3, <1>4, <1>5, <1>6 DEF StagedInv

\* A command other than open that leaves the transaction and the list alone.
LEMMA PlainReply ==
  ASSUME IType, StagedInv, NEW k \in Attempts, spc[k] = "idle", c2s[k] # <<>>,
         Input(k).kind # "open", NEW m, Reply(k, m, "idle"), UNCHANGED <<inTx, files>>,
         Held \subseteq Held'
  PROVE  Fine(k)
<1>1. NetOnly(k) /\ spc'[k] \in {"idle", "ended"}
  BY ReplyOnly
<1>2. ListedAt(k)'
  <2>1. CASE spc'[k] = "idle"
    BY <2>1, ListedKept DEF StagedInv, Listed
  <2>2. CASE spc'[k] = "ended"
    BY <2>2 DEF ListedAt, Running
  <2> QED
    BY <1>1, <2>1, <2>2
<1>3. StateOnly(k) /\ QuietHere(k)
  BY <1>1 DEF StateOnly, QuietHere
<1> QED
  BY <1>1, <1>2, <1>3 DEF Fine, Running

LEMMA PlainError ==
  ASSUME IType, StagedInv, NEW k \in Attempts, spc[k] = "idle", c2s[k] # <<>>,
         Input(k).kind # "open", ReplyError(k), UNCHANGED <<inTx, files>>
  PROVE  Fine(k)
<1>1. NetOnly(k) /\ (spc'[k] = "ended" \/ (spc'[k] = "idle" /\ ~inTx[k]))
  BY ReplyErrorOnly
<1>2. ListedAt(k)'
  <2>1. CASE spc'[k] = "idle" /\ ~inTx[k]
    <3>1. files'[k] = <<>> /\ <<>> \in Seq(Held')
      BY <2>1 DEF StagedInv, Listed, ListedAt
    <3> QED
      BY <2>1, <3>1 DEF ListedAt
  <2>2. CASE spc'[k] = "ended"
    BY <2>2 DEF ListedAt, Running
  <2> QED
    BY <1>1, <2>1, <2>2
<1>3. StateOnly(k) /\ QuietHere(k)
  BY <1>1 DEF StateOnly, QuietHere
<1> QED
  BY <1>1, <1>2, <1>3 DEF Fine, Running

\* What a session that receives a file with the announced hash puts into the
\* temporary file was announced for every file that shares it.
LEMMA PutHolds ==
  ASSUME IType, StagedInv, NEW k \in Attempts, SrvPutFile(k),
         temp' = [temp EXCEPT ![Temp(Input(k).file)] = Input(k).hash]
  PROVE  Held \subseteq Held' /\ Input(k).file \in Held'
<1> DEFINE f == Input(k).file
<1>1. f \in Files /\ Input(k).hash \in asked[f] /\ Temp(f) \in Files
  <2>1. c2s[k] # <<>> /\ Input(k).kind = "put_file"
    BY DEF SrvPutFile, Has
  <2>2. Input(k) \in Offered
    BY <2>1, Queue DEF StagedInv, AllOffered, Input
  <2> QED
    BY <2>1, <2>2, JobTypes DEF Offered, LegalCommands
<1>2. job' = job /\ asked' = asked
  BY DEF SrvPutFile, client
<1>3. \A g \in Files : Known(g)' = Known(g) /\ Temp(g)' = Temp(g)
  BY <1>2 DEF Known, Temp
<1>4. \A g \in Files : Temp(g) = Temp(f) => Input(k).hash \in Known(g)
  BY <1>1 DEF Known
<1>5. temp'[Temp(f)] = Input(k).hash /\ \A t \in Files : t # Temp(f) => temp'[t] = temp[t]
  BY <1>1 DEF IType, DiskTypes
<1>6. \A g \in Files : Temp(g) \in Files
  BY JobTypes
<1> QED
  BY <1>1, <1>3, <1>4, <1>5, <1>6 DEF Held

LEMMA PutFine ==
  ASSUME IType, StagedInv, NEW k \in Attempts, SrvPutFile(k)
  PROVE  Fine(k)
<1> DEFINE f == Input(k).file
<1>0. spc[k] = "idle" /\ c2s[k] # <<>> /\ Input(k).kind = "put_file" /\ inTx' = inTx
  BY DEF SrvPutFile, Has
<1>1. PICK content \in Received(Temp(f), Input(k).data) :
        /\ temp' = [temp EXCEPT ![Temp(f)] = content]
        /\ \/ /\ content = Input(k).hash
              /\ files' = [files EXCEPT ![k] = <<f>> \o (IF inTx[k] THEN @ ELSE <<>>)]
              /\ Reply(k, Simple("put_ok"), IF inTx[k] THEN "idle" ELSE "copy")
           \/ content # Input(k).hash /\ ReplyError(k) /\ UNCHANGED files
  BY DEF SrvPutFile
<1>2. CASE content # Input(k).hash /\ ReplyError(k) /\ UNCHANGED files
  BY <1>0, <1>2, PlainError
<1>3. CASE /\ content = Input(k).hash
           /\ files' = [files EXCEPT ![k] = <<f>> \o (IF inTx[k] THEN @ ELSE <<>>)]
           /\ Reply(k, Simple("put_ok"), IF inTx[k] THEN "idle" ELSE "copy")
  <2>1. Held \subseteq Held' /\ f \in Held'
    BY <1>1, <1>3, PutHolds
  <2>2. NetOnly(k) /\ spc'[k] \in {IF inTx[k] THEN "idle" ELSE "copy", "ended"}
    BY <1>0, <1>3, ReplyOnly
  <2>3. files'[k] = <<f>> \o (IF inTx[k] THEN files[k] ELSE <<>>) /\ StateOnly(k)
    BY <1>0, <1>3 DEF StateOnly, IType, SessionTypes
  <2>4. ListedAt(k)'
    <3>1. CASE inTx[k] /\ spc'[k] = "idle"
      <4>1. files[k] \in Seq(Held)
        BY <1>0 DEF StagedInv, Listed, ListedAt, Running
      <4>2. \A S : Held \subseteq S /\ f \in S => <<f>> \o files[k] \in Seq(S)
        BY <4>1
      <4>3. files'[k] \in Seq(Held')
        BY <2>1, <2>3, <3>1, <4>2
      <4> QED
        BY <1>0, <3>1, <4>3 DEF ListedAt
    <3>2. CASE ~inTx[k] /\ spc'[k] = "copy"
      <4>1. files'[k] = <<f>>
        BY <2>3, <3>2
      <4>2. <<f>> \in Seq(Held') /\ Len(<<f>>) = 1
        BY <2>1
      <4> QED
        BY <1>0, <3>2, <4>1, <4>2 DEF ListedAt
    <3>3. CASE spc'[k] = "ended"
      BY <3>3 DEF ListedAt, Running
    <3> QED
      BY <2>2, <3>1, <3>2, <3>3
  <2>5. ~Installing => QuietHere(k)
    <3> SUFFICES ASSUME ~Installing PROVE QuietHere(k)
      OBVIOUS
    <3>1. ASSUME ~inTx[k] PROVE FALSE
      <4>1. c2s[k] \in Seq(Without({"put_file"}))
        BY <3>1 DEF StagedInv, Unasked, QuietAt
      <4>2. Head(c2s[k]) \in Without({"put_file"})
        BY <1>0, <4>1, Queue
      <4> QED
        BY <1>0, <4>2 DEF Without, Input
    <3> QED
      BY <1>0, <2>2, <3>1 DEF QuietHere
  <2> QED
    BY <1>0, <2>2, <2>3, <2>4, <2>5 DEF Fine, Running
<1> QED
  BY <1>1, <1>2, <1>3

\* CopyFile replaces a destination by a content announced for it, and never
\* before the commit is requested.
LEMMA CopyFine ==
  ASSUME IType, StagedInv, NEW k \in Attempts, SrvCopy(k) \/ SrvCopyFail(k)
  PROVE  /\ Fine(k) /\ Installing
         /\ \/ dest' = dest
            \/ \E f \in Files : \E c \in Known(f) : dest' = [dest EXCEPT ![f] = c]
<1>0. /\ spc[k] \in {"copy", "commit"} /\ files[k] # <<>> /\ UNCHANGED <<inTx, net, client, job>>
      /\ files' = [files EXCEPT ![k] = Tail(@)]
      /\ spc' = [spc EXCEPT ![k] = IF @ = "copy" THEN "idle" ELSE @]
  BY DEF SrvCopy, SrvCopyFail
<1>1. files[k] \in Seq(Held) /\ ListedAt(k)
  BY <1>0 DEF StagedInv, Listed, ListedAt, Running
<1>2. Head(files[k]) \in Held /\ Tail(files[k]) \in Seq(Held)
  BY <1>0, <1>1
<1>3. Temp(Head(files[k])) \in Files
  BY <1>2, JobTypes DEF Held
<1>4. Installing
  BY <1>0 DEF StagedInv, Unasked, QuietAt
<1>5. Held \subseteq Held'
  <2>1. \A f \in Files : temp'[Temp(f)] \in {temp[Temp(f)], NoFile}
    BY <1>3, JobTypes DEF SrvCopy, SrvCopyFail, IType, DiskTypes
  <2>2. asked' = asked
    BY <1>0 DEF client
  <2> QED
    BY <1>0, <2>1, <2>2, Grows DEF client
<1>6. files'[k] = Tail(files[k]) /\ spc'[k] = IF spc[k] = "copy" THEN "idle" ELSE "commit"
  BY <1>0 DEF IType, SessionTypes
<1>7. ListedAt(k)'
  <2>1. files'[k] \in Seq(Held')
    BY <1>2, <1>5, <1>6
  <2>2. spc[k] = "copy" => files'[k] = <<>>
    <3>1. spc[k] = "copy" => Len(Tail(files[k])) = 0
      BY <1>0, <1>1 DEF ListedAt
    <3> QED
      BY <1>2, <1>6, <3>1, EmptySeq
  <2>3. spc[k] = "commit" => inTx'[k]
    BY <1>0, <1>1 DEF ListedAt
  <2> QED
    BY <1>0, <1>6, <2>1, <2>2, <2>3 DEF ListedAt
<1>8. NetOnly(k) /\ StateOnly(k)
  BY <1>0 DEF NetOnly, StateOnly, Running, net, IType, SessionTypes
<1>9. dest' = dest \/ \E f \in Files : \E c \in Known(f) : dest' = [dest EXCEPT ![f] = c]
  <2>1. CASE SrvCopy(k) /\ temp[Temp(Head(files[k]))] # NoFile
    <3>1. dest' = [dest EXCEPT ![Head(files[k])] = temp[Temp(Head(files[k]))]]
      BY <2>1 DEF SrvCopy
    <3>2. Head(files[k]) \in Files /\ temp[Temp(Head(files[k]))] \in Known(Head(files[k]))
      BY <1>2, <2>1 DEF Held
    <3> QED
      BY <3>1, <3>2
  <2>2. CASE SrvCopyFail(k) \/ temp[Temp(Head(files[k]))] = NoFile
    BY <2>2 DEF SrvCopy, SrvCopyFail
  <2> QED
    BY <2>1, <2>2
<1> QED
  BY <1>0, <1>4, <1>7, <1>8, <1>9 DEF Fine, Running

\* The other steps of a session; the deletion of a synchronisation is the only
\* other that touches the destinations, not before the commit either.
LEMMA SessionFine ==
  ASSUME IType, StagedInv, NEW k \in Attempts, SessionSteps(k)
  PROVE  /\ Fine(k)
         /\ \/ dest' = dest
            \/ Installing /\ \E f \in Files : \E c \in Known(f) : dest' = [dest EXCEPT ![f] = c]
            \/ Installing /\ \E f \in Files : dest' = [dest EXCEPT ![f] = NoFile]
<1>0. job' = job /\ UNCHANGED client
  BY SessionKeeps DEF SessionSteps, Session, SrvOpen, SrvGetHash, SrvDontNeed, SrvPutFile,
     SrvCommit, SrvCopy, SrvCommitted, SrvUndo, SrvEnum, SrvDelete, SrvGiveUp, SrvHashError,
     SrvPutError, SrvCopyFail, SrvSyncError
<1>1. temp' = temp => Held' = Held
  BY <1>0 DEF client, Held, Known, Temp
<1>2. ListedAt(k)
  BY DEF StagedInv, Listed
<1>3. CASE SrvOpen(k)
  <2>1. spc[k] = "idle" /\ c2s[k] # <<>> /\ Input(k).kind = "open" /\ temp' = temp /\ dest' = dest
    BY <1>3 DEF SrvOpen, Has, disk
  <2>2. NetOnly(k) /\ spc'[k] \in {"idle", "ended"}
    BY <1>3, <2>1, ReplyOnly DEF SrvOpen
  <2>3. /\ inTx'[k] /\ files'[k] = (IF inTx[k] THEN files[k] ELSE <<>>) /\ StateOnly(k)
    BY <1>3 DEF SrvOpen, StateOnly, IType, SessionTypes
  <2>4. files[k] \in Seq(Held) /\ <<>> \in Seq(Held)
    BY <1>2, <2>1 DEF ListedAt, Running
  <2>5. ListedAt(k)'
    BY <1>1, <2>1, <2>2, <2>3, <2>4 DEF ListedAt
  <2>6. QuietHere(k)
    BY <2>1, <2>2, <2>3 DEF QuietHere
  <2> QED
    BY <2>1, <2>2, <2>3, <2>5, <2>6 DEF Fine, Running
<1>4. CASE \/ SrvHashError(k) \/ SrvGetHash(k) \/ SrvDontNeed(k) \/ SrvEnum(k) \/ SrvSyncError(k)
  <2>1. /\ spc[k] = "idle" /\ c2s[k] # <<>> /\ Input(k).kind # "open" /\ temp' = temp
        /\ dest' = dest /\ UNCHANGED <<inTx, files>>
    BY <1>4 DEF SrvHashError, SrvGetHash, SrvDontNeed, SrvEnum, SrvSyncError, Has, disk
  <2>2. \E m : Reply(k, m, "idle")
    BY <1>4 DEF SrvHashError, SrvGetHash, SrvDontNeed, SrvEnum, SrvSyncError
  <2> QED
    BY <1>1, <2>1, <2>2, PlainReply
<1>5. CASE SrvDelete(k)
  <2>1. /\ spc[k] = "idle" /\ c2s[k] # <<>> /\ Input(k).kind = "delete" /\ temp' = temp
        /\ dest' = [dest EXCEPT ![Input(k).file] = NoFile] /\ UNCHANGED <<inTx, files>>
    BY <1>5 DEF SrvDelete, Has
  <2>2. Input(k).file \in Files
    BY <2>1, InputType
  <2>3. Installing
    <3> SUFFICES ASSUME ~Installing PROVE FALSE
      OBVIOUS
    <3>1. c2s[k] \in Seq(Without({"commit", "delete"}))
      BY DEF StagedInv, Unasked, QuietAt
    <3>2. Head(c2s[k]) \in Without({"commit", "delete"})
      BY <2>1, <3>1, Queue
    <3> QED
      BY <2>1, <3>2 DEF Without, Input
  <2>4. \E m : Reply(k, m, "idle")
    BY <1>5 DEF SrvDelete
  <2> QED
    BY <1>1, <2>1, <2>2, <2>3, <2>4, PlainReply
<1>6. CASE SrvPutFile(k)
  BY <1>6, PutFine DEF SrvPutFile
<1>7. CASE SrvPutError(k)
  <2>1. /\ spc[k] = "idle" /\ c2s[k] # <<>> /\ Input(k).kind = "put_file" /\ dest' = dest
        /\ UNCHANGED <<inTx, files>> /\ ReplyError(k)
    BY <1>7 DEF SrvPutError, Has, disk
  <2> QED
    BY <2>1, PlainError
<1>8. CASE SrvCommit(k)
  <2>1. /\ spc[k] = "idle" /\ c2s[k] # <<>> /\ Input(k).kind = "commit" /\ temp' = temp
        /\ dest' = dest /\ UNCHANGED <<inTx, files>>
    BY <1>8 DEF SrvCommit, Has, disk
  <2>2. CASE inTx[k] /\ Goto(k, "commit") /\ TakeInput(k) /\ UNCHANGED <<s2c, up>>
    <3>1. NetOnly(k) /\ StateOnly(k) /\ spc'[k] = "commit"
      BY <2>1, <2>2 DEF Goto, TakeInput, NetOnly, StateOnly, Running, IType, NetTypes, SessionTypes
    <3>2. files[k] \in Seq(Held)
      BY <1>2, <2>1 DEF ListedAt, Running
    <3>3. ListedAt(k)'
      BY <1>1, <2>1, <2>2, <3>1, <3>2 DEF ListedAt
    <3>4. Installing
      <4> SUFFICES ASSUME ~Installing PROVE FALSE
        OBVIOUS
      <4>1. c2s[k] \in Seq(Without({"commit", "delete"}))
        BY DEF StagedInv, Unasked, QuietAt
      <4>2. Head(c2s[k]) \in Without({"commit", "delete"})
        BY <2>1, <4>1, Queue
      <4> QED
        BY <2>1, <4>2 DEF Without, Input
    <3> QED
      BY <2>1, <3>1, <3>3, <3>4 DEF Fine, Running
  <2>3. CASE Reply(k, Simple("error"), "idle")
    BY <1>1, <2>1, <2>3, PlainReply
  <2> QED
    BY <1>8, <2>2, <2>3 DEF SrvCommit
<1>9. CASE SrvCopy(k) \/ SrvCopyFail(k)
  BY <1>9, CopyFine
<1>10. CASE SrvCommitted(k)
  <2>1. /\ spc[k] = "commit" /\ files[k] = <<>> /\ dest' = dest /\ files' = files
        /\ inTx' = [inTx EXCEPT ![k] = FALSE]
    BY <1>10 DEF SrvCommitted, disk
  <2>2. NetOnly(k) /\ spc'[k] \in {"idle", "ended"}
    <3>1. CASE Goto(k, "idle") /\ s2c' = Sends(s2c, k, Simple("tx_ok")) /\ UNCHANGED <<c2s, up>>
      BY <3>1 DEF Goto, Sends, NetOnly, Running, IType, NetTypes, SessionTypes
    <3>2. CASE EndSession(k) /\ UNCHANGED s2c
      BY <3>2, EndsOnly
    <3> QED
      BY <1>10, <3>1, <3>2 DEF SrvCommitted
  <2>3. ~inTx'[k] /\ StateOnly(k)
    BY <2>1 DEF StateOnly, IType, SessionTypes
  <2>4. ListedAt(k)'
    <3>1. <<>> \in Seq(Held')
      OBVIOUS
    <3> QED
      BY <2>1, <2>2, <2>3, <3>1 DEF ListedAt, Running
  <2>5. Installing
    BY <2>1 DEF StagedInv, Unasked, QuietAt
  <2> QED
    BY <2>1, <2>2, <2>3, <2>4, <2>5 DEF Fine, Running
<1>11. CASE SrvUndo(k)
  <2>1. spc[k] = "idle" /\ c2s[k] # <<>> /\ Input(k).kind = "undo" /\ dest' = dest
    BY <1>11 DEF SrvUndo, Has, disk
  <2>2. NetOnly(k) /\ spc'[k] \in {"idle", "ended"} /\ c2s'[k] \in {Tail(c2s[k]), <<>>}
    BY <1>11, <2>1, ReplyOnly DEF SrvUndo
  <2>3. ~inTx'[k] /\ StateOnly(k) /\ files'[k] = <<>>
    BY <1>2, <1>11, <2>1 DEF SrvUndo, StateOnly, IType, SessionTypes, ListedAt
  <2>4. ListedAt(k)'
    <3>1. <<>> \in Seq(Held')
      OBVIOUS
    <3> QED
      BY <2>2, <2>3, <3>1 DEF ListedAt, Running
  <2>5. QuietHere(k)
    BY <2>1, <2>2 DEF QuietHere
  <2> QED
    BY <2>1, <2>2, <2>3, <2>4, <2>5 DEF Fine, Running
<1>12. CASE SrvGiveUp(k)
  <2>1. /\ spc[k] = "idle" /\ spc' = [spc EXCEPT ![k] = "ended"]
        /\ dest' = dest /\ UNCHANGED <<inTx, files, net>>
    BY <1>12 DEF SrvGiveUp, Goto, disk
  <2>2. NetOnly(k) /\ spc'[k] = "ended" /\ StateOnly(k)
    BY <2>1 DEF NetOnly, StateOnly, net, IType, SessionTypes
  <2>3. ListedAt(k)' /\ QuietHere(k)
    BY <2>1, <2>2 DEF ListedAt, Running, QuietHere, net
  <2> QED
    BY <2>1, <2>2, <2>3 DEF Fine, Running
<1> QED
  BY <1>3, <1>4, <1>5, <1>6, <1>7, <1>8, <1>9, <1>10, <1>11, <1>12 DEF SessionSteps, Session

-----------------------------------------------------------------------------
(* The invariant behind the refinement, and the refinement.                *)

\* Losing what the channels hold, and ending sessions, spoils nothing.
LEMMA LostStaged ==
  ASSUME IType, IType', StagedInv, UNCHANGED <<job, client, temp, inTx, files>>,
         \A k \in Attempts :
           /\ spc'[k] = spc[k] \/ (spc'[k] = "ended" /\ spc[k] # "none")
           /\ c2s'[k] \in {c2s[k], <<>>} /\ s2c'[k] \in {s2c[k], <<>>}
  PROVE  StagedInv'
<1>0. UNCHANGED <<cpc, try, asked, commits>> /\ \A S : <<>> \in Seq(S)
  BY DEF client
<1>1. Offered' = Offered /\ Held' = Held /\ Installing' = Installing
  BY <1>0 DEF Offered, Held, Known, Temp, Installing
<1>2. AllOffered'
  <2>1. \A k \in Attempts : c2s'[k] \in Seq(Offered)
    BY <1>0 DEF StagedInv, AllOffered
  <2>2. c2s' \in [Attempts -> Seq(Offered)]
    BY <2>1 DEF IType, NetTypes
  <2> QED
    BY <1>1, <2>2 DEF AllOffered
<1>3. Fresh' /\ OneSession'
  BY <1>0 DEF StagedInv, Fresh, OneSession, Running
<1>4. Listed'
  <2> SUFFICES ASSUME NEW k \in Attempts PROVE ListedAt(k)'
    BY DEF Listed
  <2>1. CASE spc'[k] = spc[k]
    BY <1>1, <2>1, ListedKept DEF StagedInv, Listed
  <2>2. CASE spc'[k] = "ended"
    BY <2>2 DEF ListedAt, Running
  <2> QED
    BY <2>1, <2>2
<1>5. Unasked'
  <2> SUFFICES ASSUME ~Installing PROVE ClientQuiet' /\ \A k \in Attempts : QuietAt(k)'
    BY <1>1 DEF Unasked
  <2>1. ClientQuiet /\ \A k \in Attempts : QuietAt(k)
    BY DEF StagedInv, Unasked
  <2>2. \A k \in Attempts : QuietAt(k)'
    <3>1. UndoLast(<<>>)
      BY UndoQueue, Queue, <1>0
    <3> QED
      BY <1>0, <2>1, <3>1 DEF QuietAt
  <2>3. ClientQuiet'
    BY <1>0, <2>1 DEF ClientQuiet, IType, ClientTypes
  <2> QED
    BY <2>2, <2>3
<1> QED
  BY <1>2, <1>3, <1>4, <1>5 DEF StagedInv

LEMMA StagedInvStep ==
  ASSUME IType, IType', StagedInv, [Next]_vars, ~Overlap
  PROVE  /\ StagedInv' /\ job' = job
         /\ \A g \in Files : asked[g] \subseteq asked'[g]
         /\ commits => commits'
         /\ \/ dest' = dest /\ (commits' # commits => asked' = asked)
            \/ /\ Installing /\ UNCHANGED <<asked, commits>>
               /\ \/ \E f \in Files : \E c \in Known(f) : dest' = [dest EXCEPT ![f] = c]
                  \/ \E f \in Files : dest' = [dest EXCEPT ![f] = NoFile]
<1>1. CASE ClientSteps
  <2>1. StagedInv'
    BY <1>1, ClientStaged, ConnectStaged
  <2>2. dest' = dest
    BY <1>1, ClientKeeps DEF ClientSteps, disk
  <2> QED
    BY <1>1, <2>1, <2>2, ClientAnnounces
<1>2. ASSUME NEW k \in Attempts, SessionSteps(k)
      PROVE  /\ StagedInv' /\ job' = job /\ UNCHANGED <<asked, commits>>
             /\ \/ dest' = dest
                \/ Installing /\ \E f \in Files : \E c \in Known(f) : dest' = [dest EXCEPT ![f] = c]
                \/ Installing /\ \E f \in Files : dest' = [dest EXCEPT ![f] = NoFile]
  <2>1. job' = job
    BY <1>2 DEF SessionSteps, Session, SrvOpen, SrvGetHash, SrvDontNeed, SrvPutFile, SrvCommit,
       SrvCopy, SrvCommitted, SrvUndo, SrvEnum, SrvDelete, SrvGiveUp, SrvHashError, SrvPutError,
       SrvCopyFail, SrvSyncError
  <2>2. UNCHANGED client
    BY <1>2, SessionKeeps DEF SessionSteps
  <2>3. UNCHANGED <<asked, commits>>
    BY <2>2 DEF client
  <2> QED
    BY <1>2, <2>1, <2>2, <2>3, SessionFine, FineStays
<1>3. CASE SourceChange \/ UNCHANGED vars
  <2>1. UNCHANGED <<job, client, disk, sessions, net>>
    BY <1>3 DEF SourceChange, vars
  <2>2. StagedInv'
    BY <2>1, LostStaged DEF disk, sessions, net
  <2> QED
    BY <2>1, <2>2 DEF client, disk
<1>4. CASE Crash
  <2>1. /\ UNCHANGED <<job, client, disk, inTx, files>>
        /\ \A k \in Attempts :
             /\ spc'[k] = spc[k] \/ (spc'[k] = "ended" /\ spc[k] # "none")
             /\ c2s'[k] = <<>> /\ s2c'[k] = <<>>
    BY <1>4 DEF Crash
  <2>2. StagedInv'
    BY <2>1, LostStaged DEF disk
  <2> QED
    BY <2>1, <2>2 DEF client, disk
<1>5. ASSUME NEW k \in Attempts, Break(k)
      PROVE  StagedInv' /\ UNCHANGED <<job, asked, commits, dest>>
  <2>1. /\ UNCHANGED <<job, client, disk, sessions>>
        /\ \A j \in Attempts : c2s'[j] \in {c2s[j], <<>>} /\ s2c'[j] \in {s2c[j], <<>>}
    BY <1>5 DEF Break, IType, NetTypes
  <2>2. StagedInv'
    BY <2>1, LostStaged DEF disk, sessions
  <2> QED
    BY <2>1, <2>2 DEF client, disk
<1>6. \/ ClientSteps \/ \E k \in Attempts : SessionSteps(k)
      \/ SourceChange \/ UNCHANGED vars \/ Crash \/ \E k \in Attempts : Break(k)
  BY DEF Next, Environment, Finished, ClientSteps, SessionSteps
<1> QED
  BY <1>1, <1>2, <1>3, <1>4, <1>5, <1>6

LEMMA StagedInit ==
  ASSUME Init
  PROVE  StagedInv /\ Staged!Init
<1>0. IType
  BY ITypeInit
<1>1. AllOffered
  BY DEF Init, AllOffered
<1>2. Fresh /\ OneSession
  BY DEF Init, Fresh, OneSession, Running
<1>3. Listed
  BY DEF Init, Listed, ListedAt, Running
<1>4. Unasked
  <2>1. ClientQuiet
    BY DEF Init, ClientQuiet, Working
  <2>2. UndoLast(<<>>)
    BY DEF UndoLast
  <2>3. \A k \in Attempts : QuietAt(k)
    BY <2>2 DEF Init, QuietAt
  <2> QED
    BY <2>1, <2>3 DEF Unasked
<1>5. [f \in Files |-> UNION {asked[g] : g \in {h \in Files : Temp(h) = Temp(f)}}]
        = [f \in Files |-> {}]
  <2>1. \A f \in Files : UNION {asked[g] : g \in {h \in Files : Temp(h) = Temp(f)}} = {}
    BY DEF Init
  <2> QED
    BY <2>1
<1>6. (~job.transaction \/ commits) \in BOOLEAN
  OBVIOUS
<1> QED
  BY <1>1, <1>2, <1>3, <1>4, <1>5, <1>6 DEF Init, Staged!Init, StagedInv

LEMMA StagedStep ==
  ASSUME IType, IType', StagedInv, [Next]_vars, ~Overlap
  PROVE  StagedInv' /\ [Staged!Next]_Staged!vars
<1> DEFINE known == [f \in Files |-> UNION {asked[g] : g \in {h \in Files : Temp(h) = Temp(f)}}]
<1>0. /\ \A f \in Files : known[f] = Known(f)
      /\ \A f \in Files : known'[f] = Known(f)'
      /\ known' \in [Files -> SUBSET Contents]
  <2>1. \A f \in Files : known[f] = Known(f) /\ known'[f] = Known(f)'
    BY DEF Known
  <2>2. \A f \in Files : Known(f)' \subseteq Contents
    BY DEF Known, IType, HistoryTypes
  <2> QED
    BY <2>1, <2>2
<1>1. StagedInv' /\ job' = job /\ (commits => commits')
  BY StagedInvStep
<1>2. \A f \in Files : known[f] \subseteq known'[f]
  <2>1. \A g \in Files : asked[g] \subseteq asked'[g] /\ Temp(g)' = Temp(g)
    BY <1>1, StagedInvStep DEF Temp
  <2> QED
    BY <2>1
<1>3. CASE dest' = dest /\ commits' = commits
  <2>1. Installing' = Installing
    BY <1>1, <1>3 DEF Installing
  <2>2. Staged!Announce
    BY <1>0, <1>2, <1>3, <2>1 DEF Staged!Announce, Installing
  <2> QED
    BY <1>1, <2>2 DEF Staged!Next
<1>4. CASE dest' = dest /\ commits' # commits
  <2>1. asked' = asked
    BY <1>4, StagedInvStep
  <2>2. commits \in BOOLEAN /\ commits' \in BOOLEAN
    BY DEF IType, HistoryTypes
  <2>3. Installing'
    BY <1>1, <1>4, <2>2 DEF Installing
  <2>4. known' = known
    BY <1>1, <2>1 DEF Temp
  <2>5. Staged!Open
    BY <1>4, <2>3, <2>4 DEF Staged!Open, Installing
  <2> QED
    BY <1>1, <2>5 DEF Staged!Next
<1>5. CASE dest' # dest
  <2>1. Installing /\ UNCHANGED <<asked, commits>>
    BY <1>5, StagedInvStep
  <2>2. known' = known /\ Installing' = Installing
    BY <1>1, <2>1 DEF Temp, Installing
  <2>3. CASE \E f \in Files : \E c \in Known(f) : dest' = [dest EXCEPT ![f] = c]
    <3>1. PICK f \in Files : \E c \in Known(f) : dest' = [dest EXCEPT ![f] = c]
      BY <2>3
    <3>2. Staged!Install(f)
      BY <1>0, <2>1, <2>2, <3>1 DEF Staged!Install, Installing
    <3> QED
      BY <1>1, <3>2 DEF Staged!Next
  <2>4. CASE \E f \in Files : dest' = [dest EXCEPT ![f] = NoFile]
    <3>1. PICK f \in Files : dest' = [dest EXCEPT ![f] = NoFile]
      BY <2>4
    <3>2. dest' = [g \in Files |-> IF g \in {f} THEN NoFile ELSE dest[g]]
      BY <3>1 DEF IType, DiskTypes
    <3>3. Staged!Remove({f})
      BY <2>1, <2>2, <3>2 DEF Staged!Remove, Installing
    <3> QED
      BY <1>1, <3>3 DEF Staged!Next
  <2> QED
    BY <1>5, <2>3, <2>4, StagedInvStep
<1> QED
  BY <1>3, <1>4, <1>5

\* When every attempt starts after the older sessions have ended, a write job
\* replaces and removes the server's files only as StagedFiles allows: in a
\* transaction none before the client has requested a commit, and only by a
\* content announced for it or for a file with the same temporary file
\* (do_put_file and command_transaction, 1004-1058).
THEOREM WriteImplementsStagedFiles == ASSUME ~Overlap PROVE Spec => InstallsStaged
<1>1. Init => IType /\ StagedInv /\ Staged!Init
  BY ITypeInit, StagedInit
<1>2. IType /\ [Next]_vars => IType'
  BY ITypeStep
<1>3. IType /\ IType' /\ StagedInv /\ [Next]_vars => StagedInv' /\ [Staged!Next]_Staged!vars
  BY StagedStep
<1> QED
  BY <1>1, <1>2, <1>3, PTL DEF Spec, InstallsStaged, Staged!Spec

-----------------------------------------------------------------------------
(* A synchronisation deletes only what is not among the sources.           *)

\* A source that is not there, unless a user has touched it.
Gone(f) == src[f] = NoFile \/ f \in touched
\* The files the client has deleted are gone, from the list it compares to the
\* command on its way.
GoneCommands ==
  {m \in LegalCommands : m.kind = "delete" => Gone(m.file) /\ job.post = "sync"}
Syncing == {"sync", "wait_list", "drop", "wait_drop"}
SyncInv ==
  /\ cpc \in Syncing => job.post = "sync"
  /\ cpc \in {"drop", "wait_drop"} => \A f \in todo : Gone(f)
  /\ cpc = "wait_list" => \A f \in Files \ todo : Gone(f)
  /\ c2s \in [Attempts -> Seq(GoneCommands)]

\* What is gone stays so.
LEMMA GoneStays ==
  ASSUME IType, [Next]_vars
  PROVE  \A f \in Files : Gone(f) => Gone(f)'
<1>1. CASE SourceChange
  BY <1>1 DEF SourceChange, Gone, IType, SourceTypes
<1>2. CASE ~SourceChange
  <2>1. touched \subseteq touched'
    BY <1>2 DEF Next, Client, Connect, Begin, Opened, Search, SearchError, GetHash, NoHash,
       CompareHash, HashError, PutFile, PutDone, DontNeed, Commit, Committed, Undo, Failed,
       NoAnswer, Sync, SyncCompare, SyncDelete, SyncDeleted, Clean, CleanList, CleanFile,
       PostProcess, Environment, ConnectFail, Crash, Break, Session, SrvOpen, SrvGetHash,
       SrvDontNeed, SrvPutFile,
       SrvCommit, SrvCopy, SrvCommitted, SrvUndo, SrvEnum, SrvDelete, SrvGiveUp, SrvHashError,
       SrvPutError, SrvCopyFail, SrvSyncError, Finished, vars, source
  <2>2. \A f \in Files : src'[f] \in {src[f], NoFile}
    <3>1. CASE PostProcess
      BY <3>1 DEF PostProcess, IType, SourceTypes
    <3>2. CASE Committed \/ CleanFile
      BY <3>2 DEF Committed, CleanFile, IType, SourceTypes
    <3>3. CASE ~PostProcess /\ ~Committed /\ ~CleanFile
      BY <1>2, <3>3 DEF Next, Client, Connect, Begin, Opened, Search, SearchError, GetHash, NoHash,
         CompareHash, HashError, PutFile, PutDone, DontNeed, Commit, Undo, Failed,
         NoAnswer, Sync, SyncCompare, SyncDelete, SyncDeleted, Clean, CleanList, Environment,
         ConnectFail, Crash, Break, Session, SrvOpen, SrvGetHash, SrvDontNeed, SrvPutFile,
         SrvCommit, SrvCopy, SrvCommitted, SrvUndo, SrvEnum, SrvDelete, SrvGiveUp, SrvHashError,
         SrvPutError, SrvCopyFail, SrvSyncError, Finished, vars, source
    <3> QED
      BY <3>1, <3>2, <3>3
  <2> QED
    BY <2>1, <2>2 DEF Gone
<1> QED
  BY <1>1, <1>2

LEMMA JobStays ==
  ASSUME [Next]_vars
  PROVE  job' = job
BY DEF Next, Client, Connect, Begin, Opened, Search, SearchError, GetHash, NoHash,
   CompareHash, HashError, PutFile, PutDone, DontNeed, Commit, Committed, Undo, Failed,
   NoAnswer, Sync, SyncCompare, SyncDelete, SyncDeleted, Clean, CleanList, CleanFile,
   Environment, SourceChange,
   ConnectFail, Crash, Break, Session, SrvOpen, SrvGetHash, SrvDontNeed, SrvPutFile,
   SrvCommit, SrvCopy, SrvCommitted, SrvUndo, SrvEnum, SrvDelete, SrvGiveUp, SrvHashError,
   SrvPutError, SrvCopyFail, SrvSyncError, Finished, vars

\* A session takes its commands in order, or loses them.
LEMMA SessionReads ==
  ASSUME IType, NEW k \in Attempts, SessionSteps(k)
  PROVE  \A j \in Attempts : \/ c2s'[j] \in {c2s[j], <<>>}
                             \/ c2s[j] # <<>> /\ c2s'[j] = Tail(c2s[j])
<1> USE DEF Running
<1>0. NetOnly(k) => \A j \in Attempts : \/ c2s'[j] \in {c2s[j], <<>>}
                                        \/ c2s[j] # <<>> /\ c2s'[j] = Tail(c2s[j])
  BY DEF NetOnly
<1>1. CASE \/ SrvOpen(k) \/ SrvHashError(k) \/ SrvGetHash(k) \/ SrvDontNeed(k) \/ SrvUndo(k)
           \/ SrvEnum(k) \/ SrvDelete(k) \/ SrvSyncError(k)
  <2>1. c2s[k] # <<>> /\ \E m : Reply(k, m, "idle")
    BY <1>1 DEF SrvOpen, SrvHashError, SrvGetHash, SrvDontNeed, SrvUndo, SrvEnum, SrvDelete,
       SrvSyncError, Has
  <2> QED
    BY <1>0, <2>1, ReplyOnly
<1>2. CASE SrvPutFile(k) \/ SrvPutError(k)
  <2>1. c2s[k] # <<>> /\ (ReplyError(k) \/ \E m, s : s \in {"idle", "copy"} /\ Reply(k, m, s))
    BY <1>2 DEF SrvPutFile, SrvPutError, Has
  <2> QED
    BY <1>0, <2>1, ReplyOnly, ReplyErrorOnly
<1>3. CASE SrvCommit(k)
  <2>1. c2s[k] # <<>> /\ (TakeInput(k) \/ Reply(k, Simple("error"), "idle"))
    BY <1>3 DEF SrvCommit, Has
  <2>2. TakeInput(k) => \A j \in Attempts : c2s'[j] = IF j = k THEN Tail(c2s[j]) ELSE c2s[j]
    BY DEF TakeInput, IType, NetTypes
  <2> QED
    BY <1>0, <2>1, <2>2, ReplyOnly
<1>4. CASE SrvCommitted(k)
  <2>1. UNCHANGED c2s \/ (EndSession(k) /\ UNCHANGED s2c)
    BY <1>4 DEF SrvCommitted
  <2> QED
    BY <1>0, <2>1, EndsOnly
<1>5. CASE SrvCopy(k) \/ SrvCopyFail(k) \/ SrvGiveUp(k)
  BY <1>5 DEF SrvCopy, SrvCopyFail, SrvGiveUp, net
<1> QED
  BY <1>1, <1>2, <1>3, <1>4, <1>5 DEF SessionSteps, Session

\* Where the client is in its synchronisation, and what its list is then.
LEMMA ClientSyncs ==
  ASSUME IType, ClientSteps
  PROVE  /\ cpc' \in Syncing => cpc \in Syncing \/ job.post = "sync"
         /\ cpc' = "wait_list" /\ job.wild => Present \ todo' \subseteq touched'
         /\ cpc' \in {"drop", "wait_drop"} =>
              \/ cpc \in {"drop", "wait_drop"} /\ todo' \subseteq todo
              \/ cpc = "wait_list" /\ todo' \subseteq Files \ todo
<1> USE DEF Syncing
<1>1. CASE SyncCompare
  <2>1. Answer.files \subseteq Files
    BY <1>1, AnswerType DEF SyncCompare, Answered, Answers
  <2> QED
    BY <1>1, <2>1 DEF SyncCompare, GoTo
<1>2. CASE SyncDelete \/ SyncDeleted
  <2>1. todo' \subseteq todo /\ cpc \in {"drop", "wait_drop"}
    BY <1>2 DEF SyncDelete, SyncDeleted, position
  <2>2. cpc' # "wait_list"
    BY <1>2 DEF SyncDelete, SyncDeleted, RequestElse, Hangup, GoTo
  <2> QED
    BY <2>1, <2>2
<1>3. CASE Sync(FALSE) \/ Sync(TRUE)
  <2>1. /\ cpc = "sync"
        /\ cpc' \in {"wait_list", "done", "connect"}
        /\ cpc' = "wait_list" /\ job.wild => Present \ todo' \subseteq touched'
    BY <1>3 DEF Sync, Request, RequestElse, Hangup
  <2> QED
    BY <2>1
<1>4. CASE Begin \/ GetHash \/ Undo \/ Commit
  <2>1. cpc' \notin {"wait_list", "drop", "wait_drop"} /\ (cpc' = "sync" => job.post = "sync")
    BY <1>4 DEF Begin, GetHash, Undo, Commit, Request, RequestElse, Hangup, AfterCommit, GoTo
  <2> QED
    BY <2>1
<1>5. FileError => cpc' \in {"undo", "done", "connect", "file"}
  BY FileErrorType
<1>6. CASE NoHash(FALSE) \/ NoHash(TRUE) \/ PutFile \/ NoAnswer(FALSE) \/ NoAnswer(TRUE)
  <2>1. cpc' \notin Syncing
    BY <1>5, <1>6 DEF NoHash, PutFile, Request, RequestElse, NoAnswer, Abandon, Hangup, GoUndo
  <2> QED
    BY <2>1
<1>7. CASE \/ Connect \/ Opened \/ Search(FALSE) \/ Search(TRUE) \/ SearchError(FALSE)
           \/ SearchError(TRUE) \/ CompareHash
           \/ HashError \/ PutDone \/ DontNeed \/ Committed \/ Failed \/ ConnectFail
           \/ Clean \/ CleanList(FALSE) \/ CleanList(TRUE) \/ CleanFile
  BY <1>7 DEF Connect, Opened, Search, SearchError, CompareHash, HashError, PutDone, DontNeed,
     Committed, Failed, Clean, CleanList, CleanFile, ConnectFail, Hangup, GoTo, GoUndo, NextFile,
     PostProcess, AfterCommit
<1> QED
  BY <1>1, <1>2, <1>3, <1>4, <1>6, <1>7 DEF ClientSteps, Client

LEMMA SyncStep ==
  ASSUME IType, IType', SyncInv, [Next]_vars, \A j \in Jobs : j.post = "sync" => j.wild
  PROVE  SyncInv'
<1> SUFFICES ASSUME job' = job, \A f \in Files : Gone(f) => Gone(f)' PROVE SyncInv'
  BY GoneStays, JobStays
<1>0. /\ GoneCommands \subseteq GoneCommands' /\ \A s \in Seq(GoneCommands) : s \in Seq(GoneCommands')
      /\ \A k \in Attempts : c2s[k] \in Seq(GoneCommands')
  <2>1. GoneCommands \subseteq GoneCommands'
    BY DEF GoneCommands, LegalCommands
  <2>2. \A s \in Seq(GoneCommands) : s \in Seq(GoneCommands')
    BY <2>1
  <2> QED
    BY <2>1, <2>2 DEF SyncInv
<1>1. CASE ClientSteps
  <2>0. cpc' \in Syncing => job.post = "sync"
    BY <1>1, ClientSyncs DEF SyncInv
  <2>1. cpc' \in {"drop", "wait_drop"} => \A f \in todo' : Gone(f)'
    <3>1. todo \subseteq Files
      BY DEF IType, PositionTypes
    <3> QED
      BY <1>1, <3>1, ClientSyncs DEF SyncInv
  <2>2. cpc' = "wait_list" => \A f \in Files \ todo' : Gone(f)'
    <3>1. cpc' = "wait_list" => job.wild
      BY <2>0 DEF IType, Syncing
    <3>2. \A f \in Files \ Present : Gone(f)'
      BY DEF Present, Gone
    <3>3. \A f \in Files : f \in touched' => Gone(f)'
      BY DEF Gone
    <3> QED
      BY <1>1, <3>1, <3>2, <3>3, ClientSyncs
  <2>3. c2s' \in [Attempts -> Seq(GoneCommands')]
    <3>1. CASE c2s' = c2s
      BY <1>0, <3>1 DEF IType, NetTypes
    <3>2. CASE \E m \in Offered' : /\ c2s' = Sends(c2s, try, m)
                                   /\ m.kind = "delete" => cpc = "drop" /\ m.file \in todo
      <4>1. PICK m \in Offered' : /\ c2s' = Sends(c2s, try, m)
                                  /\ m.kind = "delete" => cpc = "drop" /\ m.file \in todo
        BY <3>2
      <4>2. m \in GoneCommands'
        BY <4>1 DEF Offered, GoneCommands, LegalCommands, SyncInv, Syncing
      <4>3. c2s \in [Attempts -> Seq(GoneCommands')] /\ try \in Attempts
        BY <1>0 DEF IType, ClientTypes, NetTypes
      <4> QED
        BY <4>1, <4>2, <4>3, ChannelType
    <3> QED
      BY <1>1, <3>1, <3>2, ClientOffers
  <2> QED
    BY <2>0, <2>1, <2>2, <2>3 DEF SyncInv
<1>2. ASSUME UNCHANGED <<cpc, todo>>,
             \A k \in Attempts : \/ c2s'[k] \in {c2s[k], <<>>}
                                 \/ c2s[k] # <<>> /\ c2s'[k] = Tail(c2s[k])
      PROVE  SyncInv'
  <2>1. \A k \in Attempts : c2s'[k] \in Seq(GoneCommands')
    BY <1>0, <1>2, Queue
  <2>2. c2s' \in [Attempts -> Seq(GoneCommands')]
    BY <2>1 DEF IType, NetTypes
  <2>3. todo \subseteq Files
    BY DEF IType, PositionTypes
  <2> QED
    BY <1>2, <2>2, <2>3 DEF SyncInv
<1>3. ASSUME NEW k \in Attempts, SessionSteps(k) PROVE SyncInv'
  <2>1. UNCHANGED <<cpc, todo>>
    BY <1>3, SessionKeeps DEF SessionSteps, client, position
  <2> QED
    BY <1>2, <1>3, <2>1, SessionReads
<1>4. CASE SourceChange \/ UNCHANGED vars \/ Crash \/ \E k \in Attempts : Break(k)
  <2>1. UNCHANGED <<cpc, todo>> /\ \A k \in Attempts : c2s'[k] \in {c2s[k], <<>>}
    BY <1>4 DEF SourceChange, vars, Crash, Break, client, position, net, IType, NetTypes
  <2> QED
    BY <1>2, <2>1
<1> QED
  BY <1>1, <1>3, <1>4 DEF Next, Environment, Finished, ClientSteps, SessionSteps

\* A destination goes when the deletion of a synchronisation is carried out,
\* and in no other step.
LEMMA SyncDestination ==
  ASSUME IType, SyncInv, [Next]_vars
  PROVE  \A f \in Files \ touched' : dest[f] # NoFile /\ dest'[f] = NoFile => src[f] = NoFile
<1>1. CASE ClientSteps
  BY <1>1, ClientKeeps DEF ClientSteps, disk
<1>2. CASE SourceChange \/ UNCHANGED vars \/ Crash \/ \E k \in Attempts : Break(k)
  BY <1>2 DEF SourceChange, vars, Crash, Break, disk
<1>3. ASSUME NEW k \in Attempts, SrvDelete(k)
      PROVE  \A f \in Files \ touched' : dest[f] # NoFile /\ dest'[f] = NoFile => src[f] = NoFile
  <2>1. c2s[k] # <<>> /\ Input(k).kind = "delete" /\ touched' = touched
    BY <1>3 DEF SrvDelete, Has, source
  <2>2. Head(c2s[k]) \in GoneCommands
    BY <2>1, Queue DEF SyncInv
  <2>3. Gone(Input(k).file)
    BY <2>1, <2>2 DEF GoneCommands, Input
  <2> QED
    BY <1>3, <2>1, <2>3 DEF SrvDelete, Gone, IType, DiskTypes
<1>4. ASSUME NEW k \in Attempts, SessionSteps(k), ~SrvDelete(k)
      PROVE  \A f \in Files : dest'[f] = NoFile => dest[f] = NoFile
  <2>1. CASE SrvCopy(k)
    <3>1. Head(files[k]) \in Files
      BY <2>1 DEF SrvCopy, IType, SessionTypes
    <3> QED
      BY <2>1, <3>1 DEF SrvCopy, IType, DiskTypes
  <2>2. CASE ~SrvCopy(k)
    <3>1. dest' = dest
      BY <1>4, <2>2 DEF SessionSteps, Session, SrvOpen, SrvGetHash, SrvDontNeed, SrvPutFile,
         SrvCommit, SrvCommitted, SrvUndo, SrvEnum, SrvGiveUp, SrvHashError, SrvPutError,
         SrvCopyFail, SrvSyncError, disk
    <3> QED
      BY <3>1
  <2> QED
    BY <2>1, <2>2
<1> QED
  BY <1>1, <1>2, <1>3, <1>4 DEF Next, Environment, Finished, ClientSteps, SessionSteps

\* When every job that synchronises has a wildcard, a synchronisation deletes
\* only what is not among the sources, unless a user has touched it meanwhile,
\* in however many attempts and however late the session reads the command
\* (1803-1871).
THEOREM WildSyncDeletesExtra ==
  ASSUME \A j \in Jobs : j.post = "sync" => j.wild PROVE Spec => SyncDeletesExtra
<1>1. Init => IType /\ SyncInv
  <2>1. Init => SyncInv
    BY DEF Init, SyncInv, Syncing
  <2> QED
    BY <2>1, ITypeInit
<1>2. IType /\ [Next]_vars => IType'
  BY ITypeStep
<1>3. IType /\ IType' /\ SyncInv /\ [Next]_vars => SyncInv'
  BY SyncStep
<1>4. IType /\ SyncInv /\ [Next]_vars =>
        \A f \in Files \ touched' : dest[f] # NoFile /\ dest'[f] = NoFile => src[f] = NoFile
  BY SyncDestination
<1> QED
  BY <1>1, <1>2, <1>3, <1>4, PTL DEF Spec, SyncDeletesExtra

-----------------------------------------------------------------------------
(* A transaction that ends well has brought every file.                    *)

\* What is claimed only of jobs like this.
Sure  == job.transaction /\ job.overwrite /\ OwnTemps /\ ~copyFailed
After == {"sync", "wait_list", "drop", "wait_drop", "clean", "listing", "wipe"}

\* What the client knows: what it takes for sent is the source, unless a user
\* has touched it; every file it has listed is still to do or sent.
Before  == {"begin", "wait_open", "search"}
Walking == {"file", "wait_hash", "put", "wait_put", "wait_commit"}
SourceInv ==
  /\ \A f \in Files \ touched : sent[f] # NoFile =>
       src[f] \in {sent[f], NoFile} /\ (job.post = "sync" => src[f] # NoFile)
  /\ cpc \in {"wait_hash", "put", "wait_put"} /\ cur \notin touched => src[cur] = file_hash
  /\ cpc \in Walking \cup After => \A f \in Files \ touched : src[f] # NoFile => f \in listed
  /\ (\A f \in post : sent[f] # NoFile) /\ (post # {} => job.post = "delete")
  /\ cpc \in Before => listed = {} /\ \A f \in Files : sent[f] = NoFile
  /\ cpc \in Walking => /\ \A f \in listed : f \in todo \/ sent[f] # NoFile
                        /\ \A f \in todo : sent[f] = NoFile
  /\ cpc = "wait_commit" => todo = {}
  /\ cpc \in {"listing", "wipe"} => job.post = "delete"
  /\ cpc \in {"undo", "wait_undo"} /\ result => listed = {}

\* The channels of the attempt hold nothing; one command of C or one answer.
Empty   == c2s[try] = <<>> /\ s2c[try] = <<>>
Exch(C) ==
  \/ s2c[try] = <<>> /\ (c2s[try] = <<>> \/ \E m \in C : c2s[try] = <<m>>)
  \/ c2s[try] = <<>> /\ \E r \in Answers : s2c[try] = <<r>>

\* The files of the session's list, none twice.
OnList == {files[try][i] : i \in 1..Len(files[try])}
NoTwin(s) == \A i, j \in 1..Len(s) : s[i] = s[j] => i = j

\* A file that counts as sent is in the temporary file when it is on the list,
\* and in its destination otherwise.
Sound ==
  /\ NoTwin(files[try])
  /\ \A f \in Files : sent[f] # NoFile =>
       (IF f \in OnList THEN temp[Temp(f)] ELSE dest[f]) = sent[f]

\* The session of the attempt has no list and is to get none.
Calm ==
  /\ spc[try] \notin {"copy", "commit"} /\ files[try] = <<>>
  /\ c2s[try] \in Seq(Without({"put_file", "commit"}))

\* Only the session of this attempt runs, unless the attempt is given up.
GivenUp == cpc = "connect" \/ (cpc = "done" /\ ~result)
Alone   == ~GivenUp => \A k \in Attempts : spc[k] \in Running => k = try

WaitHash ==
  /\ Exch({m \in LegalCommands : m.kind = "get_hash" /\ m.file = cur})
  /\ s2c[try] # <<>> /\ Answer.kind = "hash" => Answer.hash = dest[cur]
WaitPut ==
  /\ Exch({m \in LegalCommands : m.kind = "put_file" /\ m.file = cur /\ m.hash = file_hash})
  /\ c2s[try] # <<>> => cur \notin OnList
  /\ s2c[try] # <<>> => /\ Answer.kind # "dont_need"
                        /\ Answer.kind = "put_ok" => cur \in OnList /\ temp[Temp(cur)] = file_hash
WaitCommit ==
  /\ Exch({m \in LegalCommands : m.kind = "commit"}) /\ spc[try] # "copy"
  /\ s2c[try] # <<>> => files[try] = <<>>
  /\ spc[try] = "commit" => Empty

ServerInv ==
  /\ cpc \in {"begin", "search", "file", "put"} => Empty
  /\ cpc = "wait_open" => /\ Exch({m \in LegalCommands : m.kind = "open"})
                          /\ s2c[try] # <<>> => inTx[try]
  /\ cpc = "wait_hash" => WaitHash
  /\ cpc = "wait_put" => WaitPut
  /\ cpc = "wait_commit" => WaitCommit
  /\ cpc \in Before => files[try] = <<>>
  /\ cpc \in Before \cup Working => spc[try] \notin {"copy", "commit"}
  /\ cpc \in Working => inTx[try]
  /\ cpc \in Working \cup {"wait_commit"} => Sound
  /\ cpc \in Walking => todo \cap OnList \subseteq (IF cpc = "wait_put" THEN {cur} ELSE {})

Delivered ==
  cpc \in After \/ (cpc = "done" /\ result) =>
    \/ listed = {}
    \/ /\ Calm
       /\ \A f \in listed : /\ sent[f] # NoFile
                            /\ dest[f] = sent[f] \/ (job.post = "sync" /\ f \in touched)

DeliveryInv == Sure => SourceInv /\ Alone /\ ServerInv /\ Delivered

-----------------------------------------------------------------------------
(* The client's knowledge of the sources.                                  *)

\* A client that has given the attempt up, or is about to.
Lost == cpc \in {"connect", "done", "undo", "wait_undo"} /\ (cpc # "connect" => ~result)

LEMMA FileErrorLost ==
  ASSUME IType, job.transaction, FileError \/ Abandon
  PROVE  Lost' /\ UNCHANGED s2c /\ cpc' = "undo" /\ try' = try
BY DEF FileError, Abandon, GoUndo, Lost

LEMMA RequestLost ==
  ASSUME IType, NEW m, NEW s, Request(m, s)
  PROVE  \/ Lost'
         \/ /\ cpc' = s /\ UNCHANGED <<try, result, s2c>> /\ c2s' = Sends(c2s, try, m)
BY DEF Request, RequestElse, Hangup, Lost

LEMMA SourceLost ==
  ASSUME IType, SourceInv, Lost', job' = job, UNCHANGED <<source, post, sent>>
  PROVE  SourceInv'
BY DEF SourceInv, Lost, Walking, Before, After, source

\* The client goes on to the next file, which is on the server.
LEMMA SourcePassed ==
  ASSUME IType, SourceInv, cpc \in {"wait_hash", "wait_put"}, job.transaction, job' = job,
         PostProcess, UNCHANGED <<listed, file_hash>>
  PROVE  SourceInv'
<1>0. cur \in todo /\ cur \in Files /\ file_hash \in Contents /\ file_hash # NoFile
  BY CurType, ConstantTypes DEF IType, Placed
<1>1. /\ src' = src /\ touched' = touched /\ cpc' = "file" /\ todo' = todo \ {cur}
      /\ sent' = [sent EXCEPT ![cur] = file_hash] /\ UNCHANGED listed
      /\ post' = IF job.post = "delete" THEN post \cup {cur} ELSE post
  BY DEF PostProcess, NextFile, GoTo
<1>2. sent'[cur] = file_hash /\ \A f \in Files : f # cur => sent'[f] = sent[f]
  BY <1>0, <1>1 DEF IType, PositionTypes
<1>3. \A f \in Files \ touched : sent'[f] # NoFile =>
        src[f] \in {sent'[f], NoFile} /\ (job.post = "sync" => src[f] # NoFile)
  BY <1>0, <1>2 DEF SourceInv
<1>4. \A f \in Files \ touched : src[f] # NoFile => f \in listed
  BY DEF SourceInv, Walking
<1>5. (\A f \in post' : sent'[f] # NoFile) /\ (post' # {} => job.post = "delete")
  <2>1. \A f \in post : f \in Files
    BY DEF IType, PositionTypes
  <2> QED
    BY <1>0, <1>1, <1>2, <2>1 DEF SourceInv
<1>6. /\ \A f \in listed : f \in todo' \/ sent'[f] # NoFile
      /\ \A f \in todo' : sent'[f] = NoFile
  <2>1. todo \subseteq Files /\ listed \subseteq Files
    BY DEF IType, PositionTypes
  <2>2. /\ \A f \in listed : f \in todo \/ sent[f] # NoFile
        /\ \A f \in todo : sent[f] = NoFile
    BY DEF SourceInv, Walking
  <2> QED
    BY <1>0, <1>1, <1>2, <2>1, <2>2
<1> QED
  BY <1>1, <1>3, <1>4, <1>5, <1>6 DEF SourceInv, Walking, Before, After

\* After the commit what is left of the sources is never sent again.
LEMMA SourceAfter ==
  ASSUME IType, SourceInv, job' = job, touched \subseteq touched',
         UNCHANGED <<listed, post, sent>>, cpc' \in {"listing", "wipe"} => job.post = "delete",
         cpc \in After \cup {"wait_commit"}, cpc' \in After \cup {"connect", "done"},
         \A f \in Files : src'[f] = src[f] \/ (src'[f] = NoFile /\ job.post # "sync")
  PROVE  SourceInv'
<1>1. \A f \in Files \ touched' : sent[f] # NoFile =>
        src'[f] \in {sent[f], NoFile} /\ (job.post = "sync" => src'[f] # NoFile)
  BY DEF SourceInv
<1>2. \A f \in Files \ touched' : src'[f] # NoFile => f \in listed
  BY DEF SourceInv, Walking
<1>3. (\A f \in post : sent[f] # NoFile) /\ (post # {} => job.post = "delete")
  BY DEF SourceInv
<1> QED
  BY <1>1, <1>2, <1>3 DEF SourceInv, Walking, Before, After

LEMMA SourceClient ==
  ASSUME IType, ClientSteps, job.transaction, job.overwrite, SourceInv, ServerInv
  PROVE  SourceInv'
<1>0. job' = job
  BY ClientAnnounces
<1>1. CASE Connect
  BY <1>0, <1>1 DEF Connect, SourceInv, Walking, Before, After, source
<1>2. CASE \/ Begin \/ Opened \/ Undo \/ ConnectFail \/ Failed
  <2>1. UNCHANGED <<source, position>> /\ cur' = cur
    BY <1>2 DEF Begin, Opened, Undo, ConnectFail, Failed, position, cur
  <2>2. \/ cpc' \in {"connect", "done"} \/ (cpc' = "undo" /\ ~result')
        \/ cpc \in Before /\ cpc' \in Before
        \/ cpc = "undo" /\ cpc' = "wait_undo" /\ result' = result
    BY <1>2 DEF Begin, Opened, Undo, ConnectFail, Failed, Request, RequestElse,
       Hangup, GoTo, GoUndo, Before
  <2> QED
    BY <1>0, <2>1, <2>2 DEF SourceInv, Walking, Before, After, source, position
<1>3. CASE Search(FALSE) \/ Search(TRUE)
  <2>1. /\ cpc' = "file" /\ listed' = todo' /\ UNCHANGED <<src, post, sent>>
        /\ touched \subseteq touched' /\ cpc = "search"
    BY <1>3 DEF Search, GoTo
  <2>2. \A f \in Files \ touched' : src[f] # NoFile => f \in listed'
    BY <1>3 DEF Search, Present
  <2>3. \A f \in Files : sent'[f] = NoFile
    BY <2>1 DEF SourceInv, Before
  <2>4. /\ \A f \in listed' : f \in todo'
        /\ \A f \in todo' : sent'[f] = NoFile
    BY <1>3, <2>1, <2>3, FindsType DEF Search
  <2>5. (\A f \in post : sent[f] # NoFile) /\ (post # {} => job.post = "delete")
    BY DEF SourceInv
  <2> QED
    BY <1>0, <2>1, <2>2, <2>3, <2>4, <2>5 DEF SourceInv, Walking, Before, After
<1>4. CASE SearchError(FALSE) \/ SearchError(TRUE)
  BY <1>0, <1>4 DEF SearchError, GoUndo, SourceInv, Walking, Before, After, source
<1>5. CASE GetHash
  <2>1. CASE Lost'
    BY <1>0, <1>5, <2>1, SourceLost DEF GetHash
  <2>2. CASE cpc' = "wait_hash"
    BY <1>0, <1>5, <2>2 DEF GetHash, SourceInv, Walking, Before, After, source, cur
  <2> QED
    BY <1>5, <2>1, <2>2, RequestLost DEF GetHash
<1>6. CASE NoHash(FALSE) \/ NoHash(TRUE) \/ NoAnswer(FALSE) \/ NoAnswer(TRUE) \/ HashError
  <2>1. Lost'
    BY <1>6, FileErrorLost DEF NoHash, NoAnswer, HashError, GoUndo, Hangup, Lost
  <2>2. UNCHANGED <<source, post, sent>>
    BY <1>6 DEF NoHash, NoAnswer, HashError
  <2> QED
    BY <1>0, <2>1, <2>2, SourceLost
<1>7. CASE CompareHash
  <2>1. CASE PostProcess
    BY <1>0, <1>7, <2>1, SourcePassed DEF CompareHash
  <2>2. CASE GoTo("put") /\ UNCHANGED <<source, todo, sent, post>>
    BY <1>0, <1>7, <2>2 DEF CompareHash, GoTo, SourceInv, Walking, Before, After, source, cur
  <2> QED
    BY <1>7, <2>1, <2>2 DEF CompareHash
<1>8. CASE PutFile
  <2>1. CASE Lost'
    BY <1>0, <1>8, <2>1, SourceLost DEF PutFile
  <2>2. CASE cpc' = "wait_put" /\ ~Lost'
    <3>1. todo' = todo
      BY <1>8, <2>2, FileErrorLost DEF PutFile
    <3> QED
      BY <1>0, <1>8, <2>2, <3>1 DEF PutFile, SourceInv, Walking, Before, After, source, cur
  <2> QED
    BY <1>8, <2>1, <2>2, RequestLost, FileErrorLost DEF PutFile
<1>9. CASE PutDone
  BY <1>0, <1>9, SourcePassed DEF PutDone
<1>10. CASE DontNeed
  BY <1>10 DEF DontNeed, Answered, ServerInv, WaitPut
<1>11. CASE Commit
  <2>1. UNCHANGED <<source, position>> /\ cpc = "file" /\ todo = {}
    BY <1>11 DEF Commit
  <2>2. Lost' \/ cpc' = "wait_commit"
    BY <1>11, RequestLost DEF Commit
  <2>3. CASE Lost'
    BY <1>0, <2>1, <2>3, SourceLost DEF position
  <2>4. CASE cpc' = "wait_commit"
    BY <1>0, <2>1, <2>4 DEF SourceInv, Walking, Before, After, source, position
  <2> QED
    BY <2>2, <2>3, <2>4
<1>12. CASE Committed
  <2>1. \A f \in Files : src'[f] = src[f] \/ (src'[f] = NoFile /\ job.post # "sync")
    BY <1>12 DEF Committed, SourceInv
  <2>2. /\ cpc = "wait_commit" /\ cpc' \in After \ {"listing", "wipe"}
        /\ UNCHANGED <<touched, listed, post, sent>>
    BY <1>12 DEF Committed, AfterCommit, GoTo, After, position
  <2> QED
    BY <1>0, <2>1, <2>2, SourceAfter
<1>13. CASE Sync(FALSE) \/ Sync(TRUE) \/ SyncCompare \/ SyncDelete \/ SyncDeleted
  <2>1. UNCHANGED <<src, listed, post, sent>> /\ touched \subseteq touched'
    BY <1>13 DEF Sync, SyncCompare, SyncDelete, SyncDeleted, source, position
  <2>2. cpc \in After /\ cpc' \in {"wait_list", "drop", "wait_drop", "connect", "done"}
    BY <1>13
    DEF Sync, SyncCompare, SyncDelete, SyncDeleted, After, Request, RequestElse, Hangup, GoTo
  <2>3. cpc' \in After \cup {"connect", "done"}
    BY <2>2 DEF After
  <2> QED
    BY <1>0, <2>1, <2>2, <2>3, SourceAfter
<1>14. CASE Clean \/ CleanList(FALSE) \/ CleanList(TRUE) \/ CleanFile
  <2>1. /\ UNCHANGED <<touched, listed, post, sent>>
        /\ cpc \in {"clean", "listing", "wipe"} /\ cpc' \in {"listing", "wipe", "connect", "done"}
    BY <1>14 DEF Clean, CleanList, CleanFile, GoTo, Hangup, position, source
  <2>2. cpc' \in {"listing", "wipe"} => job.post = "delete"
    BY <1>14 DEF Clean, CleanList, CleanFile, Hangup, SourceInv
  <2>3. \A f \in Files : src'[f] = src[f] \/ (src'[f] = NoFile /\ job.post # "sync")
    <3>1. CASE CleanFile
      <4>1. job.post = "delete"
        BY <3>1 DEF CleanFile, SourceInv
      <4> QED
        BY <3>1, <4>1 DEF CleanFile, IType, SourceTypes
    <3>2. CASE ~CleanFile
      BY <1>14, <3>2 DEF Clean, CleanList, source
    <3> QED
      BY <3>1, <3>2
  <2>4. cpc \in After /\ cpc' \in After \cup {"connect", "done"}
    BY <2>1 DEF After
  <2> QED
    BY <1>0, <2>1, <2>2, <2>3, <2>4, SourceAfter
<1> QED
  BY <1>1, <1>2, <1>3, <1>4, <1>5, <1>6, <1>7, <1>8, <1>9, <1>10, <1>11, <1>12, <1>13, <1>14
  DEF ClientSteps, Client

-----------------------------------------------------------------------------
(* What the client's steps do to its knowledge of the server.              *)

\* Reading the answer of an exchange leaves the channels empty; asking begins
\* one.
LEMMA ReadAnswer ==
  ASSUME IType, NEW C, Exch(C), s2c[try] # <<>>, TakeAnswer, UNCHANGED <<c2s, try>>
  PROVE  Empty' /\ c2s[try] = <<>>
<1>1. PICK r \in Answers : s2c[try] = <<r>> /\ c2s[try] = <<>>
  BY DEF Exch
<1>2. s2c'[try] = Tail(s2c[try])
  BY DEF TakeAnswer, IType, ClientTypes, NetTypes
<1> QED
  BY <1>1, <1>2 DEF Empty

LEMMA Ask ==
  ASSUME IType, Empty, NEW m, NEW s, Request(m, s)
  PROVE  \/ Lost'
         \/ /\ cpc' = s /\ UNCHANGED <<try, result>> /\ s2c'[try] = <<>>
            /\ c2s'[try] \in {<<>>, <<m>>}
<1>1. ASSUME cpc' = s, UNCHANGED <<try, result, s2c>>, c2s' = Sends(c2s, try, m)
      PROVE  c2s'[try] \in {<<>>, <<m>>} /\ s2c'[try] = <<>>
  BY <1>1 DEF Sends, Empty, IType, ClientTypes, NetTypes
<1> QED
  BY <1>1, RequestLost

LEMMA LostServer ==
  ASSUME Lost'
  PROVE  ServerInv' /\ Delivered'
BY DEF Lost, ServerInv, Delivered, Before, Working, Walking, After

\* Only the session of the attempt runs, as before.
LEMMA AloneClient ==
  ASSUME IType, ClientSteps, ~Connect, Alone
  PROVE  Alone'
<1>1. spc' = spc /\ ThisAttempt
  BY ClientKeeps, ClientStays DEF ClientSteps
<1>2. CASE ConnectFail
  BY <1>2 DEF ConnectFail, Hangup, Alone, GivenUp
<1>3. CASE ~ConnectFail
  <2>1. ~GivenUp
    BY <1>3 DEF ClientSteps, Client, Begin, Opened, Search, SearchError, GetHash, NoHash,
       CompareHash, HashError, PutFile, PutDone, DontNeed, Commit, Committed, Undo, Failed, NoAnswer,
       Sync, SyncCompare, SyncDelete, SyncDeleted, Clean, CleanList, CleanFile, GivenUp,
       Answered, Waiting
  <2>2. ~GivenUp' => try' = try
    BY <1>1 DEF ThisAttempt, GivenUp
  <2> QED
    BY <1>1, <2>1, <2>2 DEF Alone
<1> QED
  BY <1>2, <1>3

LEMMA AloneConnect ==
  ASSUME IType, StagedInv, Connect, ~Overlap
  PROVE  Alone' /\ Empty' /\ files'[try'] = <<>> /\ spc'[try'] = "idle"
<1>1. /\ \A k \in Attempts : spc[k] \in {"none", "ended"}
      /\ spc' = [spc EXCEPT ![try] = "idle"] /\ try' = try /\ cpc = "connect"
      /\ UNCHANGED <<c2s, s2c, files>>
  BY DEF Connect
<1>2. try \in Attempts /\ spc \in [Attempts -> {"none", "idle", "copy", "commit", "ended"}]
  BY DEF IType, ClientTypes, SessionTypes
<1>3. c2s[try] = <<>> /\ s2c[try] = <<>> /\ files[try] = <<>>
  BY <1>1, <1>2 DEF StagedInv, Fresh
<1> QED
  BY <1>1, <1>2, <1>3 DEF Alone, Empty, Running

\* The steps after the commit ask for the server's names and for deletions.
LEMMA AfterServer ==
  ASSUME IType, Delivered, job' = job, UNCHANGED <<dest, spc, files, listed, sent>>,
         touched \subseteq touched', cpc \in After, cpc' \in After \/ (cpc' = "done" /\ result'), try' = try,
         c2s' = c2s \/ \E m \in Without({"put_file", "commit"}) : c2s' = Sends(c2s, try, m)
  PROVE  ServerInv' /\ Delivered'
<1>1. ServerInv'
  BY DEF ServerInv, After, Before, Working, Walking
<1>2. Calm => Calm'
  <2> SUFFICES ASSUME Calm PROVE c2s'[try] \in Seq(Without({"put_file", "commit"}))
    BY DEF Calm
  <2>1. CASE c2s' = c2s
    BY <2>1 DEF Calm
  <2>2. CASE \E m \in Without({"put_file", "commit"}) : c2s' = Sends(c2s, try, m)
    <3>1. PICK m \in Without({"put_file", "commit"}) : c2s' = Sends(c2s, try, m)
      BY <2>2
    <3>2. c2s'[try] = c2s[try] \/ c2s'[try] = Append(c2s[try], m)
      BY <3>1 DEF Sends, IType, ClientTypes, NetTypes
    <3> QED
      BY <3>1, <3>2, Queue DEF Calm
  <2> QED
    BY <2>1, <2>2
<1>3. Delivered'
  BY <1>2 DEF Delivered
<1> QED
  BY <1>1, <1>3

\* A file that is on the server counts as sent.
LEMMA PassedSound ==
  ASSUME IType, Sound, PostProcess, cur \in Files, job' = job,
         UNCHANGED <<temp, dest, files, try>>,
         (IF cur \in OnList THEN temp[Temp(cur)] ELSE dest[cur]) = file_hash
  PROVE  Sound'
<1>1. sent' = [sent EXCEPT ![cur] = file_hash]
  BY DEF PostProcess
<1>2. OnList' = OnList /\ \A f \in Files : Temp(f)' = Temp(f)
  BY DEF OnList, Temp
<1>3. sent'[cur] = file_hash /\ \A f \in Files : f # cur => sent'[f] = sent[f]
  BY <1>1 DEF IType, PositionTypes
<1>4. \A f \in Files : sent'[f] # NoFile =>
        (IF f \in OnList THEN temp[Temp(f)] ELSE dest[f]) = sent'[f]
  BY <1>3 DEF Sound
<1>5. NoTwin(files[try])
  BY DEF Sound
<1> QED
  BY <1>2, <1>4, <1>5 DEF Sound, NoTwin

LEMMA SameSound ==
  ASSUME Sound, job' = job, UNCHANGED <<temp, dest, files, try, sent>>
  PROVE  Sound' /\ OnList' = OnList
BY DEF Sound, OnList, NoTwin, Temp

LEMMA ServerClient ==
  ASSUME IType, IType', ClientSteps, ~Connect, job.transaction, job.overwrite,
         SourceInv, ServerInv, Delivered
  PROVE  ServerInv' /\ Delivered'
<1>0. /\ UNCHANGED <<temp, dest, spc, inTx, files>> /\ job' = job
  BY ClientKeeps, ClientAnnounces DEF ClientSteps, disk
<1>1. CASE \/ NoHash(FALSE) \/ NoHash(TRUE) \/ NoAnswer(FALSE) \/ NoAnswer(TRUE) \/ HashError
           \/ ConnectFail
  <2>1. Lost'
    BY <1>1, FileErrorLost DEF NoHash, NoAnswer, HashError, ConnectFail, GoUndo, Hangup, Lost
  <2> QED
    BY <2>1, LostServer
<1>2. CASE Begin
  <2>1. cpc = "begin" /\ Request(Simple("open"), "wait_open") /\ UNCHANGED position
    BY <1>2 DEF Begin
  <2>2. Empty /\ files[try] = <<>> /\ spc[try] \notin {"copy", "commit"}
    BY <2>1 DEF ServerInv, Before
  <2>3. CASE Lost'
    BY <2>3, LostServer
  <2>4. CASE cpc' = "wait_open" /\ try' = try /\ s2c'[try] = <<>> /\ c2s'[try] \in {<<>>, <<Simple("open")>>}
    <3>1. Simple("open") \in {m \in LegalCommands : m.kind = "open"}
      BY CommandTypes DEF Simple, Frame
    <3>2. Exch({m \in LegalCommands : m.kind = "open"})'
      BY <2>4, <3>1 DEF Exch
    <3> QED
      BY <1>0, <2>2, <2>4, <3>2 DEF ServerInv, Delivered, Before, Working, Walking, After
  <2> QED
    BY <2>1, <2>2, <2>3, <2>4, Ask
<1>3. CASE Opened
  <2>1. /\ cpc = "wait_open" /\ s2c[try] # <<>> /\ TakeAnswer /\ cpc' = "search"
        /\ UNCHANGED <<try, c2s, position>>
    BY <1>3 DEF Opened, Answered, GoTo
  <2>2. Empty' /\ inTx[try] /\ files[try] = <<>> /\ spc[try] \notin {"copy", "commit"}
    BY <2>1, ReadAnswer DEF ServerInv, Before
  <2>3. \A f \in Files : sent'[f] = NoFile
    BY <2>1 DEF SourceInv, Before, position
  <2>4. Sound'
    BY <1>0, <2>1, <2>2, <2>3 DEF Sound, NoTwin
  <2> QED
    BY <1>0, <2>1, <2>2, <2>4 DEF ServerInv, Delivered, Before, Working, Walking, After
<1>4. CASE Search(FALSE) \/ Search(TRUE)
  <2>1. cpc = "search" /\ cpc' = "file" /\ UNCHANGED <<try, c2s, s2c, sent>>
    BY <1>4 DEF Search, GoTo, net
  <2>2. /\ Empty /\ inTx[try] /\ files[try] = <<>> /\ spc[try] \notin {"copy", "commit"} /\ Sound
    BY <2>1 DEF ServerInv, Before, Working
  <2>3. Sound' /\ Empty'
    BY <1>0, <2>1, <2>2, SameSound DEF Empty
  <2>4. OnList' = {}
    BY <1>0, <2>1, <2>2 DEF OnList
  <2> QED
    BY <1>0, <2>1, <2>2, <2>3, <2>4 DEF ServerInv, Delivered, Before, Working, Walking, After
<1>5. CASE SearchError(FALSE) \/ SearchError(TRUE)
  BY <1>5 DEF SearchError, GoUndo, ServerInv, Delivered, Before, Working, Walking, After
<1>6. CASE GetHash
  <2>1. /\ cpc = "file" /\ todo # {} /\ Request(Frame("get_hash", cur, NoFile, NoFile), "wait_hash")
        /\ UNCHANGED <<todo, sent>>
    BY <1>6 DEF GetHash
  <2>2. /\ Empty /\ inTx[try] /\ spc[try] \notin {"copy", "commit"} /\ Sound /\ todo \cap OnList = {}
    BY <2>1 DEF ServerInv, Working, Walking
  <2>3. CASE Lost'
    BY <2>3, LostServer
  <2>4. CASE /\ cpc' = "wait_hash" /\ try' = try /\ s2c'[try] = <<>>
             /\ c2s'[try] \in {<<>>, <<Frame("get_hash", cur, NoFile, NoFile)>>}
    <3>1. Frame("get_hash", cur, NoFile, NoFile)
            \in {m \in LegalCommands : m.kind = "get_hash" /\ m.file = cur'}
      <4>1. cur' = cur /\ cur \in Files
        BY <2>1, CurType DEF cur
      <4>2. Frame("get_hash", cur, NoFile, NoFile) \in LegalCommands
        BY <4>1, CommandTypes
      <4> QED
        BY <4>1, <4>2 DEF Frame
    <3>2. WaitHash'
      BY <2>4, <3>1 DEF WaitHash, Exch
    <3>3. Sound' /\ OnList' = OnList
      BY <1>0, <2>1, <2>2, <2>4, SameSound
    <3> QED
      BY <1>0, <2>1, <2>2, <2>4, <3>2, <3>3
      DEF ServerInv, Delivered, Before, Working, Walking, After
  <2> QED
    BY <2>1, <2>2, <2>3, <2>4, Ask
<1>7. CASE CompareHash
  <2>1. /\ cpc = "wait_hash" /\ s2c[try] # <<>> /\ TakeAnswer /\ UNCHANGED <<try, c2s, file_hash>>
    BY <1>7 DEF CompareHash, Answered, GoTo, PostProcess, NextFile
  <2>2. /\ inTx[try] /\ spc[try] \notin {"copy", "commit"} /\ Sound /\ todo \cap OnList = {}
        /\ WaitHash /\ cur \in Files /\ cur \in todo
    BY <2>1, CurType DEF ServerInv, Working, Walking, IType, Placed
  <2>3. Empty'
    BY <2>1, <2>2, ReadAnswer DEF WaitHash
  <2>4. CASE Answer.kind = "hash" /\ Answer.hash = file_hash /\ PostProcess
    <3>1. dest[cur] = file_hash /\ cur \notin OnList
      BY <2>1, <2>2, <2>4 DEF WaitHash
    <3>2. Sound'
      BY <1>0, <2>1, <2>2, <2>4, <3>1, PassedSound
    <3>3. cpc' = "file" /\ todo' \subseteq todo
      BY <2>4 DEF PostProcess, NextFile, GoTo
    <3>4. todo' \cap OnList' = {}
      BY <1>0, <2>1, <2>2, <3>3 DEF OnList
    <3> QED
      BY <1>0, <2>1, <2>2, <2>3, <3>2, <3>3, <3>4
      DEF ServerInv, Delivered, Before, Working, Walking, After
  <2>5. CASE GoTo("put") /\ UNCHANGED <<source, todo, sent, post>>
    <3>1. Sound' /\ OnList' = OnList
      BY <1>0, <2>1, <2>2, <2>5, SameSound
    <3> QED
      BY <1>0, <2>1, <2>2, <2>3, <2>5, <3>1
      DEF GoTo, ServerInv, Delivered, Before, Working, Walking, After
  <2> QED
    BY <1>7, <2>4, <2>5 DEF CompareHash
<1>8. CASE PutFile
  <2>1. CASE FileError
    BY <2>1, FileErrorLost, LostServer
  <2>2. CASE /\ Request(Frame("put_file", cur, file_hash, src[cur]), "wait_put") /\ src[cur] # NoFile
             /\ UNCHANGED <<todo, objErr>>
    <3>1. cpc = "put" /\ UNCHANGED <<sent, file_hash>>
      BY <1>8 DEF PutFile
    <3>2. /\ Empty /\ inTx[try] /\ spc[try] \notin {"copy", "commit"} /\ Sound
          /\ todo \cap OnList = {}
      BY <3>1 DEF ServerInv, Working, Walking
    <3>3. todo # {} /\ file_hash \in Contents /\ cur \in Files /\ cur \in todo
      BY <3>1, CurType DEF IType, Placed
    <3>4. CASE Lost'
      BY <3>4, LostServer
    <3>5. CASE /\ cpc' = "wait_put" /\ try' = try /\ s2c'[try] = <<>>
               /\ c2s'[try] \in {<<>>, <<Frame("put_file", cur, file_hash, src[cur])>>}
      <4>1. Frame("put_file", cur, file_hash, src[cur])
              \in {m \in LegalCommands : m.kind = "put_file" /\ m.file = cur' /\ m.hash = file_hash'}
        <5>1. cur' = cur /\ src[cur] \in Contents
          BY <2>2, <3>3 DEF cur, IType, SourceTypes
        <5>2. Frame("put_file", cur, file_hash, src[cur]) \in LegalCommands
          BY <3>3, <5>1, CommandTypes
        <5> QED
          BY <3>1, <5>1, <5>2 DEF Frame
      <4>2. Sound' /\ OnList' = OnList /\ cur' = cur
        BY <1>0, <2>2, <3>1, <3>2, <3>5, SameSound DEF cur
      <4>3. WaitPut'
        BY <3>2, <3>3, <3>5, <4>1, <4>2 DEF WaitPut, Exch
      <4> QED
        BY <1>0, <2>2, <3>2, <3>5, <4>2, <4>3
        DEF ServerInv, Delivered, Before, Working, Walking, After
    <3> QED
      BY <2>2, <3>2, <3>4, <3>5, Ask
  <2> QED
    BY <1>8, <2>1, <2>2 DEF PutFile
<1>9. CASE PutDone
  <2>1. /\ cpc = "wait_put" /\ s2c[try] # <<>> /\ Answer.kind = "put_ok" /\ TakeAnswer
        /\ UNCHANGED <<try, c2s, file_hash>> /\ PostProcess /\ cpc' = "file" /\ todo' = todo \ {cur}
    BY <1>9 DEF PutDone, Answered, GoTo, PostProcess, NextFile
  <2>2. /\ inTx[try] /\ spc[try] \notin {"copy", "commit"} /\ Sound /\ todo \cap OnList \subseteq {cur}
        /\ WaitPut /\ cur \in Files
    BY <2>1, CurType DEF ServerInv, Working, Walking, IType, Placed
  <2>3. Empty' /\ cur \in OnList /\ temp[Temp(cur)] = file_hash
    BY <2>1, <2>2, ReadAnswer DEF WaitPut
  <2>4. Sound'
    BY <1>0, <2>1, <2>2, <2>3, PassedSound
  <2>5. todo' \cap OnList' = {}
    BY <1>0, <2>1, <2>2 DEF OnList
  <2> QED
    BY <1>0, <2>1, <2>2, <2>3, <2>4, <2>5 DEF ServerInv, Delivered, Before, Working, Walking, After
<1>10. CASE DontNeed
  BY <1>10 DEF DontNeed, Answered, ServerInv, WaitPut
<1>11. CASE Commit
  <2>1. /\ cpc = "file" /\ todo = {} /\ Request(Simple("commit"), "wait_commit") /\ UNCHANGED position
    BY <1>11 DEF Commit
  <2>2. /\ Empty /\ spc[try] \notin {"copy", "commit"} /\ Sound
    BY <2>1 DEF ServerInv, Working, Walking
  <2>3. CASE Lost'
    BY <2>3, LostServer
  <2>4. CASE /\ cpc' = "wait_commit" /\ try' = try /\ s2c'[try] = <<>>
             /\ c2s'[try] \in {<<>>, <<Simple("commit")>>}
    <3>1. Simple("commit") \in {m \in LegalCommands : m.kind = "commit"}
      BY CommandTypes DEF Simple, Frame
    <3>2. WaitCommit'
      BY <1>0, <2>2, <2>4, <3>1 DEF WaitCommit, Exch
    <3>3. Sound' /\ todo' = {}
      BY <1>0, <2>1, <2>2, <2>4, SameSound DEF position
    <3> QED
      BY <2>4, <3>2, <3>3 DEF ServerInv, Delivered, Before, Working, Walking, After
  <2> QED
    BY <2>1, <2>2, <2>3, <2>4, Ask
<1>12. CASE Committed
  <2>1. /\ cpc = "wait_commit" /\ s2c[try] # <<>> /\ TakeAnswer /\ cpc' \in After
        /\ UNCHANGED <<try, c2s, position>>
    BY <1>12 DEF Committed, Answered, AfterCommit, GoTo, After
  <2>2. WaitCommit /\ Sound
    BY <2>1 DEF ServerInv
  <2>3. Empty' /\ files[try] = <<>> /\ spc[try] \notin {"copy", "commit"}
    BY <2>1, <2>2, ReadAnswer DEF WaitCommit, Empty
  <2>4. Calm'
    BY <1>0, <2>1, <2>3, Queue DEF Calm, Empty
  <2>5. OnList = {}
    BY <2>3 DEF OnList
  <2>6. \A f \in listed : sent[f] # NoFile /\ dest[f] = sent[f]
    <3>1. \A f \in listed : sent[f] # NoFile /\ f \in Files
      BY <2>1 DEF SourceInv, Walking, IType, PositionTypes
    <3> QED
      BY <2>2, <2>5, <3>1 DEF Sound
  <2>7. Delivered'
    BY <1>0, <2>1, <2>4, <2>6 DEF Delivered, position
  <2>8. ServerInv'
    BY <2>1 DEF ServerInv, Before, Working, Walking, After
  <2> QED
    BY <2>7, <2>8
<1>13. CASE Undo
  BY <1>13
  DEF Undo, Request, RequestElse, Hangup, ServerInv, Delivered, Before, Working, Walking, After
<1>14. CASE Failed
  <2>1. CASE Lost'
    BY <2>1, LostServer
  <2>2. CASE cpc = "wait_undo" /\ Hangup(IsOk /\ result) /\ (IsOk /\ result)
    <3>1. cpc' = "done" /\ listed' = {}
      BY <1>14, <2>2 DEF Failed, Hangup, SourceInv, position
    <3> QED
      BY <3>1 DEF ServerInv, Delivered, Before, Working, Walking, After
  <2>3. CASE cpc = "wait_drop" /\ Hangup(IsOk) /\ IsOk
    <3>1. /\ cpc \in After /\ cpc' = "done" /\ result' /\ try' = try /\ c2s' = c2s
          /\ UNCHANGED <<listed, sent, touched>>
      BY <1>14, <2>3 DEF Failed, Hangup, After, position, source
    <3> QED
      BY <1>0, <3>1, AfterServer
  <2>4. \/ Lost' \/ (cpc = "wait_undo" /\ Hangup(IsOk /\ result) /\ (IsOk /\ result))
        \/ (cpc = "wait_drop" /\ Hangup(IsOk) /\ IsOk)
    BY <1>14 DEF Failed, Hangup, GoUndo, Lost
  <2> QED
    BY <2>1, <2>2, <2>3, <2>4
<1>15. CASE \/ Sync(FALSE) \/ Sync(TRUE) \/ SyncCompare \/ SyncDelete \/ SyncDeleted
            \/ Clean \/ CleanList(FALSE) \/ CleanList(TRUE) \/ CleanFile
  <2>1. UNCHANGED <<listed, sent>> /\ touched \subseteq touched' /\ cpc \in After
    BY <1>15 DEF Sync, SyncCompare, SyncDelete, SyncDeleted, Clean, CleanList, CleanFile, source,
       position, After
  <2>2. Simple("enum") \in Without({"put_file", "commit"})
    BY CommandTypes DEF Simple, Frame, Without
  <2>3. SyncDelete /\ todo # {} => Frame("delete", cur, NoFile, NoFile) \in Without({"put_file", "commit"})
    BY CommandTypes, CurType DEF Frame, Without
  <2>4. CASE Lost'
    BY <2>4, LostServer
  <2>5. CASE ~Lost'
    <3>1. CASE Sync(FALSE) \/ Sync(TRUE)
      <4>1. \/ cpc' = "wait_list" /\ try' = try /\ c2s' = Sends(c2s, try, Simple("enum"))
            \/ cpc' = "done" /\ result' /\ try' = try /\ c2s' = c2s
        BY <2>5, <3>1, RequestLost DEF Sync, Hangup
      <4> QED
        BY <1>0, <2>1, <2>2, <4>1, AfterServer DEF After
    <3>2. CASE SyncDelete
      <4>1. \/ /\ todo # {} /\ cpc' = "wait_drop" /\ try' = try
               /\ c2s' = Sends(c2s, try, Frame("delete", cur, NoFile, NoFile))
            \/ cpc' = "done" /\ result' /\ try' = try /\ c2s' = c2s
        BY <3>2 DEF SyncDelete, RequestElse, Hangup
      <4> QED
        BY <1>0, <2>1, <2>3, <3>2, <4>1, AfterServer DEF After
    <3>3. CASE \/ SyncCompare \/ SyncDeleted \/ Clean \/ CleanList(FALSE) \/ CleanList(TRUE)
               \/ CleanFile
      <4>1. /\ cpc' \in {"drop", "listing", "wipe"} \/ (cpc' = "done" /\ result')
            /\ UNCHANGED <<try, c2s>>
        BY <3>3 DEF SyncCompare, SyncDeleted, Clean, CleanList, CleanFile, GoTo, Hangup, net
      <4> QED
        BY <1>0, <2>1, <4>1, AfterServer DEF After
    <3> QED
      BY <1>15, <3>1, <3>2, <3>3
  <2> QED
    BY <2>4, <2>5
<1> QED
  BY <1>1, <1>2, <1>3, <1>4, <1>5, <1>6, <1>7, <1>8, <1>9, <1>10, <1>11, <1>12, <1>13, <1>14, <1>15
  DEF ClientSteps, Client

LEMMA DeliveryConnect ==
  ASSUME IType, StagedInv, Connect, ~Overlap
  PROVE  Alone' /\ ServerInv' /\ Delivered'
<1>1. Alone' /\ Empty' /\ files'[try'] = <<>> /\ spc'[try'] = "idle" /\ cpc' = "begin"
  BY AloneConnect DEF Connect
<1> QED
  BY <1>1 DEF ServerInv, Delivered, Before, Working, Walking, After

-----------------------------------------------------------------------------
(* The session of the attempt, from one place of the client to the next.   *)

\* It answers the one command there is, or ends.
LEMMA OneCommand ==
  ASSUME IType, NEW C, Exch(C), c2s[try] # <<>>
  PROVE  c2s[try] = <<Input(try)>> /\ Input(try) \in C /\ s2c[try] = <<>>
<1>1. PICK m \in C : c2s[try] = <<m>> /\ s2c[try] = <<>>
  BY DEF Exch
<1> QED
  BY <1>1 DEF Input

LEMMA Replies ==
  ASSUME IType, NEW m0, c2s[try] = <<m0>>, s2c[try] = <<>>, NEW m, NEW s \in {"idle", "copy"},
         Reply(try, m, s)
  PROVE  c2s'[try] = <<>> /\ s2c'[try] \in {<<>>, <<m>>} /\ spc'[try] \in {s, "ended"}
<1>1. try \in Attempts /\ Tail(c2s[try]) = <<>> /\ c2s[try] # <<>>
  BY DEF IType, ClientTypes
<1>2. c2s'[try] \in {Tail(c2s[try]), <<>>} /\ spc'[try] \in {s, "ended"}
  BY <1>1, ReplyOnly
<1>3. s2c'[try] \in {<<>>, <<m>>}
  BY <1>1 DEF Reply, Sends, IType, NetTypes
<1> QED
  BY <1>1, <1>2, <1>3

LEMMA RepliesError ==
  ASSUME IType, NEW m0, c2s[try] = <<m0>>, s2c[try] = <<>>, ReplyError(try)
  PROVE  /\ c2s'[try] = <<>> /\ s2c'[try] \in {<<>>, <<Simple("error")>>}
         /\ spc'[try] \in {"idle", "ended"}
<1>1. try \in Attempts /\ Tail(c2s[try]) = <<>> /\ c2s[try] # <<>>
  BY DEF IType, ClientTypes
<1>2. c2s'[try] \in {Tail(c2s[try]), <<>>} /\ spc'[try] \in {"idle", "ended"}
  BY <1>1, ReplyErrorOnly
<1>3. s2c'[try] \in {<<>>, <<Simple("error")>>}
  BY <1>1, Replies DEF ReplyError, Sends, IType, NetTypes
<1> QED
  BY <1>1, <1>2, <1>3

\* Without a command it can only give up, which changes nothing else.
LEMMA NothingToDo ==
  ASSUME SessionSteps(try), c2s[try] = <<>>, spc[try] \notin {"copy", "commit"}
  PROVE  SrvGiveUp(try)
BY DEF SessionSteps, Session, SrvOpen, SrvGetHash, SrvDontNeed, SrvPutFile, SrvCommit, SrvCopy,
   SrvCommitted, SrvUndo, SrvEnum, SrvDelete, SrvHashError, SrvPutError, SrvCopyFail, SrvSyncError, Has

\* What is the same for the client.
ClientSame == UNCHANGED <<cpc, try, result, todo, listed, file_hash, sent>> /\ job' = job

\* Nothing arrives that was not there; a session may end.
LEMMA LossServer ==
  ASSUME IType, ServerInv, Delivered, Alone, ClientSame, UNCHANGED <<temp, dest, inTx, files>>,
         touched \subseteq touched',
         \A k \in Attempts :
           /\ spc'[k] \in {spc[k], "ended"}
           /\ c2s'[k] \in {c2s[k], <<>>} /\ s2c'[k] \in {s2c[k], <<>>}
  PROVE  ServerInv' /\ Delivered' /\ Alone'
<1>0. try \in Attempts /\ try' = try /\ cur' = cur /\ OnList' = OnList
      /\ \A f \in Files : Temp(f)' = Temp(f)
  BY DEF ClientSame, IType, ClientTypes, cur, OnList, Temp
<1>1. Alone'
  BY DEF ClientSame, Alone, GivenUp, Running
<1>2. /\ c2s'[try] \in {c2s[try], <<>>} /\ s2c'[try] \in {s2c[try], <<>>}
      /\ spc'[try] \in {spc[try], "ended"}
  BY <1>0
<1>3. Empty => Empty'
  BY <1>0, <1>2 DEF Empty
<1>4. /\ cpc = "wait_open" => Exch({m \in LegalCommands : m.kind = "open"})'
      /\ cpc = "wait_open" /\ s2c'[try] # <<>> => inTx[try]
  BY <1>0, <1>2 DEF ServerInv, Exch
<1>5. WaitHash => WaitHash'
  <2>1. Exch({m \in LegalCommands : m.kind = "get_hash" /\ m.file = cur})
          => Exch({m \in LegalCommands : m.kind = "get_hash" /\ m.file = cur})'
    BY <1>0, <1>2 DEF Exch
  <2>2. s2c'[try] # <<>> => s2c'[try] = s2c[try] /\ Answer' = Answer
    BY <1>0, <1>2 DEF Answer
  <2> QED
    BY <1>0, <2>1, <2>2 DEF WaitHash
<1>6. WaitPut => WaitPut'
  <2>1. Exch({m \in LegalCommands : m.kind = "put_file" /\ m.file = cur /\ m.hash = file_hash})
          => Exch({m \in LegalCommands : m.kind = "put_file" /\ m.file = cur /\ m.hash = file_hash})'
    BY <1>0, <1>2 DEF Exch, ClientSame
  <2>2. s2c'[try] # <<>> => s2c'[try] = s2c[try] /\ Answer' = Answer
    BY <1>0, <1>2 DEF Answer
  <2>3. temp'[Temp(cur)'] = temp[Temp(cur)] /\ file_hash' = file_hash
    BY <1>0 DEF Temp, ClientSame
  <2>4. c2s'[try] # <<>> => c2s'[try] = c2s[try]
    BY <1>2
  <2> QED
    BY <1>0, <2>1, <2>2, <2>3, <2>4 DEF WaitPut
<1>7. WaitCommit => WaitCommit'
  <2>1. Exch({m \in LegalCommands : m.kind = "commit"}) => Exch({m \in LegalCommands : m.kind = "commit"})'
    BY <1>0, <1>2 DEF Exch
  <2> QED
    BY <1>0, <1>2, <1>3, <2>1 DEF WaitCommit
<1>8. Sound => Sound'
  BY <1>0, SameSound DEF ClientSame
<1>9. ServerInv'
  BY <1>0, <1>2, <1>3, <1>4, <1>5, <1>6, <1>7, <1>8 DEF ServerInv, ClientSame
<1>10. Calm => Calm'
  BY <1>0, <1>2, Queue DEF Calm
<1>11. Delivered'
  BY <1>10 DEF Delivered, ClientSame
<1> QED
  BY <1>1, <1>9, <1>11

LEMMA SilentServer ==
  ASSUME IType, ServerInv, Delivered, Alone, ClientSame, touched' = touched, SrvGiveUp(try)
  PROVE  ServerInv' /\ Delivered'
<1>1. /\ UNCHANGED <<temp, dest, inTx, files, c2s, s2c>>
      /\ \A k \in Attempts : spc'[k] \in {spc[k], "ended"}
  BY DEF SrvGiveUp, Goto, net, disk, IType, SessionTypes
<1> QED
  BY <1>1, LossServer

\* It opens the transaction with an empty list.
LEMMA OpenPhase ==
  ASSUME IType, IType', ServerInv, ClientSame, cpc = "wait_open", SrvOpen(try)
  PROVE  ServerInv'
<1>1. /\ Exch({m \in LegalCommands : m.kind = "open"}) /\ files[try] = <<>>
      /\ c2s[try] # <<>> /\ try' = try /\ cpc' = cpc /\ try \in Attempts
  BY DEF ServerInv, Before, SrvOpen, Has, ClientSame, IType, ClientTypes
<1>2. \E a \in Answers : Reply(try, a, "idle")
  BY AnswerTypes DEF SrvOpen
<1>3. PICK a \in Answers : Reply(try, a, "idle")
  BY <1>2
<1>4. c2s'[try] = <<>> /\ s2c'[try] \in {<<>>, <<a>>} /\ spc'[try] \in {"idle", "ended"}
  BY <1>1, <1>3, OneCommand, Replies
<1>5. Exch({m \in LegalCommands : m.kind = "open"})'
  BY <1>1, <1>4 DEF Exch
<1>6. inTx'[try] /\ files'[try] = <<>>
  BY <1>1 DEF SrvOpen, IType, SessionTypes
<1> QED
  BY <1>1, <1>4, <1>5, <1>6 DEF ServerInv, Before, Working, Walking

\* It tells the hash its file has now.
LEMMA HashPhase ==
  ASSUME IType, ServerInv, ClientSame, cpc = "wait_hash", todo # {},
         SrvGetHash(try) \/ SrvHashError(try)
  PROVE  ServerInv'
<1>1. /\ WaitHash /\ inTx[try] /\ Sound /\ todo \cap OnList = {}
      /\ c2s[try] # <<>> /\ try' = try /\ cpc' = cpc /\ cur' = cur
  BY DEF ServerInv, Working, Walking, SrvGetHash, SrvHashError, Has, ClientSame, cur
<1>2. c2s[try] = <<Input(try)>> /\ s2c[try] = <<>> /\ Input(try).file = cur
  BY <1>1, OneCommand DEF WaitHash
<1>3. UNCHANGED <<temp, dest, inTx, files>>
  BY DEF SrvGetHash, SrvHashError, disk
<1>4. PICK a \in Answers : Reply(try, a, "idle") /\ (a.kind = "hash" => a.hash = dest[cur])
  <2>1. cur \in Files /\ dest[cur] \in Contents \cup {NoFile, Mixed}
    BY CurType DEF IType, DiskTypes
  <2>2. CASE SrvHashError(try)
    BY <2>2, AnswerTypes DEF SrvHashError, Simple, Frame
  <2>3. CASE SrvGetHash(try) /\ dest[cur] = NoFile
    <3>1. Reply(try, Simple("not_found"), "idle")
      BY <1>2, <2>3 DEF SrvGetHash
    <3> QED
      BY <3>1, AnswerTypes DEF Simple, Frame
  <2>4. CASE SrvGetHash(try) /\ dest[cur] # NoFile
    <3>1. Reply(try, Frame("hash", cur, dest[cur], NoFile), "idle")
      BY <1>2, <2>4 DEF SrvGetHash
    <3>2. Frame("hash", cur, dest[cur], NoFile) \in Answers
      BY <2>1, AnswerTypes
    <3> QED
      BY <3>1, <3>2 DEF Frame
  <2> QED
    BY <2>2, <2>3, <2>4
<1>5. c2s'[try] = <<>> /\ s2c'[try] \in {<<>>, <<a>>} /\ spc'[try] \in {"idle", "ended"}
  BY <1>2, <1>4, Replies
<1>6. WaitHash'
  <2>1. s2c'[try] # <<>> => Answer' = a
    BY <1>1, <1>5 DEF Answer
  <2> QED
    BY <1>1, <1>3, <1>4, <1>5, <2>1 DEF WaitHash, Exch
<1>7. Sound' /\ OnList' = OnList
  BY <1>1, <1>3, SameSound DEF ClientSame
<1> QED
  BY <1>1, <1>3, <1>5, <1>6, <1>7 DEF ServerInv, Before, Working, Walking, ClientSame

\* A file that is put first on the list, or taken from it.
LEMMA Longer ==
  ASSUME NEW f \in Files, NEW s \in Seq(Files), NoTwin(s), \A i \in 1..Len(s) : s[i] # f
  PROVE  /\ NoTwin(<<f>> \o s)
         /\ {(<<f>> \o s)[i] : i \in 1..Len(<<f>> \o s)} = {f} \cup {s[i] : i \in 1..Len(s)}
<1> DEFINE t == <<f>> \o s
<1>1. /\ Len(t) = Len(s) + 1 /\ Len(s) \in Nat /\ t[1] = f
      /\ \A i \in 1..Len(s) : t[i + 1] = s[i]
  OBVIOUS
<1>2. \A i \in 1..Len(t) : i = 1 \/ (i - 1 \in 1..Len(s) /\ t[i] = s[i - 1])
  BY <1>1
<1> HIDE DEF t
<1>3. NoTwin(t)
  <2> SUFFICES ASSUME NEW i \in 1..Len(t), NEW j \in 1..Len(t), t[i] = t[j] PROVE i = j
    BY DEF NoTwin
  <2>1. CASE i # 1 /\ j # 1
    <3>1. i - 1 \in 1..Len(s) /\ j - 1 \in 1..Len(s) /\ s[i - 1] = s[j - 1]
      BY <1>2, <2>1
    <3>2. i - 1 = j - 1
      BY <3>1 DEF NoTwin
    <3> QED
      BY <3>2
  <2>2. CASE i = 1 /\ j # 1
    BY <1>1, <1>2, <2>2
  <2>3. CASE i # 1 /\ j = 1
    BY <1>1, <1>2, <2>3
  <2>4. CASE i = 1 /\ j = 1
    BY <2>4
  <2> QED
    BY <2>1, <2>2, <2>3, <2>4
<1>4. {t[i] : i \in 1..Len(t)} \subseteq {f} \cup {s[i] : i \in 1..Len(s)}
  BY <1>1, <1>2
<1>5. \A i \in 1..Len(s) : s[i] = t[i + 1] /\ i + 1 \in 1..Len(t)
  BY <1>1
<1>6. 1 \in 1..Len(t)
  BY <1>1
<1>7. {f} \cup {s[i] : i \in 1..Len(s)} \subseteq {t[i] : i \in 1..Len(t)}
  <2>1. f \in {t[i] : i \in 1..Len(t)}
    BY <1>1, <1>6
  <2>2. \A i \in 1..Len(s) : s[i] \in {t[j] : j \in 1..Len(t)}
    BY <1>5
  <2> QED
    BY <2>1, <2>2
<1> QED
  BY <1>3, <1>4, <1>7 DEF t

LEMMA Shorter ==
  ASSUME NEW s \in Seq(Files), NoTwin(s), s # <<>>
  PROVE  /\ NoTwin(Tail(s))
         /\ {Tail(s)[i] : i \in 1..Len(Tail(s))} = {s[i] : i \in 1..Len(s)} \ {Head(s)}
<1> DEFINE t == Tail(s)
<1>1. /\ Len(s) \in Nat /\ Len(s) >= 1 /\ Len(t) = Len(s) - 1 /\ Head(s) = s[1]
      /\ \A i \in 1..Len(t) : t[i] = s[i + 1]
  OBVIOUS
<1> HIDE DEF t
<1>2. \A i \in 1..Len(t) : i + 1 \in 1..Len(s) /\ i + 1 # 1
  BY <1>1
<1>3. NoTwin(t)
  <2> SUFFICES ASSUME NEW i \in 1..Len(t), NEW j \in 1..Len(t), t[i] = t[j] PROVE i = j
    BY DEF NoTwin
  <2>1. i + 1 = j + 1
    BY <1>1, <1>2 DEF NoTwin
  <2> QED
    BY <2>1
<1>4. {t[i] : i \in 1..Len(t)} \subseteq {s[i] : i \in 1..Len(s)} \ {s[1]}
  <2> SUFFICES ASSUME NEW i \in 1..Len(t) PROVE t[i] \in {s[j] : j \in 1..Len(s)} \ {s[1]}
    OBVIOUS
  <2>1. 1 \in 1..Len(s) /\ s[i + 1] # s[1]
    BY <1>1, <1>2 DEF NoTwin
  <2> QED
    BY <1>1, <1>2, <2>1
<1>5. {s[i] : i \in 1..Len(s)} \ {s[1]} \subseteq {t[i] : i \in 1..Len(t)}
  <2> SUFFICES ASSUME NEW j \in 1..Len(s), s[j] # s[1] PROVE s[j] \in {t[i] : i \in 1..Len(t)}
    OBVIOUS
  <2>1. j # 1 /\ j - 1 \in 1..Len(t) /\ (j - 1) + 1 = j
    BY <1>1
  <2>2. t[j - 1] = s[j]
    BY <1>1, <2>1
  <2> QED
    BY <2>1, <2>2
<1> QED
  BY <1>1, <1>3, <1>4, <1>5 DEF t

\* It receives the file it is sent, and puts it on the list if it is the one
\* that was announced.
LEMMA PutPhase ==
  ASSUME IType, IType', SourceInv, ServerInv, ClientSame, OwnTemps, cpc = "wait_put", todo # {},
         SrvPutFile(try) \/ SrvPutError(try)
  PROVE  ServerInv'
<1> DEFINE f == cur
           s == files[try]
<1>1. /\ WaitPut /\ inTx[try] /\ Sound /\ todo \cap OnList \subseteq {f}
      /\ c2s[try] # <<>> /\ try' = try /\ cpc' = cpc /\ cur' = cur /\ file_hash' = file_hash
      /\ UNCHANGED <<todo, sent>>
  BY DEF ServerInv, Working, Walking, SrvPutFile, SrvPutError, Has, ClientSame, cur
<1>2. /\ c2s[try] = <<Input(try)>> /\ s2c[try] = <<>>
      /\ Input(try).file = f /\ Input(try).hash = file_hash /\ f \notin OnList
  BY <1>1, OneCommand DEF WaitPut
<1>3. f \in Files /\ f \in todo /\ sent[f] = NoFile /\ try \in Attempts /\ s \in Seq(Files)
  BY <1>1, CurType DEF SourceInv, Walking, IType, ClientTypes, SessionTypes
<1>4. \A g \in Files : Temp(g) \in Files /\ Temp(g)' = Temp(g) /\ (g # f => Temp(g) # Temp(f))
  BY <1>3, JobTypes DEF OwnTemps, ClientSame, Temp
<1>5. dest' = dest /\ inTx' = inTx /\ \A t \in Files : t # Temp(f) => temp'[t] = temp[t]
  <2>1. CASE SrvPutFile(try)
    BY <1>2, <2>1 DEF SrvPutFile, IType, DiskTypes
  <2>2. CASE SrvPutError(try)
    BY <2>2 DEF SrvPutError, disk
  <2> QED
    BY <2>1, <2>2
<1>6. \A g \in Files : sent[g] # NoFile =>
        g # f /\ (IF g \in OnList THEN temp'[Temp(g)] ELSE dest[g]) = sent[g]
  BY <1>1, <1>3, <1>4, <1>5 DEF Sound
<1>7. CASE ReplyError(try) /\ UNCHANGED files
  <2>1. /\ c2s'[try] = <<>> /\ s2c'[try] \in {<<>>, <<Simple("error")>>}
        /\ spc'[try] \in {"idle", "ended"}
    BY <1>2, <1>7, RepliesError
  <2>2. OnList' = OnList
    BY <1>1, <1>7 DEF OnList
  <2>3. Sound'
    BY <1>1, <1>4, <1>5, <1>6, <1>7, <2>2 DEF Sound, NoTwin
  <2>4. WaitPut'
    <3>1. Simple("error") \in Answers
      BY AnswerTypes
    <3>2. s2c'[try] # <<>> => Answer' = Simple("error")
      BY <1>1, <2>1 DEF Answer
    <3> QED
      BY <1>1, <2>1, <3>1, <3>2 DEF WaitPut, Exch, Simple, Frame
  <2> QED
    BY <1>1, <1>5, <2>1, <2>2, <2>3, <2>4 DEF ServerInv, Before, Working, Walking
<1>8. CASE /\ files' = [files EXCEPT ![try] = <<f>> \o s] /\ Reply(try, Simple("put_ok"), "idle")
           /\ temp' = [temp EXCEPT ![Temp(f)] = file_hash]
  <2>1. /\ c2s'[try] = <<>> /\ s2c'[try] \in {<<>>, <<Simple("put_ok")>>}
        /\ spc'[try] \in {"idle", "ended"}
    BY <1>2, <1>8, Replies
  <2>2. files'[try'] = <<f>> \o s
    BY <1>1, <1>3, <1>8 DEF IType, SessionTypes
  <2>3. OnList' = {f} \cup OnList /\ NoTwin(<<f>> \o s)
    <3>1. NoTwin(s) /\ \A i \in 1..Len(s) : s[i] # f
      BY <1>1, <1>2 DEF Sound, OnList
    <3>2. /\ NoTwin(<<f>> \o s)
          /\ {(<<f>> \o s)[i] : i \in 1..Len(<<f>> \o s)} = {f} \cup {s[i] : i \in 1..Len(s)}
      BY <1>3, <3>1, Longer
    <3>3. OnList' = {(<<f>> \o s)[i] : i \in 1..Len(<<f>> \o s)}
      BY <2>2, Zenon DEF OnList
    <3>4. OnList = {s[i] : i \in 1..Len(s)}
      BY Zenon DEF OnList
    <3> QED
      BY <3>2, <3>3, <3>4, Zenon
  <2>4. Sound'
    <3>1. NoTwin(files[try])'
      BY <2>2, <2>3 DEF NoTwin
    <3>2. \A g \in Files : sent'[g] # NoFile =>
            (IF g \in OnList' THEN temp'[Temp(g)'] ELSE dest'[g]) = sent'[g]
      BY <1>1, <1>4, <1>5, <1>6, <2>3
    <3> QED
      BY <3>1, <3>2 DEF Sound
  <2>5. WaitPut'
    <3>1. Simple("put_ok") \in Answers
      BY AnswerTypes
    <3>2. s2c'[try] # <<>> => Answer' = Simple("put_ok")
      BY <1>1, <2>1 DEF Answer
    <3>3. temp'[Temp(cur)'] = file_hash
      <4>1. temp'[Temp(f)] = file_hash
        BY <1>3, <1>4, <1>8 DEF IType, DiskTypes
      <4>2. Temp(cur)' = Temp(f)
        BY <1>1 DEF Temp, ClientSame
      <4> QED
        BY <4>1, <4>2
    <3> QED
      BY <1>1, <2>1, <2>3, <3>1, <3>2, <3>3 DEF WaitPut, Exch, Simple, Frame
  <2> QED
    BY <1>1, <1>5, <2>1, <2>3, <2>4, <2>5 DEF ServerInv, Before, Working, Walking
<1>9. CASE SrvPutFile(try)
  <2>1. PICK content \in Received(Temp(f), Input(try).data) :
          /\ temp' = [temp EXCEPT ![Temp(f)] = content]
          /\ \/ /\ content = Input(try).hash
                /\ files' = [files EXCEPT ![try] = <<f>> \o (IF inTx[try] THEN @ ELSE <<>>)]
                /\ Reply(try, Simple("put_ok"), IF inTx[try] THEN "idle" ELSE "copy")
             \/ content # Input(try).hash /\ ReplyError(try) /\ UNCHANGED files
    BY <1>2, <1>9 DEF SrvPutFile
  <2> QED
    BY <1>1, <1>2, <1>7, <1>8, <2>1
<1>10. CASE SrvPutError(try)
  BY <1>7, <1>10 DEF SrvPutError
<1> QED
  BY <1>9, <1>10

\* It copies its list, and answers when nothing is left of it.
LEMMA CommitPhase ==
  ASSUME IType, IType', SourceInv, ServerInv, ListedAt(try), ClientSame, OwnTemps, ~copyFailed',
         cpc = "wait_commit",
         SrvCommit(try) \/ SrvCopy(try) \/ SrvCopyFail(try) \/ SrvCommitted(try)
  PROVE  ServerInv'
<1>1. /\ WaitCommit /\ Sound /\ todo = {} /\ try' = try /\ cpc' = cpc /\ todo' = todo
      /\ try \in Attempts /\ files[try] \in Seq(Files) /\ sent' = sent
  BY DEF ServerInv, SourceInv, ClientSame, IType, ClientTypes, SessionTypes
<1>2. ASSUME WaitCommit', Sound' PROVE ServerInv'
  BY <1>1, <1>2 DEF ServerInv, Before, Working, Walking
<1>3. CASE SrvCommit(try)
  <2>1. /\ c2s[try] # <<>> /\ spc[try] = "idle" /\ UNCHANGED <<temp, dest, inTx, files>>
    BY <1>3 DEF SrvCommit, Has, disk
  <2>2. c2s[try] = <<Input(try)>> /\ s2c[try] = <<>>
    BY <1>1, <2>1, OneCommand DEF WaitCommit
  <2>3. Sound'
    BY <1>1, <2>1, SameSound DEF ClientSame
  <2>4. CASE Goto(try, "commit") /\ TakeInput(try) /\ UNCHANGED <<s2c, up>>
    <3>1. c2s'[try] = <<>> /\ s2c'[try] = <<>> /\ spc'[try] = "commit"
      BY <1>1, <2>2, <2>4 DEF Goto, TakeInput, IType, NetTypes, SessionTypes
    <3>2. WaitCommit'
      BY <1>1, <3>1 DEF WaitCommit, Exch, Empty
    <3> QED
      BY <1>2, <2>3, <3>2
  <2>5. CASE ~inTx[try] /\ Reply(try, Simple("error"), "idle")
    <3>1. files[try] = <<>>
      BY <2>1, <2>5 DEF ListedAt
    <3>2. /\ c2s'[try] = <<>> /\ s2c'[try] \in {<<>>, <<Simple("error")>>}
          /\ spc'[try] \in {"idle", "ended"}
      BY <2>2, <2>5, Replies
    <3>3. WaitCommit'
      BY <1>1, <2>1, <3>1, <3>2, AnswerTypes DEF WaitCommit, Exch
    <3> QED
      BY <1>2, <2>3, <3>3
  <2> QED
    BY <1>3, <2>4, <2>5 DEF SrvCommit
<1>4. CASE SrvCopy(try)
  <2> DEFINE s == files[try]
             f == Head(s)
  <2>1. /\ spc[try] = "commit" /\ s # <<>> /\ UNCHANGED <<inTx, net>> /\ temp[Temp(f)] # NoFile
        /\ dest' = [dest EXCEPT ![f] = temp[Temp(f)]] /\ temp' = [temp EXCEPT ![Temp(f)] = NoFile]
        /\ files' = [files EXCEPT ![try] = Tail(@)]
        /\ spc' = [spc EXCEPT ![try] = IF @ = "copy" THEN "idle" ELSE @]
    BY <1>1, <1>4 DEF SrvCopy, WaitCommit
  <2>2. f \in Files /\ files'[try] = Tail(s) /\ spc'[try] = "commit"
    BY <1>1, <2>1 DEF IType, SessionTypes
  <2>3. \A g \in Files : Temp(g) \in Files /\ Temp(g)' = Temp(g) /\ (g # f => Temp(g) # Temp(f))
    BY <2>2, JobTypes DEF OwnTemps, ClientSame, Temp
  <2>4. NoTwin(Tail(s)) /\ OnList' = OnList \ {f} /\ f \in OnList
    <3>1. NoTwin(s)
      BY <1>1 DEF Sound
    <3>2. f = s[1] /\ 1 \in 1..Len(s)
      <4>1. Len(s) \in Nat /\ Len(s) # 0
        BY <1>1, <2>1, EmptySeq
      <4> QED
        BY <1>1, <2>1, <4>1
    <3>3. /\ NoTwin(Tail(s))
          /\ {Tail(s)[i] : i \in 1..Len(Tail(s))} = {s[i] : i \in 1..Len(s)} \ {f}
      BY <1>1, <2>1, <3>1, Shorter
    <3>4. OnList' = {Tail(s)[i] : i \in 1..Len(Tail(s))}
      BY <1>1, <2>2, Zenon DEF OnList
    <3>5. OnList = {s[i] : i \in 1..Len(s)} /\ f \in OnList
      BY <3>2, Zenon DEF OnList
    <3> QED
      BY <3>3, <3>4, <3>5, Zenon
  <2>5. /\ dest'[f] = temp[Temp(f)]
        /\ \A g \in Files : g # f => dest'[g] = dest[g] /\ temp'[Temp(g)] = temp[Temp(g)]
    BY <2>1, <2>2, <2>3 DEF IType, DiskTypes
  <2>6. Sound'
    <3>1. \A g \in Files : sent[g] # NoFile =>
            (IF g \in OnList' THEN temp'[Temp(g)] ELSE dest'[g]) = sent[g]
      BY <1>1, <2>2, <2>4, <2>5 DEF Sound
    <3>2. NoTwin(files[try])'
      BY <1>1, <2>2, <2>4 DEF NoTwin
    <3> QED
      BY <1>1, <2>3, <3>1, <3>2 DEF Sound
  <2>7. WaitCommit'
    <3>1. UNCHANGED <<c2s, s2c>> /\ Empty
      BY <1>1, <2>1 DEF net, WaitCommit
    <3> QED
      BY <1>1, <2>2, <3>1 DEF WaitCommit, Exch, Empty
  <2> QED
    BY <1>2, <2>6, <2>7
<1>5. CASE SrvCommitted(try)
  <2>1. /\ spc[try] = "commit" /\ files[try] = <<>> /\ UNCHANGED <<temp, dest, files>> /\ Empty
    BY <1>1, <1>5 DEF SrvCommitted, disk, WaitCommit
  <2>2. Sound'
    BY <1>1, <2>1, SameSound DEF ClientSame
  <2>3. c2s'[try] = <<>> /\ s2c'[try] \in {<<>>, <<Simple("tx_ok")>>} /\ spc'[try] \in {"idle", "ended"}
    BY <1>1, <1>5, <2>1
    DEF SrvCommitted, EndSession, Goto, Sends, Empty, IType, NetTypes, SessionTypes
  <2>4. WaitCommit'
    BY <1>1, <2>1, <2>3, AnswerTypes DEF WaitCommit, Exch
  <2> QED
    BY <1>2, <2>2, <2>4
<1>6. CASE SrvCopyFail(try)
  BY <1>6 DEF SrvCopyFail
<1> QED
  BY <1>3, <1>4, <1>5, <1>6

\* When all is delivered it lists its files and deletes those that are gone.
LEMMA CalmPhase ==
  ASSUME IType, StagedInv, SyncInv, SourceInv, ServerInv, Delivered, ClientSame, touched' = touched,
         cpc \in After \/ (cpc = "done" /\ result), SessionSteps(try), Fine(try)
  PROVE  ServerInv' /\ Delivered'
<1>1. cpc' = cpc /\ result' = result /\ try' = try /\ try \in Attempts
  BY DEF ClientSame, IType, ClientTypes
<1>2. ServerInv'
  BY <1>1 DEF ServerInv, Before, Working, Walking, After
<1>3. CASE listed = {}
  BY <1>2, <1>3 DEF Delivered, ClientSame
<1>4. CASE listed # {}
  <2>1. /\ Calm
        /\ \A f \in listed : /\ sent[f] # NoFile
                             /\ dest[f] = sent[f] \/ (job.post = "sync" /\ f \in touched)
    BY <1>4 DEF Delivered
  <2>2. spc[try] = "idle" /\ files[try] = <<>> /\ c2s[try] \in Seq(Without({"put_file", "commit"}))
    BY <2>1 DEF Calm, Fine, Running
  <2>3. c2s[try] # <<>> => Input(try).kind \notin {"put_file", "commit"}
    <3>1. c2s[try] # <<>> => Head(c2s[try]) \in Without({"put_file", "commit"})
      BY <2>2, Queue
    <3> QED
      BY <3>1 DEF Without, Input
  <2>4. \/ SrvOpen(try) \/ SrvGetHash(try) \/ SrvHashError(try) \/ SrvUndo(try) \/ SrvEnum(try)
        \/ SrvDelete(try) \/ SrvSyncError(try) \/ SrvGiveUp(try)
    BY <2>2, <2>3 DEF SessionSteps, Session, SrvDontNeed, SrvPutFile, SrvCommit, SrvCopy,
       SrvCommitted, SrvPutError, SrvCopyFail, Has
  <2>5. files'[try] = <<>>
    BY <1>1, <2>2, <2>4 DEF SrvOpen, SrvGetHash, SrvHashError, SrvUndo, SrvEnum, SrvDelete,
       SrvSyncError, SrvGiveUp, IType, SessionTypes
  <2>6. spc'[try] \notin {"copy", "commit"}
    <3>1. CASE c2s[try] # <<>> /\ \E m : Reply(try, m, "idle")
      BY <1>1, <3>1, ReplyOnly
    <3>2. CASE SrvGiveUp(try)
      BY <1>1, <3>2 DEF SrvGiveUp, Goto, IType, SessionTypes
    <3> QED
      BY <2>4, <3>1, <3>2 DEF SrvOpen, SrvGetHash, SrvHashError, SrvUndo, SrvEnum, SrvDelete,
         SrvSyncError, Has
  <2>7. c2s'[try] \in Seq(Without({"put_file", "commit"}))
    BY <2>2, Queue DEF Fine, NetOnly
  <2>8. Calm'
    BY <1>1, <2>5, <2>6, <2>7 DEF Calm
  <2>9. \A f \in listed : dest'[f] = sent[f] \/ (job.post = "sync" /\ f \in touched)
    <3>1. CASE SrvDelete(try)
      <4>1. c2s[try] # <<>> /\ Input(try).kind = "delete"
            /\ dest' = [dest EXCEPT ![Input(try).file] = NoFile]
        BY <3>1 DEF SrvDelete, Has
      <4>2. Head(c2s[try]) \in GoneCommands
        BY <1>1, <4>1, Queue DEF SyncInv
      <4>3. Gone(Input(try).file) /\ job.post = "sync"
        BY <4>1, <4>2 DEF GoneCommands, Input
      <4>4. \A f \in listed : f \in Files /\ (Gone(f) => f \in touched)
        <5>1. listed \subseteq Files
          BY DEF IType, PositionTypes
        <5> QED
          BY <2>1, <4>3, <5>1 DEF SourceInv, Gone
      <4> QED
        BY <2>1, <4>1, <4>3, <4>4 DEF IType, DiskTypes
    <3>2. CASE ~SrvDelete(try)
      <4>1. dest' = dest
        BY <2>4, <3>2 DEF SrvOpen, SrvGetHash, SrvHashError, SrvUndo, SrvEnum, SrvSyncError,
           SrvGiveUp, disk
      <4> QED
        BY <2>1, <4>1
    <3> QED
      BY <3>1, <3>2
  <2> QED
    BY <1>2, <2>1, <2>8, <2>9 DEF Delivered, ClientSame
<1> QED
  BY <1>3, <1>4

LEMMA SessionDelivery ==
  ASSUME IType, IType', StagedInv, SyncInv, SourceInv, Alone, ServerInv, Delivered,
         job.overwrite, OwnTemps, ~copyFailed', NEW k \in Attempts, SessionSteps(k)
  PROVE  Alone' /\ ServerInv' /\ Delivered'
<1>1. Fine(k)
  BY SessionFine
<1>2. UNCHANGED client /\ job' = job /\ touched' = touched
  BY SessionKeeps
  DEF SessionSteps, Session, SrvOpen, SrvGetHash, SrvDontNeed, SrvPutFile, SrvCommit,
     SrvCopy, SrvCommitted, SrvUndo, SrvEnum, SrvDelete, SrvGiveUp, SrvHashError, SrvPutError,
     SrvCopyFail, SrvSyncError, source
<1>3. ClientSame
  BY <1>2 DEF ClientSame, client, position
<1>4. Alone'
  <2>1. \A j \in Attempts : spc'[j] \in Running => spc[j] \in Running
    BY <1>1 DEF Fine, NetOnly
  <2> QED
    BY <1>3, <2>1 DEF Alone, GivenUp, ClientSame
<1>5. CASE cpc \in {"connect", "undo", "wait_undo"} \/ (cpc = "done" /\ ~result)
  BY <1>3, <1>4, <1>5 DEF ClientSame, ServerInv, Delivered, Before, Working, Walking, After
<1>6. CASE ~(cpc \in {"connect", "undo", "wait_undo"} \/ (cpc = "done" /\ ~result))
  <2>1. k = try /\ SessionSteps(try) /\ spc[try] \in Running
    BY <1>1, <1>6 DEF Alone, GivenUp, Fine
  <2>2. CASE SrvGiveUp(try)
    BY <1>2, <1>3, <1>4, <2>2, SilentServer
  <2>3. CASE ~SrvGiveUp(try) /\ cpc \in {"begin", "search", "file", "put"}
    <3>1. c2s[try] = <<>> /\ spc[try] \notin {"copy", "commit"}
      BY <2>3 DEF ServerInv, Empty, Before, Working
    <3> QED
      BY <2>1, <2>3, <3>1, NothingToDo
  <2>4. CASE ~SrvGiveUp(try) /\ cpc = "wait_open"
    <3>1. Exch({m \in LegalCommands : m.kind = "open"}) /\ spc[try] \notin {"copy", "commit"}
      BY <2>4 DEF ServerInv, Before
    <3>2. c2s[try] # <<>> /\ Input(try).kind = "open"
      BY <2>1, <2>4, <3>1, NothingToDo, OneCommand
    <3>3. SrvOpen(try)
      BY <2>1, <2>4, <3>1, <3>2 DEF SessionSteps, Session, SrvGetHash, SrvDontNeed, SrvPutFile,
         SrvCommit, SrvCopy, SrvCommitted, SrvUndo, SrvEnum, SrvDelete, SrvHashError, SrvPutError,
         SrvCopyFail, SrvSyncError, Has
    <3>4. ServerInv'
      BY <1>3, <2>4, <3>3, OpenPhase
    <3> QED
      BY <1>3, <1>4, <2>4, <3>4 DEF Delivered, After, ClientSame
  <2>5. CASE ~SrvGiveUp(try) /\ cpc = "wait_hash"
    <3>1. WaitHash /\ spc[try] \notin {"copy", "commit"} /\ todo # {}
      BY <2>5 DEF ServerInv, Working, IType, Placed
    <3>2. c2s[try] # <<>> /\ Input(try).kind = "get_hash"
      BY <2>1, <2>5, <3>1, NothingToDo, OneCommand DEF WaitHash
    <3>3. SrvGetHash(try) \/ SrvHashError(try)
      BY <2>1, <2>5, <3>1, <3>2 DEF SessionSteps, Session, SrvOpen, SrvDontNeed, SrvPutFile,
         SrvCommit, SrvCopy, SrvCommitted, SrvUndo, SrvEnum, SrvDelete, SrvPutError,
         SrvCopyFail, SrvSyncError, Has
    <3>4. ServerInv'
      BY <1>3, <2>5, <3>1, <3>3, HashPhase
    <3> QED
      BY <1>3, <1>4, <2>5, <3>4 DEF Delivered, After, ClientSame
  <2>6. CASE ~SrvGiveUp(try) /\ cpc = "wait_put"
    <3>1. WaitPut /\ spc[try] \notin {"copy", "commit"} /\ todo # {}
      BY <2>6 DEF ServerInv, Working, IType, Placed
    <3>2. c2s[try] # <<>> /\ Input(try).kind = "put_file"
      BY <2>1, <2>6, <3>1, NothingToDo, OneCommand DEF WaitPut
    <3>3. SrvPutFile(try) \/ SrvPutError(try)
      BY <2>1, <2>6, <3>1, <3>2 DEF SessionSteps, Session, SrvOpen, SrvGetHash, SrvDontNeed,
         SrvCommit, SrvCopy, SrvCommitted, SrvUndo, SrvEnum, SrvDelete, SrvHashError,
         SrvCopyFail, SrvSyncError, Has
    <3>4. ServerInv'
      BY <1>3, <2>6, <3>1, <3>3, PutPhase
    <3> QED
      BY <1>3, <1>4, <2>6, <3>4 DEF Delivered, After, ClientSame
  <2>7. CASE ~SrvGiveUp(try) /\ cpc = "wait_commit"
    <3>1. WaitCommit
      BY <2>7 DEF ServerInv
    <3>2. SrvCommit(try) \/ SrvCopy(try) \/ SrvCopyFail(try) \/ SrvCommitted(try)
      <4>1. c2s[try] # <<>> => Input(try).kind = "commit"
        BY <3>1, OneCommand DEF WaitCommit
      <4> QED
        BY <2>1, <2>7, <4>1 DEF SessionSteps, Session, SrvOpen, SrvGetHash, SrvDontNeed, SrvPutFile,
           SrvUndo, SrvEnum, SrvDelete, SrvHashError, SrvPutError, SrvSyncError, Has
    <3>3. ListedAt(try)
      BY <2>1 DEF StagedInv, Listed
    <3>4. ServerInv'
      BY <1>3, <2>7, <3>2, <3>3, CommitPhase
    <3> QED
      BY <1>3, <1>4, <2>7, <3>4 DEF Delivered, After, ClientSame
  <2>8. CASE cpc \in After \/ (cpc = "done" /\ result)
    BY <1>1, <1>2, <1>3, <1>4, <2>1, <2>8, CalmPhase
  <2> QED
    BY <1>4, <1>6, <2>2, <2>3, <2>4, <2>5, <2>6, <2>7, <2>8 DEF IType, ClientTypes, Waiting, After
<1> QED
  BY <1>5, <1>6

-----------------------------------------------------------------------------
(* The invariant behind the delivery, and what follows from it.            *)

LEMMA DeliveryStep ==
  ASSUME IType, IType', StagedInv, SyncInv, DeliveryInv, [Next]_vars, ~Overlap
  PROVE  DeliveryInv'
<1>0. job' = job /\ (copyFailed => copyFailed')
  <2>1. copyFailed' = copyFailed \/ copyFailed'
    BY DEF Next, Client, Connect, Begin, Opened, Search, SearchError, GetHash, NoHash,
       CompareHash, HashError, PutFile, PutDone, DontNeed, Commit, Committed, Undo, Failed,
       NoAnswer, Sync, SyncCompare, SyncDelete, SyncDeleted, Clean, CleanList, CleanFile,
   Environment, SourceChange,
       ConnectFail, Crash, Break, Session, SrvOpen, SrvGetHash, SrvDontNeed, SrvPutFile,
       SrvCommit, SrvCopy, SrvCommitted, SrvUndo, SrvEnum, SrvDelete, SrvGiveUp, SrvHashError,
       SrvPutError, SrvCopyFail, SrvSyncError, Finished, vars, disk
  <2> QED
    BY <2>1, JobStays
<1> SUFFICES ASSUME Sure, Sure' PROVE SourceInv' /\ Alone' /\ ServerInv' /\ Delivered'
  BY <1>0 DEF DeliveryInv, Sure, OwnTemps, Temp
<1>1. /\ SourceInv /\ Alone /\ ServerInv /\ Delivered
      /\ job.transaction /\ job.overwrite /\ OwnTemps /\ ~copyFailed'
  BY DEF DeliveryInv, Sure
<1>2. CASE ClientSteps
  <2>1. SourceInv'
    BY <1>1, <1>2, SourceClient
  <2>2. CASE Connect
    BY <2>1, <2>2, DeliveryConnect
  <2>3. CASE ~Connect
    BY <1>1, <1>2, <2>1, <2>3, AloneClient, ServerClient
  <2> QED
    BY <2>2, <2>3
<1>3. ASSUME NEW k \in Attempts, SessionSteps(k)
      PROVE  SourceInv' /\ Alone' /\ ServerInv' /\ Delivered'
  <2>1. UNCHANGED <<source, client, job>>
    BY <1>0, <1>3, SessionKeeps DEF SessionSteps, Session, SrvOpen, SrvGetHash, SrvDontNeed,
       SrvPutFile, SrvCommit, SrvCopy, SrvCommitted, SrvUndo, SrvEnum, SrvDelete, SrvGiveUp,
       SrvHashError, SrvPutError, SrvCopyFail, SrvSyncError
  <2>2. SourceInv'
    BY <1>1, <2>1 DEF SourceInv, source, client, position, cur
  <2> QED
    BY <1>1, <1>3, <2>2, SessionDelivery
<1>4. CASE SourceChange \/ UNCHANGED vars \/ Crash \/ \E k \in Attempts : Break(k)
  <2>1. /\ UNCHANGED <<client, job, disk, inTx, files>> /\ touched \subseteq touched'
        /\ \A k \in Attempts :
             /\ spc'[k] \in {spc[k], "ended"}
             /\ c2s'[k] \in {c2s[k], <<>>} /\ s2c'[k] \in {s2c[k], <<>>}
    BY <1>4 DEF SourceChange, vars, Crash, Break, sessions, net, source, IType, NetTypes
  <2>2. ClientSame /\ UNCHANGED <<temp, dest>>
    BY <2>1 DEF ClientSame, client, position, disk
  <2>3. \A f \in Files \ touched' : src'[f] = src[f]
    BY <1>4 DEF SourceChange, vars, Crash, Break, source, IType, SourceTypes
  <2>4. SourceInv'
    <3>1. UNCHANGED <<cpc, result, todo, listed, file_hash, post, sent, job>> /\ cur' = cur
      BY <2>1 DEF client, position, cur
    <3>2. \A f \in Files \ touched' : sent'[f] # NoFile =>
            src'[f] \in {sent'[f], NoFile} /\ (job'.post = "sync" => src'[f] # NoFile)
      BY <1>1, <2>1, <2>3, <3>1 DEF SourceInv
    <3>3. cpc' \in {"wait_hash", "put", "wait_put"} /\ cur' \notin touched' => src'[cur'] = file_hash'
      BY <1>1, <2>1, <2>3, <3>1, CurType DEF SourceInv, IType, Placed
    <3>4. cpc' \in Walking \cup After => \A f \in Files \ touched' : src'[f] # NoFile => f \in listed'
      BY <1>1, <2>1, <2>3, <3>1 DEF SourceInv
    <3> QED
      BY <1>1, <3>1, <3>2, <3>3, <3>4 DEF SourceInv
  <2> QED
    BY <1>1, <2>1, <2>2, <2>4, LossServer
<1> QED
  BY <1>2, <1>3, <1>4 DEF Next, Environment, Finished, ClientSteps, SessionSteps

LEMMA DeliveryInit ==
  ASSUME Init
  PROVE  DeliveryInv
BY DEF Init, DeliveryInv, SourceInv, Alone, GivenUp, ServerInv, Delivered, Before, Working,
   Walking, After

\* The client deletes a source after the commit, and then the server has it.
LEMMA SourceDeleted ==
  ASSUME IType, DeliveryInv, [Next]_vars, Sure,
         NEW f \in Files \ touched', src[f] # NoFile, src'[f] = NoFile
  PROVE  dest[f] = src[f]
<1>1. SourceInv /\ ServerInv /\ Delivered /\ job.transaction
  BY DEF DeliveryInv, Sure
<1>2. CASE SourceChange
  BY <1>2 DEF SourceChange, IType, SourceTypes
<1>3. CASE ~SourceChange
  <2>1. f \in Files \ touched
    <3>1. touched \subseteq touched'
      BY <1>3 DEF Next, Client, Connect, Begin, Opened, Search, SearchError, GetHash, NoHash,
         CompareHash, HashError, PutFile, PutDone, DontNeed, Commit, Committed, Undo, Failed,
         NoAnswer, Sync, SyncCompare, SyncDelete, SyncDeleted, Clean, CleanList, CleanFile, PostProcess,
         Environment,
         ConnectFail, Crash, Break, Session, SrvOpen, SrvGetHash, SrvDontNeed, SrvPutFile,
         SrvCommit, SrvCopy, SrvCommitted, SrvUndo, SrvEnum, SrvDelete, SrvGiveUp, SrvHashError,
         SrvPutError, SrvCopyFail, SrvSyncError, Finished, vars, source
    <3> QED
      BY <3>1
  <2>2. CASE Committed
    <3>1. f \in post /\ cpc = "wait_commit" /\ s2c[try] # <<>>
      BY <2>2 DEF Committed, Answered
    <3>2. sent[f] # NoFile /\ src[f] = sent[f]
      BY <1>1, <2>1, <3>1 DEF SourceInv
    <3>3. OnList = {}
      BY <1>1, <3>1 DEF ServerInv, WaitCommit, OnList
    <3>4. Sound
      BY <1>1, <3>1 DEF ServerInv
    <3> QED
      BY <2>1, <3>2, <3>3, <3>4 DEF Sound
  <2>3. CASE CleanFile
    <3>1. cpc = "wipe" /\ job.post = "delete"
      BY <1>1, <2>3 DEF CleanFile, SourceInv
    <3>2. f \in listed
      BY <1>1, <2>1, <3>1 DEF SourceInv, After
    <3>3. sent[f] # NoFile /\ dest[f] = sent[f]
      BY <1>1, <2>1, <3>1, <3>2 DEF Delivered, After
    <3> QED
      BY <1>1, <2>1, <3>3 DEF SourceInv
  <2>4. CASE ~Committed /\ ~CleanFile
    <3>1. PostProcess => src' = src
      BY <1>1 DEF PostProcess
    <3>2. src' = src
      BY <1>3, <2>4, <3>1 DEF Next, Client, Connect, Begin, Opened, Search, SearchError, GetHash,
         NoHash, CompareHash, HashError, PutFile, PutDone, DontNeed, Commit, Undo, Failed,
         NoAnswer, Sync, SyncCompare, SyncDelete, SyncDeleted, Clean, CleanList, Environment,
         ConnectFail, Crash, Break, Session, SrvOpen, SrvGetHash, SrvDontNeed, SrvPutFile,
         SrvCommit, SrvCopy, SrvCommitted, SrvUndo, SrvEnum, SrvDelete, SrvGiveUp, SrvHashError,
         SrvPutError, SrvCopyFail, SrvSyncError, Finished, vars, source
    <3> QED
      BY <3>2
  <2> QED
    BY <2>2, <2>3, <2>4
<1> QED
  BY <1>2, <1>3

LEMMA WriteInit == Init => IType /\ StagedInv /\ SyncInv /\ DeliveryInv
<1>1. Init => SyncInv
  BY DEF Init, SyncInv, Syncing
<1> QED
  BY <1>1, ITypeInit, StagedInit, DeliveryInit

LEMMA WriteStep ==
  ASSUME IType, StagedInv, SyncInv, DeliveryInv, [Next]_vars,
         ~Overlap, \A j \in Jobs : j.post = "sync" => j.wild
  PROVE  IType' /\ StagedInv' /\ SyncInv' /\ DeliveryInv'
<1>1. IType'
  BY ITypeStep
<1> QED
  BY <1>1, StagedInvStep, SyncStep, DeliveryStep

\* A transaction that ends well has brought every file it listed to its
\* destination, whatever attempts before it were cut off, in the middle of a
\* commit too, when attempts do not overlap and only an object with a wildcard
\* is synchronised (do_put_file, command_transaction 1004-1058).
THEOREM TransactionDelivers ==
  ASSUME ~Overlap, \A j \in Jobs : j.post = "sync" => j.wild PROVE Spec => []AllDelivered
<1>1. Init => IType /\ StagedInv /\ SyncInv /\ DeliveryInv
  BY WriteInit
<1>2. IType /\ StagedInv /\ SyncInv /\ DeliveryInv /\ [Next]_vars
        => IType' /\ StagedInv' /\ SyncInv' /\ DeliveryInv'
  BY WriteStep
<1>3. DeliveryInv => AllDelivered
  BY DEF DeliveryInv, Sure, Delivered, AllDelivered
<1> QED
  BY <1>1, <1>2, <1>3, PTL DEF Spec

\* A transaction deletes a source no user has changed and no search passed over
\* only when its content is in its destination, not merely on the server
\* (1652-1702).
THEOREM TransactionKeepsSource ==
  ASSUME ~Overlap, \A j \in Jobs : j.post = "sync" => j.wild PROVE Spec => SourceKept
<1>1. Init => IType /\ StagedInv /\ SyncInv /\ DeliveryInv
  BY WriteInit
<1>2. IType /\ StagedInv /\ SyncInv /\ DeliveryInv /\ [Next]_vars
        => IType' /\ StagedInv' /\ SyncInv' /\ DeliveryInv'
  BY WriteStep
<1>3. IType /\ DeliveryInv /\ [Next]_vars =>
        (job.transaction /\ job.overwrite /\ OwnTemps /\ ~copyFailed =>
          \A f \in Files \ touched' : src[f] # NoFile /\ src'[f] = NoFile => dest[f] = src[f])
  BY SourceDeleted DEF Sure
<1> QED
  BY <1>1, <1>2, <1>3, PTL DEF Spec, SourceKept

=============================================================================
