---------------------------- MODULE ReadJobProofs ----------------------------
(***************************************************************************)
(* Theorems about ReadJob, for any number of files, attempts and faults,   *)
(* any contents and any jobs.                                              *)
(***************************************************************************)
EXTENDS ReadJob, SequenceTheorems, TLAPS

LEMMA ConstantTypes ==
  /\ N \in Nat \ {0} /\ MaxTry \in Nat \ {0} /\ MaxFaults \in Nat
  /\ NoFile \notin Contents /\ Mixed \notin Contents /\ NoFile # Mixed
  /\ Jobs \subseteq [transaction : BOOLEAN, overwrite : BOOLEAN, wild : BOOLEAN,
                     post : {"nothing", "delete", "sync"}, tempName : [Files -> Files]]
BY ReadJobAssumption

-----------------------------------------------------------------------------
(* The type invariant, in parts, with what it rests on: commands name a    *)
(* file, a file that is sent has a hash, and there is a current file where *)
(* the client works on one.                                                *)

LegalCommands ==
  {m \in Commands : m.kind \in {"get_hash", "get_file", "delete"} =>
                      \E f \in Files : m.files = {f}}
LegalAnswers  ==
  {m \in Answers : m.kind = "file" => m.hash \in Contents /\ m.data \in Contents}

SourceTypes ==
  /\ src \in [Files -> Contents \cup {NoFile}] /\ touched \subseteq Files

ListTypes ==
  /\ todo \subseteq Files /\ files \in Seq(Files) /\ listed \subseteq Files
  /\ got \in [Files -> Contents \cup {NoFile}] /\ missed \subseteq Files

ClientTypes ==
  /\ cpc \in {"connect", "begin", "file", "fetch", "copy", "del", "commit", "drop", "sync",
              "done"} \cup Waiting
  /\ try \in Attempts /\ result \in BOOLEAN /\ whole \in BOOLEAN

DiskTypes ==
  /\ temp \in [Files -> Contents \cup {NoFile}]
  /\ dest \in [Files -> Contents \cup {NoFile}]
  /\ asked \in [Files -> SUBSET Contents] /\ commits \in BOOLEAN

NetTypes ==
  /\ c2s \in [Attempts -> Seq(LegalCommands)] /\ s2c \in [Attempts -> Seq(LegalAnswers)]
  /\ up \in [Attempts -> BOOLEAN]

SessionTypes == spc \in [Attempts -> {"none", "idle", "ack", "ended"}]

Placed ==
  /\ cpc \in {"fetch", "wait_hash", "wait_file", "copy", "del", "wait_del"} => todo # {}
  /\ cpc \in {"drop", "wait_drop"} => files # <<>>

IType ==
  /\ job \in Jobs /\ faults \in 0..MaxFaults
  /\ SourceTypes /\ ListTypes /\ ClientTypes /\ DiskTypes /\ NetTypes /\ SessionTypes
  /\ Placed

\* The hashes announced for the files that have the temporary file of f.
Known(f)   == UNION {asked[g] : g \in {h \in Files : Temp(h) = Temp(f)}}
Installing == ~job.transaction \/ commits

\* The files whose temporary file may be copied.
Held == {f \in Files : temp[Temp(f)] \in Known(f) \cup {NoFile}}

StagedInv ==
  /\ files \in Seq(Held)
  /\ cpc = "copy" => cur \in Held
  /\ cpc \in {"copy", "commit", "drop", "wait_drop", "sync", "wait_sync"} => Installing

-----------------------------------------------------------------------------
(* Channels and the steps most actions are made of.                        *)

\* A channel stays a channel when a frame is sent, read or replaced.
LEMMA ChannelType ==
  ASSUME NEW S, NEW ch \in [Attempts -> Seq(S)], NEW k \in Attempts
  PROVE  /\ \A m \in S : Sends(ch, k, m) \in [Attempts -> Seq(S)]
         /\ [ch EXCEPT ![k] = <<>>] \in [Attempts -> Seq(S)]
         /\ ch[k] # <<>> => /\ Head(ch[k]) \in S
                            /\ [ch EXCEPT ![k] = Tail(@)] \in [Attempts -> Seq(S)]
                            /\ \A m \in S : [ch EXCEPT ![k] = <<m>> \o Tail(@)]
                                              \in [Attempts -> Seq(S)]
<1>1. ch[k] \in Seq(S) /\ <<>> \in Seq(S) /\ \A m \in S : Append(ch[k], m) \in Seq(S)
  OBVIOUS
<1>2. ch[k] # <<>> => Head(ch[k]) \in S /\ Tail(ch[k]) \in Seq(S)
  BY <1>1
<1>3. ch[k] # <<>> => \A m \in S : <<m>> \o Tail(ch[k]) \in Seq(S)
  BY <1>2
<1> QED
  BY <1>1, <1>2, <1>3 DEF Sends

LEMMA FrameTypes ==
  /\ \A k \in {"enum", "ack", "nack"} : Simple(k) \in LegalCommands
  /\ \A k \in {"get_hash", "get_file", "delete"}, f \in Files : Command(k, f) \in LegalCommands
  /\ \A k \in {"deleted", "error", "rest"} : Simple(k) \in LegalAnswers
  /\ \A fs \in SUBSET Files : Frame("list", fs, NoFile, NoFile) \in LegalAnswers
  /\ \A f \in Files, h \in Contents : Frame("hash", {f}, h, NoFile) \in LegalAnswers
  /\ \A f \in Files, h \in Contents, d \in Contents : Frame("file", {f}, h, d) \in LegalAnswers
BY DEF Simple, Command, Frame, Commands, Answers, LegalCommands, LegalAnswers

LEMMA JobTypes ==
  ASSUME IType
  PROVE  /\ job.transaction \in BOOLEAN /\ job.tempName \in [Files -> Files]
         /\ \A f \in Files : Temp(f) \in Files
<1>1. job \in [transaction : BOOLEAN, overwrite : BOOLEAN, wild : BOOLEAN,
               post : {"nothing", "delete", "sync"}, tempName : [Files -> Files]]
  BY ConstantTypes DEF IType
<1> QED
  BY <1>1 DEF Temp

LEMMA CurType ==
  ASSUME IType, todo # {}
  PROVE  cur \in Files /\ cur \in todo
BY DEF cur, IType, ListTypes

LEMMA ReturnType ==
  ASSUME IType, NEW r \in BOOLEAN, Return(r)
  PROVE  /\ up' \in [Attempts -> BOOLEAN] /\ s2c' \in [Attempts -> Seq(LegalAnswers)]
         /\ result' \in BOOLEAN /\ try' \in Attempts /\ cpc' \in {"done", "connect"}
<1>1. try \in Attempts /\ s2c \in [Attempts -> Seq(LegalAnswers)] /\ up \in [Attempts -> BOOLEAN]
  BY DEF IType, ClientTypes, NetTypes
<1>2. up' \in [Attempts -> BOOLEAN] /\ s2c' \in [Attempts -> Seq(LegalAnswers)]
  BY <1>1, ChannelType DEF Return
<1>3. try' \in Attempts
  BY <1>1, ConstantTypes DEF Return, Attempts
<1> QED
  BY <1>2, <1>3 DEF Return

LEMMA OutType ==
  ASSUME IType, NEW r \in BOOLEAN, Out(r)
  PROVE  /\ NetTypes' /\ cpc' \in {"done", "connect"}
         /\ result' \in BOOLEAN /\ try' \in Attempts /\ whole' \in BOOLEAN
BY ReturnType DEF Out, IType, ClientTypes, NetTypes

LEMMA RequestType ==
  ASSUME IType, NEW m \in LegalCommands, NEW s, Request(m, s)
  PROVE  /\ NetTypes' /\ cpc' \in {s, "done", "connect"}
         /\ result' \in BOOLEAN /\ try' \in Attempts /\ whole' \in BOOLEAN
<1>1. CASE c2s' = Sends(c2s, try, m) /\ GoTo(s) /\ UNCHANGED <<s2c, up>>
  <2>1. Sends(c2s, try, m) \in [Attempts -> Seq(LegalCommands)]
    BY ChannelType DEF IType, ClientTypes, NetTypes
  <2> QED
    BY <1>1, <2>1 DEF IType, ClientTypes, NetTypes, GoTo
<1>2. CASE Out(FALSE)
  BY <1>2, OutType
<1> QED
  BY <1>1, <1>2 DEF Request

LEMMA SendsType ==
  ASSUME IType
  PROVE  \A k \in {"ack", "nack"} : Sends(c2s, try, Simple(k)) \in [Attempts -> Seq(LegalCommands)]
<1>1. try \in Attempts /\ c2s \in [Attempts -> Seq(LegalCommands)]
  BY DEF IType, ClientTypes, NetTypes
<1> QED
  BY <1>1, ChannelType, FrameTypes

LEMMA AnswerType ==
  ASSUME IType, s2c[try] # <<>>
  PROVE  /\ Answer \in LegalAnswers
         /\ TakeAnswer => s2c' \in [Attempts -> Seq(LegalAnswers)]
<1>1. try \in Attempts /\ s2c \in [Attempts -> Seq(LegalAnswers)]
  BY DEF IType, ClientTypes, NetTypes
<1>2. /\ Head(s2c[try]) \in LegalAnswers
      /\ [s2c EXCEPT ![try] = Tail(@)] \in [Attempts -> Seq(LegalAnswers)]
  BY <1>1, ChannelType
<1> QED
  BY <1>2 DEF Answer, TakeAnswer

\* What is left alone keeps its type.
LEMMA Kept ==
  ASSUME IType
  PROVE  /\ UNCHANGED source => SourceTypes'
         /\ UNCHANGED lists => ListTypes'
         /\ UNCHANGED disk => DiskTypes'
         /\ UNCHANGED net => NetTypes'
         /\ UNCHANGED spc => SessionTypes'
         /\ UNCHANGED client => ClientTypes'
<1>1. UNCHANGED source => SourceTypes'
  BY DEF IType, SourceTypes, source
<1>2. UNCHANGED lists => ListTypes'
  BY DEF IType, ListTypes, lists
<1>3. UNCHANGED disk => DiskTypes'
  BY DEF IType, DiskTypes, disk
<1>4. UNCHANGED net => NetTypes'
  BY DEF IType, NetTypes, net
<1>5. UNCHANGED spc => SessionTypes'
  BY DEF IType, SessionTypes
<1>6. UNCHANGED client => ClientTypes'
  BY DEF IType, ClientTypes, client, Waiting
<1> QED
  BY <1>1, <1>2, <1>3, <1>4, <1>5, <1>6

-----------------------------------------------------------------------------
(* The steps of the client.                                                *)

\* A deletion of files the server did not list, but for those passed over.
LEMMA SyncDeletes ==
  ASSUME SyncDelete(FALSE) \/ SyncDelete(TRUE)
  PROVE  /\ Answered("wait_sync", "list") /\ End
         /\ UNCHANGED <<job, source, todo, files, listed, got, temp, asked, commits, spc>>
         /\ UNCHANGED faults \/ Fault
         /\ \E over \in SUBSET Files :
              /\ missed' = missed \cup over
              /\ dest' = [f \in Files |->
                           IF f \in Answer.files \cup over THEN dest[f] ELSE NoFile]
BY DEF SyncDelete, PassesOver

LEMMA ClientStep ==
  ASSUME IType,
         \/ Client \/ ConnectFail \/ NoDirectory \/ CompareHash(TRUE) \/ NoTemp \/ NotWritten
         \/ SyncDelete(TRUE) \/ NoSearch(TRUE) \/ NoAnswer(TRUE) \/ Shutdown
  PROVE  NetTypes' /\ ClientTypes' /\ ListTypes' /\ DiskTypes' /\ Placed'
<1> USE DEF IType
<1>0. try \in Attempts
  BY DEF ClientTypes
<1>1. CASE Connect
  <2>1. NetTypes'
    BY <1>1, <1>0, OutType, RequestType, ReturnType, FrameTypes, AnswerType, Kept DEF Connect, GoTo, NetTypes
  <2>2. ClientTypes'
    BY <1>1, <1>0, OutType, RequestType, ReturnType, FrameTypes, Kept DEF Connect, GoTo, ClientTypes, Waiting
  <2>3. ListTypes'
    BY <1>1, <1>0, CurType, OutType, AnswerType, Kept DEF Connect, GoTo, ListTypes
  <2>4. DiskTypes'
    BY <1>1, <1>0, CurType, JobTypes, AnswerType, Kept DEF Connect, GoTo, DiskTypes, disk
  <2>5. Placed'
    BY <1>1, <1>0, OutType, RequestType, ReturnType, FrameTypes DEF Connect, GoTo, Placed, lists
  <2> QED
    BY <2>1, <2>2, <2>3, <2>4, <2>5
<1>2. CASE ConnectFail
  <2>1. NetTypes'
    BY <1>2, <1>0, OutType, RequestType, ReturnType, FrameTypes, AnswerType, Kept DEF ConnectFail, NetTypes
  <2>2. ClientTypes'
    BY <1>2, <1>0, OutType, RequestType, ReturnType, FrameTypes, Kept DEF ConnectFail, ClientTypes, Waiting
  <2>3. ListTypes'
    BY <1>2, <1>0, CurType, OutType, AnswerType, Kept DEF ConnectFail, ListTypes
  <2>4. DiskTypes'
    BY <1>2, <1>0, CurType, JobTypes, AnswerType, Kept DEF ConnectFail, DiskTypes, disk
  <2>5. Placed'
    BY <1>2, <1>0, OutType, RequestType, ReturnType, FrameTypes DEF ConnectFail, Placed, lists
  <2> QED
    BY <2>1, <2>2, <2>3, <2>4, <2>5
<1>3. CASE Begin
  <2>1. NetTypes'
    BY <1>3, <1>0, OutType, RequestType, ReturnType, FrameTypes, AnswerType, Kept DEF Begin, GoTo, NetTypes
  <2>2. ClientTypes'
    BY <1>3, <1>0, OutType, RequestType, ReturnType, FrameTypes, Kept DEF Begin, GoTo, ClientTypes, Waiting
  <2>3. ListTypes'
    BY <1>3, <1>0, CurType, OutType, AnswerType, Kept DEF Begin, GoTo, ListTypes
  <2>4. DiskTypes'
    BY <1>3, <1>0, CurType, JobTypes, AnswerType, Kept DEF Begin, GoTo, DiskTypes, disk
  <2>5. Placed'
    BY <1>3, <1>0, OutType, RequestType, ReturnType, FrameTypes DEF Begin, GoTo, Placed, lists
  <2> QED
    BY <2>1, <2>2, <2>3, <2>4, <2>5
<1>4. CASE Listed
  <2>a. Answer.files \in SUBSET Files
    BY <1>4, AnswerType DEF Listed, GoTo, Answered, LegalAnswers, Answers
  <2>1. NetTypes'
    BY <1>4, <2>a, <1>0, OutType, RequestType, ReturnType, FrameTypes, AnswerType, Kept DEF Listed, GoTo, Answered, NetTypes
  <2>2. ClientTypes'
    BY <1>4, <2>a, <1>0, OutType, RequestType, ReturnType, FrameTypes, Kept DEF Listed, GoTo, Answered, ClientTypes, Waiting
  <2>3. ListTypes'
    BY <1>4, <2>a, <1>0, CurType, OutType, AnswerType, Kept DEF Listed, GoTo, Answered, ListTypes
  <2>4. DiskTypes'
    BY <1>4, <2>a, <1>0, CurType, JobTypes, AnswerType, Kept DEF Listed, GoTo, Answered, DiskTypes, disk
  <2>5. Placed'
    BY <1>4, <2>a, <1>0, OutType, RequestType, ReturnType, FrameTypes DEF Listed, GoTo, Answered, Placed, lists
  <2> QED
    BY <2>1, <2>2, <2>3, <2>4, <2>5
<1>5. CASE NextFile
  <2>a. cur \in Files
    BY <1>5, CurType DEF NextFile, GoTo, NextBlock, Placed, Answered
  <2>b. Command("get_hash", cur) \in LegalCommands
    BY <2>a, FrameTypes
  <2>1. NetTypes'
    BY <1>5, <2>a, <2>b, <1>0, OutType, RequestType, ReturnType, FrameTypes, AnswerType, Kept DEF NextFile, GoTo, NextBlock, NetTypes
  <2>2. ClientTypes'
    BY <1>5, <2>a, <2>b, <1>0, OutType, RequestType, ReturnType, FrameTypes, Kept DEF NextFile, GoTo, NextBlock, ClientTypes, Waiting
  <2>3. ListTypes'
    BY <1>5, <2>a, <2>b, <1>0, CurType, OutType, AnswerType, Kept DEF NextFile, GoTo, NextBlock, ListTypes
  <2>4. DiskTypes'
    BY <1>5, <2>a, <2>b, <1>0, CurType, JobTypes, AnswerType, Kept DEF NextFile, GoTo, NextBlock, DiskTypes, disk
  <2>5. Placed'
    BY <1>5, <2>a, <2>b, <1>0, OutType, RequestType, ReturnType, FrameTypes DEF NextFile, GoTo, NextBlock, Placed, lists
  <2> QED
    BY <2>1, <2>2, <2>3, <2>4, <2>5
<1>6. CASE NoDirectory
  <2>1. NetTypes'
    BY <1>6, <1>0, OutType, RequestType, ReturnType, FrameTypes, AnswerType, Kept DEF NoDirectory, GoTo, NextBlock, NetTypes
  <2>2. ClientTypes'
    BY <1>6, <1>0, OutType, RequestType, ReturnType, FrameTypes, Kept DEF NoDirectory, GoTo, NextBlock, ClientTypes, Waiting
  <2>3. ListTypes'
    BY <1>6, <1>0, CurType, OutType, AnswerType, Kept DEF NoDirectory, GoTo, NextBlock, ListTypes
  <2>4. DiskTypes'
    BY <1>6, <1>0, CurType, JobTypes, AnswerType, Kept DEF NoDirectory, GoTo, NextBlock, DiskTypes, disk
  <2>5. Placed'
    BY <1>6, <1>0, OutType, RequestType, ReturnType, FrameTypes DEF NoDirectory, GoTo, NextBlock, Placed, lists
  <2> QED
    BY <2>1, <2>2, <2>3, <2>4, <2>5
<1>7. CASE CompareHash(FALSE) \/ CompareHash(TRUE)
  <2>a. cur \in Files
    BY <1>7, CurType DEF CompareHash, GoTo, Answered, Done, Placed, Answered
  <2>1. NetTypes'
    BY <1>7, <2>a, <1>0, OutType, RequestType, ReturnType, FrameTypes, AnswerType, Kept DEF CompareHash, GoTo, Answered, Done, NetTypes
  <2>2. ClientTypes'
    BY <1>7, <2>a, <1>0, OutType, RequestType, ReturnType, FrameTypes, Kept DEF CompareHash, GoTo, Answered, Done, ClientTypes, Waiting
  <2>3. ListTypes'
    <3>1. dest[cur] \in Contents \cup {NoFile} /\ Answer \in Answers
      BY <1>7, <2>a, AnswerType DEF CompareHash, Answered, DiskTypes, LegalAnswers
    <3>2. got' \in [Files -> Contents \cup {NoFile}]
      BY <1>7, <2>a, <3>1 DEF CompareHash, ListTypes, lists
    <3> QED
      BY <1>7, <2>a, <3>2 DEF CompareHash, Done, ListTypes, lists
  <2>4. DiskTypes'
    BY <1>7, <2>a, <1>0, CurType, JobTypes, AnswerType, Kept DEF CompareHash, GoTo, Answered, Done, DiskTypes, disk
  <2>5. Placed'
    BY <1>7, <2>a, <1>0, OutType, RequestType, ReturnType, FrameTypes DEF CompareHash, GoTo, Answered, Done, Placed, lists
  <2> QED
    BY <2>1, <2>2, <2>3, <2>4, <2>5
<1>8. CASE Fetch
  <2>a. cur \in Files
    BY <1>8, CurType DEF Fetch, Placed, Answered
  <2>b. Command("get_file", cur) \in LegalCommands
    BY <2>a, FrameTypes
  <2>1. NetTypes'
    BY <1>8, <2>a, <2>b, <1>0, OutType, RequestType, ReturnType, FrameTypes, AnswerType, Kept DEF Fetch, NetTypes
  <2>2. ClientTypes'
    BY <1>8, <2>a, <2>b, <1>0, OutType, RequestType, ReturnType, FrameTypes, Kept DEF Fetch, ClientTypes, Waiting
  <2>3. ListTypes'
    BY <1>8, <2>a, <2>b, <1>0, CurType, OutType, AnswerType, Kept DEF Fetch, ListTypes
  <2>4. DiskTypes'
    BY <1>8, <2>a, <2>b, <1>0, CurType, JobTypes, AnswerType, Kept DEF Fetch, DiskTypes, disk
  <2>5. Placed'
    BY <1>8, <2>a, <2>b, <1>0, OutType, RequestType, ReturnType, FrameTypes DEF Fetch, Placed, lists
  <2> QED
    BY <2>1, <2>2, <2>3, <2>4, <2>5
<1>9. CASE NoTemp
  <2>a. cur \in Files
    BY <1>9, CurType DEF NoTemp, FileError, NextBlock, GoTo, Placed, Answered
  <2>1. NetTypes'
    BY <1>9, <2>a, <1>0, OutType, RequestType, ReturnType, FrameTypes, AnswerType, Kept DEF NoTemp, FileError, NextBlock, GoTo, NetTypes
  <2>2. ClientTypes'
    BY <1>9, <2>a, <1>0, OutType, RequestType, ReturnType, FrameTypes, Kept DEF NoTemp, FileError, NextBlock, GoTo, ClientTypes, Waiting
  <2>3. ListTypes'
    BY <1>9, <2>a, <1>0, CurType, OutType, AnswerType, Kept DEF NoTemp, FileError, NextBlock, GoTo, ListTypes
  <2>4. DiskTypes'
    BY <1>9, <2>a, <1>0, CurType, JobTypes, AnswerType, Kept DEF NoTemp, FileError, NextBlock, GoTo, DiskTypes, disk
  <2>5. Placed'
    BY <1>9, <2>a, <1>0, OutType, RequestType, ReturnType, FrameTypes DEF NoTemp, FileError, NextBlock, GoTo, Placed, lists
  <2> QED
    BY <2>1, <2>2, <2>3, <2>4, <2>5
<1>10. CASE Fetched
  <2>a. cur \in Files /\ Temp(cur) \in Files
    BY <1>10, CurType, JobTypes DEF Fetched, Keep, Done, GoTo, Answered, Placed, Answered
  <2>b. Answer.hash \in Contents
    BY <1>10, AnswerType DEF Fetched, Keep, Done, GoTo, Answered, LegalAnswers, Answered
  <2>1. NetTypes'
    <3>1. s2c[try] # <<>>
      BY <1>10 DEF Fetched, Answered
    <3>2. CASE c2s' = Sends(c2s, try, Simple("ack")) /\ TakeAnswer /\ UNCHANGED up
      BY <3>1, <3>2, SendsType, AnswerType DEF NetTypes
    <3>3. CASE Out(TRUE)
      BY <3>3, OutType
    <3> QED
      BY <1>10, <3>2, <3>3 DEF Fetched
  <2>2. ClientTypes'
    BY <1>10, <2>a, <2>b, <1>0, OutType, RequestType, ReturnType, FrameTypes, Kept DEF Fetched, Keep, Done, GoTo, Answered, ClientTypes, Waiting
  <2>3. ListTypes'
    <3>1. <<cur>> \o files \in Seq(Files)
      BY <2>a DEF ListTypes
    <3>2. CASE UNCHANGED lists
      BY <3>2, Kept
    <3>3. CASE got' = [got EXCEPT ![cur] = Answer.hash] /\ Keep
      BY <2>a, <2>b, <3>1, <3>3 DEF Keep, Done, ListTypes
    <3> QED
      BY <1>10, <3>2, <3>3 DEF Fetched
  <2>4. DiskTypes'
    BY <1>10, <2>a, <2>b, <1>0, CurType, JobTypes, AnswerType, Kept DEF Fetched, Keep, Done, GoTo, Answered, DiskTypes, disk
  <2>5. Placed'
    BY <1>10, <2>a, <2>b, <1>0, OutType, RequestType, ReturnType, FrameTypes DEF Fetched, Keep, Done, GoTo, Answered, Placed, lists
  <2> QED
    BY <2>1, <2>2, <2>3, <2>4, <2>5
<1>11. CASE Mismatch
  <2>a. cur \in Files /\ Temp(cur) \in Files
    BY <1>11, CurType, JobTypes DEF Mismatch, NextBlock, GoTo, Answered, Placed, Answered
  <2>b. Answer.hash \in Contents
    BY <1>11, AnswerType DEF Mismatch, NextBlock, GoTo, Answered, LegalAnswers, Answered
  <2>1. NetTypes'
    <3>1. s2c[try] # <<>>
      BY <1>11 DEF Mismatch, Answered
    <3>2. CASE c2s' = Sends(c2s, try, Simple("nack")) /\ TakeAnswer /\ UNCHANGED up
      BY <3>1, <3>2, SendsType, AnswerType DEF NetTypes
    <3>3. CASE Out(FALSE)
      BY <3>3, OutType
    <3> QED
      BY <1>11, <3>2, <3>3 DEF Mismatch
  <2>2. ClientTypes'
    BY <1>11, <2>a, <2>b, <1>0, OutType, RequestType, ReturnType, FrameTypes, Kept DEF Mismatch, NextBlock, GoTo, Answered, ClientTypes, Waiting
  <2>3. ListTypes'
    BY <1>11, <2>a, <2>b, <1>0, CurType, OutType, AnswerType, Kept DEF Mismatch, NextBlock, GoTo, Answered, ListTypes
  <2>4. DiskTypes'
    BY <1>11, <2>a, <2>b, <1>0, CurType, JobTypes, AnswerType, Kept DEF Mismatch, NextBlock, GoTo, Answered, DiskTypes, disk
  <2>5. Placed'
    BY <1>11, <2>a, <2>b, <1>0, OutType, RequestType, ReturnType, FrameTypes DEF Mismatch, NextBlock, GoTo, Answered, Placed, lists
  <2> QED
    BY <2>1, <2>2, <2>3, <2>4, <2>5
<1>12. CASE NotWritten
  <2>a. cur \in Files
    BY <1>12, CurType DEF NotWritten, NextBlock, GoTo, Answered, Placed, Answered
  <2>1. NetTypes'
    <3>1. s2c[try] # <<>>
      BY <1>12 DEF NotWritten, Answered
    <3>2. [s2c EXCEPT ![try] = <<Simple("rest")>> \o Tail(@)] \in [Attempts -> Seq(LegalAnswers)]
      BY <1>0, <3>1, ChannelType, FrameTypes DEF NetTypes
    <3>3. CASE /\ UNCHANGED up
               /\ \/ TakeAnswer /\ UNCHANGED c2s
                  \/ /\ s2c' = [s2c EXCEPT ![try] = <<Simple("rest")>> \o Tail(@)]
                     /\ UNCHANGED c2s
                  \/ TakeAnswer /\ c2s' = Sends(c2s, try, Simple("nack"))
      BY <3>1, <3>2, <3>3, SendsType, AnswerType DEF NetTypes
    <3>4. CASE Out(FALSE)
      BY <3>4, OutType
    <3> QED
      BY <1>12, <3>3, <3>4 DEF NotWritten
  <2>2. ClientTypes'
    BY <1>12, <2>a, <1>0, OutType, RequestType, ReturnType, FrameTypes, Kept DEF NotWritten, NextBlock, GoTo, Answered, ClientTypes, Waiting
  <2>3. ListTypes'
    BY <1>12, <2>a, <1>0, CurType, OutType, AnswerType, Kept DEF NotWritten, NextBlock, GoTo, Answered, ListTypes
  <2>4. DiskTypes'
    BY <1>12, <2>a, <1>0, CurType, JobTypes, AnswerType, Kept DEF NotWritten, NextBlock, GoTo, Answered, DiskTypes, disk
  <2>5. Placed'
    BY <1>12, <2>a, <1>0, OutType, RequestType, ReturnType, FrameTypes DEF NotWritten, NextBlock, GoTo, Answered, Placed, lists
  <2> QED
    BY <2>1, <2>2, <2>3, <2>4, <2>5
<1>13. CASE Copy
  <2>a. cur \in Files
    BY <1>13, CurType DEF Copy, CopyTo, GoTo, Placed, Answered
  <2>1. NetTypes'
    BY <1>13, <2>a, <1>0, OutType, RequestType, ReturnType, FrameTypes, AnswerType, Kept DEF Copy, CopyTo, GoTo, NetTypes
  <2>2. ClientTypes'
    BY <1>13, <2>a, <1>0, OutType, RequestType, ReturnType, FrameTypes, Kept DEF Copy, CopyTo, GoTo, ClientTypes, Waiting
  <2>3. ListTypes'
    BY <1>13, <2>a, <1>0, CurType, OutType, AnswerType, Kept DEF Copy, CopyTo, GoTo, ListTypes
  <2>4. DiskTypes'
    BY <1>13, <2>a, <1>0, CurType, JobTypes, AnswerType, Kept DEF Copy, CopyTo, GoTo, DiskTypes, disk
  <2>5. Placed'
    BY <1>13, <2>a, <1>0, OutType, RequestType, ReturnType, FrameTypes DEF Copy, CopyTo, GoTo, Placed, lists
  <2> QED
    BY <2>1, <2>2, <2>3, <2>4, <2>5
<1>14. CASE Delete
  <2>a. cur \in Files
    BY <1>14, CurType DEF Delete, Placed, Answered
  <2>b. Command("delete", cur) \in LegalCommands
    BY <2>a, FrameTypes
  <2>1. NetTypes'
    BY <1>14, <2>a, <2>b, <1>0, OutType, RequestType, ReturnType, FrameTypes, AnswerType, Kept DEF Delete, NetTypes
  <2>2. ClientTypes'
    BY <1>14, <2>a, <2>b, <1>0, OutType, RequestType, ReturnType, FrameTypes, Kept DEF Delete, ClientTypes, Waiting
  <2>3. ListTypes'
    BY <1>14, <2>a, <2>b, <1>0, CurType, OutType, AnswerType, Kept DEF Delete, ListTypes
  <2>4. DiskTypes'
    BY <1>14, <2>a, <2>b, <1>0, CurType, JobTypes, AnswerType, Kept DEF Delete, DiskTypes, disk
  <2>5. Placed'
    BY <1>14, <2>a, <2>b, <1>0, OutType, RequestType, ReturnType, FrameTypes DEF Delete, Placed, lists
  <2> QED
    BY <2>1, <2>2, <2>3, <2>4, <2>5
<1>15. CASE Deleted
  <2>a. cur \in Files
    BY <1>15, CurType DEF Deleted, Done, GoTo, Answered, Placed, Answered
  <2>1. NetTypes'
    BY <1>15, <2>a, <1>0, OutType, RequestType, ReturnType, FrameTypes, AnswerType, Kept DEF Deleted, Done, GoTo, Answered, NetTypes
  <2>2. ClientTypes'
    BY <1>15, <2>a, <1>0, OutType, RequestType, ReturnType, FrameTypes, Kept DEF Deleted, Done, GoTo, Answered, ClientTypes, Waiting
  <2>3. ListTypes'
    BY <1>15, <2>a, <1>0, CurType, OutType, AnswerType, Kept DEF Deleted, Done, GoTo, Answered, ListTypes
  <2>4. DiskTypes'
    BY <1>15, <2>a, <1>0, CurType, JobTypes, AnswerType, Kept DEF Deleted, Done, GoTo, Answered, DiskTypes, disk
  <2>5. Placed'
    BY <1>15, <2>a, <1>0, OutType, RequestType, ReturnType, FrameTypes DEF Deleted, Done, GoTo, Answered, Placed, lists
  <2> QED
    BY <2>1, <2>2, <2>3, <2>4, <2>5
<1>16. CASE AllListed
  <2>1. NetTypes'
    BY <1>16, <1>0, OutType, RequestType, ReturnType, FrameTypes, AnswerType, Kept DEF AllListed, GoTo, NetTypes
  <2>2. ClientTypes'
    BY <1>16, <1>0, OutType, RequestType, ReturnType, FrameTypes, Kept DEF AllListed, GoTo, ClientTypes, Waiting
  <2>3. ListTypes'
    BY <1>16, <1>0, CurType, OutType, AnswerType, Kept DEF AllListed, GoTo, ListTypes
  <2>4. DiskTypes'
    BY <1>16, <1>0, CurType, JobTypes, AnswerType, Kept DEF AllListed, GoTo, DiskTypes, disk
  <2>5. Placed'
    BY <1>16, <1>0, OutType, RequestType, ReturnType, FrameTypes DEF AllListed, GoTo, Placed, lists
  <2> QED
    BY <2>1, <2>2, <2>3, <2>4, <2>5
<1>17. CASE CommitCopy
  <2>1. NetTypes'
    BY <1>17, <1>0, OutType, RequestType, ReturnType, FrameTypes, AnswerType, Kept DEF CommitCopy, CopyTo, GoTo, NetTypes
  <2>2. ClientTypes'
    BY <1>17, <1>0, OutType, RequestType, ReturnType, FrameTypes, Kept DEF CommitCopy, CopyTo, GoTo, ClientTypes, Waiting
  <2>3. ListTypes'
    <3>1. files \in Seq(Files) /\ files # <<>> /\ missed \subseteq Files
      BY <1>17 DEF CommitCopy, ListTypes
    <3>2. Head(files) \in Files /\ Tail(files) \in Seq(Files)
      BY <3>1
    <3>3. missed' \subseteq Files
      BY <1>17, <3>1, <3>2 DEF CommitCopy, CopyTo
    <3>4. files' \in Seq(Files) /\ UNCHANGED <<todo, listed, got>>
      BY <1>17, <3>1, <3>2 DEF CommitCopy
    <3> QED
      BY <3>3, <3>4 DEF ListTypes
  <2>4. DiskTypes'
    BY <1>17, <1>0, CurType, JobTypes, AnswerType, Kept DEF CommitCopy, CopyTo, GoTo, DiskTypes, disk
  <2>5. Placed'
    BY <1>17, <1>0, OutType, RequestType, ReturnType, FrameTypes DEF CommitCopy, CopyTo, GoTo, Placed, lists
  <2> QED
    BY <2>1, <2>2, <2>3, <2>4, <2>5
<1>18. CASE CommitDelete
  <2>a. Head(files) \in Files
    BY <1>18 DEF CommitDelete, Placed, ListTypes
  <2>b. Command("delete", Head(files)) \in LegalCommands
    BY <2>a, FrameTypes
  <2>1. NetTypes'
    BY <1>18, <2>a, <2>b, <1>0, OutType, RequestType, ReturnType, FrameTypes, AnswerType, Kept DEF CommitDelete, NetTypes
  <2>2. ClientTypes'
    BY <1>18, <2>a, <2>b, <1>0, OutType, RequestType, ReturnType, FrameTypes, Kept DEF CommitDelete, ClientTypes, Waiting
  <2>3. ListTypes'
    BY <1>18, <2>a, <2>b, <1>0, CurType, OutType, AnswerType, Kept DEF CommitDelete, ListTypes
  <2>4. DiskTypes'
    BY <1>18, <2>a, <2>b, <1>0, CurType, JobTypes, AnswerType, Kept DEF CommitDelete, DiskTypes, disk
  <2>5. Placed'
    BY <1>18, <2>a, <2>b, <1>0, OutType, RequestType, ReturnType, FrameTypes DEF CommitDelete, Placed, lists
  <2> QED
    BY <2>1, <2>2, <2>3, <2>4, <2>5
<1>19. CASE CommitDeleted
  <2>1. NetTypes'
    BY <1>19, <1>0, OutType, RequestType, ReturnType, FrameTypes, AnswerType, Kept DEF CommitDeleted, GoTo, NetTypes
  <2>2. ClientTypes'
    BY <1>19, <1>0, OutType, RequestType, ReturnType, FrameTypes, Kept DEF CommitDeleted, GoTo, ClientTypes, Waiting
  <2>3. ListTypes'
    <3>1. Tail(files) \in Seq(Files)
      BY <1>19 DEF CommitDeleted, ListTypes, Placed
    <3> QED
      BY <1>19, <3>1 DEF CommitDeleted, ListTypes
  <2>4. DiskTypes'
    BY <1>19, <1>0, CurType, JobTypes, AnswerType, Kept DEF CommitDeleted, GoTo, DiskTypes, disk
  <2>5. Placed'
    BY <1>19, <1>0, OutType, RequestType, ReturnType, FrameTypes DEF CommitDeleted, GoTo, Placed, lists
  <2> QED
    BY <2>1, <2>2, <2>3, <2>4, <2>5
<1>20. CASE Committed
  <2>1. NetTypes'
    BY <1>20, <1>0, OutType, RequestType, ReturnType, FrameTypes, AnswerType, Kept DEF Committed, GoTo, NetTypes
  <2>2. ClientTypes'
    BY <1>20, <1>0, OutType, RequestType, ReturnType, FrameTypes, Kept DEF Committed, GoTo, ClientTypes, Waiting
  <2>3. ListTypes'
    BY <1>20, <1>0, CurType, OutType, AnswerType, Kept DEF Committed, GoTo, ListTypes
  <2>4. DiskTypes'
    BY <1>20, <1>0, CurType, JobTypes, AnswerType, Kept DEF Committed, GoTo, DiskTypes, disk
  <2>5. Placed'
    BY <1>20, <1>0, OutType, RequestType, ReturnType, FrameTypes DEF Committed, GoTo, Placed, lists
  <2> QED
    BY <2>1, <2>2, <2>3, <2>4, <2>5
<1>21. CASE Sync
  <2>1. NetTypes'
    BY <1>21, <1>0, OutType, RequestType, ReturnType, FrameTypes, AnswerType, Kept DEF Sync, End, NetTypes
  <2>2. ClientTypes'
    BY <1>21, <1>0, OutType, RequestType, ReturnType, FrameTypes, Kept DEF Sync, End, ClientTypes, Waiting
  <2>3. ListTypes'
    BY <1>21, <1>0, CurType, OutType, AnswerType, Kept DEF Sync, End, ListTypes
  <2>4. DiskTypes'
    BY <1>21, <1>0, CurType, JobTypes, AnswerType, Kept DEF Sync, End, DiskTypes, disk
  <2>5. Placed'
    <3>1. cpc' \in {"wait_sync", "done", "connect"}
      <4>1. CASE Request(Simple("enum"), "wait_sync")
        BY <4>1, RequestType, FrameTypes
      <4>2. CASE End
        BY <4>2, ReturnType DEF End
      <4> QED
        BY <1>21, <4>1, <4>2 DEF Sync
    <3> QED
      BY <3>1 DEF Placed
  <2> QED
    BY <2>1, <2>2, <2>3, <2>4, <2>5
<1>22. CASE SyncDelete(FALSE) \/ SyncDelete(TRUE)
  <2>a. PICK over \in SUBSET Files :
          /\ missed' = missed \cup over
          /\ dest' = [f \in Files |->
                       IF f \in Answer.files \cup over THEN dest[f] ELSE NoFile]
    BY <1>22, SyncDeletes
  <2>b. /\ Answered("wait_sync", "list") /\ End
        /\ UNCHANGED <<job, source, todo, files, listed, got, temp, asked, commits, spc>>
    BY <1>22, SyncDeletes
  <2>1. NetTypes'
    BY <1>0, <2>b, ReturnType DEF End, NetTypes
  <2>2. ClientTypes'
    BY <1>0, <2>b, ReturnType DEF End, ClientTypes
  <2>3. ListTypes'
    BY <2>a, <2>b DEF ListTypes
  <2>4. DiskTypes'
    BY <2>a, <2>b DEF DiskTypes
  <2>5. Placed'
    BY <1>0, <2>b, ReturnType DEF End, Placed
  <2> QED
    BY <2>1, <2>2, <2>3, <2>4, <2>5
<1>23. CASE NoSearch(FALSE) \/ NoSearch(TRUE)
  <2>1. NetTypes'
    BY <1>23, <1>0, OutType, RequestType, ReturnType, FrameTypes, AnswerType, Kept DEF NoSearch, NetTypes
  <2>2. ClientTypes'
    BY <1>23, <1>0, OutType, RequestType, ReturnType, FrameTypes, Kept DEF NoSearch, ClientTypes, Waiting
  <2>3. ListTypes'
    BY <1>23, <1>0, CurType, OutType, AnswerType, Kept DEF NoSearch, ListTypes
  <2>4. DiskTypes'
    BY <1>23, <1>0, CurType, JobTypes, AnswerType, Kept DEF NoSearch, DiskTypes, disk
  <2>5. Placed'
    BY <1>23, <1>0, OutType, RequestType, ReturnType, FrameTypes DEF NoSearch, Placed, lists
  <2> QED
    BY <2>1, <2>2, <2>3, <2>4, <2>5
<1>24. CASE Refused
  <2>1. NetTypes'
    BY <1>24, <1>0, OutType, RequestType, ReturnType, FrameTypes, AnswerType, Kept DEF Refused, NetTypes
  <2>2. ClientTypes'
    BY <1>24, <1>0, OutType, RequestType, ReturnType, FrameTypes, Kept DEF Refused, ClientTypes, Waiting
  <2>3. ListTypes'
    BY <1>24, <1>0, CurType, OutType, AnswerType, Kept DEF Refused, ListTypes
  <2>4. DiskTypes'
    BY <1>24, <1>0, CurType, JobTypes, AnswerType, Kept DEF Refused, DiskTypes, disk
  <2>5. Placed'
    BY <1>24, <1>0, OutType, RequestType, ReturnType, FrameTypes DEF Refused, Placed, lists
  <2> QED
    BY <2>1, <2>2, <2>3, <2>4, <2>5
<1>25. CASE NoAnswer(FALSE) \/ NoAnswer(TRUE)
  <2>1. NetTypes'
    BY <1>25, <1>0, OutType, RequestType, ReturnType, FrameTypes, AnswerType, Kept DEF NoAnswer, NetTypes
  <2>2. ClientTypes'
    BY <1>25, <1>0, OutType, RequestType, ReturnType, FrameTypes, Kept DEF NoAnswer, ClientTypes, Waiting
  <2>3. ListTypes'
    BY <1>25, <1>0, CurType, OutType, AnswerType, Kept DEF NoAnswer, ListTypes
  <2>4. DiskTypes'
    BY <1>25, <1>0, CurType, JobTypes, AnswerType, Kept DEF NoAnswer, DiskTypes, disk
  <2>5. Placed'
    BY <1>25, <1>0, OutType, RequestType, ReturnType, FrameTypes DEF NoAnswer, Placed, lists
  <2> QED
    BY <2>1, <2>2, <2>3, <2>4, <2>5
<1>26. CASE Shutdown
  <2>1. NetTypes'
    BY <1>26, <1>0, OutType, RequestType, ReturnType, FrameTypes, AnswerType, Kept DEF Shutdown, NetTypes
  <2>2. ClientTypes'
    BY <1>26, <1>0, OutType, RequestType, ReturnType, FrameTypes, Kept DEF Shutdown, ClientTypes, Waiting
  <2>3. ListTypes'
    BY <1>26, <1>0, CurType, OutType, AnswerType, Kept DEF Shutdown, ListTypes
  <2>4. DiskTypes'
    BY <1>26, <1>0, CurType, JobTypes, AnswerType, Kept DEF Shutdown, DiskTypes, disk
  <2>5. Placed'
    BY <1>26, <1>0, OutType, RequestType, ReturnType, FrameTypes DEF Shutdown, Placed, lists
  <2> QED
    BY <2>1, <2>2, <2>3, <2>4, <2>5
<1> QED
  BY <1>1, <1>2, <1>3, <1>4, <1>5, <1>6, <1>7, <1>8, <1>9, <1>10, <1>11, <1>12, <1>13, <1>14, <1>15, <1>16, <1>17, <1>18, <1>19, <1>20, <1>21, <1>22, <1>23, <1>24, <1>25, <1>26 DEF Client

-----------------------------------------------------------------------------
(* The steps of a session and of the environment leave the client, its     *)
(* lists and its files alone.                                              *)

LEMMA ReplyType ==
  ASSUME IType, NEW k \in Attempts, c2s[k] # <<>>,
         NEW m \in LegalAnswers, NEW s \in {"idle", "ack"}, Reply(k, m, s)
  PROVE  NetTypes' /\ SessionTypes'
<1>1. /\ Sends(s2c, k, m) \in [Attempts -> Seq(LegalAnswers)]
      /\ [c2s EXCEPT ![k] = Tail(@)] \in [Attempts -> Seq(LegalCommands)]
      /\ [c2s EXCEPT ![k] = <<>>] \in [Attempts -> Seq(LegalCommands)]
  BY ChannelType DEF IType, NetTypes
<1>2. NetTypes'
  BY <1>1 DEF Reply, TakeInput, IType, NetTypes
<1>3. SessionTypes'
  BY DEF Reply, Goto, IType, SessionTypes
<1> QED
  BY <1>2, <1>3

LEMMA InputType ==
  ASSUME IType, NEW k \in Attempts, c2s[k] # <<>>
  PROVE  /\ Input(k) \in LegalCommands
         /\ TakeInput(k) => c2s' \in [Attempts -> Seq(LegalCommands)]
         /\ Input(k).kind \in {"get_hash", "get_file", "delete"} => InputFile(k) \in Files
<1>1. /\ Head(c2s[k]) \in LegalCommands
      /\ [c2s EXCEPT ![k] = Tail(@)] \in [Attempts -> Seq(LegalCommands)]
  BY ChannelType DEF IType, NetTypes
<1> QED
  BY <1>1 DEF Input, TakeInput, InputFile, LegalCommands

LEMMA SessionStep ==
  ASSUME IType, NEW k \in Attempts,
         Session(k) \/ SrvError(k) \/ SrvEnumCut(k) \/ SrvGetFileChanged(k) \/ Break(k)
  PROVE  NetTypes' /\ SessionTypes' /\ SourceTypes'
<1>1. CASE SrvEnum(k)
  <2>1. List(there) \in LegalAnswers
    BY FrameTypes DEF List, there
  <2> QED
    BY <1>1, <2>1, ReplyType, FrameTypes, Kept DEF SrvEnum, Has
<1>10. CASE SrvEnumCut(k)
  <2>1. PICK part \in SUBSET Files : /\ touched' = touched \cup (there \ part) /\ src' = src
                                     /\ Reply(k, List(part), "idle")
    BY <1>10 DEF SrvEnumCut, there
  <2>2. SourceTypes'
    BY <2>1 DEF IType, SourceTypes, there
  <2>3. NetTypes' /\ SessionTypes'
    BY <1>10, <2>1, ReplyType, FrameTypes DEF SrvEnumCut, Has, List
  <2> QED
    BY <2>2, <2>3
<1>2. CASE SrvGetHash(k)
  <2>1. InputFile(k) \in Files
    BY <1>2, InputType DEF SrvGetHash, Has
  <2>2. src[InputFile(k)] # NoFile =>
          Frame("hash", {InputFile(k)}, src[InputFile(k)], NoFile) \in LegalAnswers
    BY <2>1, FrameTypes DEF IType, SourceTypes
  <2> QED
    BY <1>2, <2>2, ReplyType, FrameTypes, Kept DEF SrvGetHash, Has
<1>3. CASE SrvGetFile(k)
  <2>1. InputFile(k) \in Files
    BY <1>3, InputType DEF SrvGetFile, Has
  <2>2. src[InputFile(k)] # NoFile =>
          Frame("file", {InputFile(k)}, src[InputFile(k)], src[InputFile(k)]) \in LegalAnswers
    BY <2>1, FrameTypes DEF IType, SourceTypes
  <2> QED
    BY <1>3, <2>2, ReplyType, FrameTypes, Kept DEF SrvGetFile, Has
<1>4. CASE SrvAck(k)
  <2>1. SessionTypes'
    BY <1>4 DEF SrvAck, Goto, IType, SessionTypes
  <2>2. NetTypes'
    BY <1>4, InputType DEF SrvAck, IType, NetTypes
  <2> QED
    BY <1>4, <2>1, <2>2, Kept DEF SrvAck
<1>5. CASE SrvDelete(k)
  <2>1. NetTypes' /\ SessionTypes'
    BY <1>5, ReplyType, FrameTypes DEF SrvDelete, Has
  <2>2. SourceTypes'
    BY <1>5 DEF SrvDelete, IType, SourceTypes
  <2> QED
    BY <2>1, <2>2
<1>6. CASE SrvGiveUp(k)
  <2>1. SessionTypes'
    BY <1>6 DEF SrvGiveUp, Goto, IType, SessionTypes
  <2> QED
    BY <1>6, <2>1, Kept DEF SrvGiveUp
<1>7. CASE SrvError(k)
  BY <1>7, ReplyType, FrameTypes, Kept DEF SrvError
<1>8. CASE SrvGetFileChanged(k)
  <2>1. InputFile(k) \in Files
    BY <1>8, InputType DEF SrvGetFileChanged, Has
  <2>2. PICK c \in Contents \ {src[InputFile(k)]} :
          /\ src' = [src EXCEPT ![InputFile(k)] = c] /\ touched' = touched \cup {InputFile(k)}
          /\ Reply(k, Frame("file", {InputFile(k)}, src[InputFile(k)], c), "ack")
    BY <1>8 DEF SrvGetFileChanged
  <2>3. src[InputFile(k)] \in Contents
    BY <1>8, <2>1 DEF SrvGetFileChanged, IType, SourceTypes
  <2>4. SourceTypes'
    BY <2>1, <2>2 DEF IType, SourceTypes
  <2>5. NetTypes' /\ SessionTypes'
    BY <1>8, <2>1, <2>2, <2>3, ReplyType, FrameTypes DEF SrvGetFileChanged, Has
  <2> QED
    BY <2>4, <2>5
<1>9. CASE Break(k)
  <2>1. /\ [s2c EXCEPT ![k] = <<>>] \in [Attempts -> Seq(LegalAnswers)]
        /\ [c2s EXCEPT ![k] = <<>>] \in [Attempts -> Seq(LegalCommands)]
    BY ChannelType DEF IType, NetTypes
  <2>2. NetTypes'
    BY <1>9, <2>1 DEF Break, IType, NetTypes
  <2> QED
    BY <1>9, <2>2, Kept DEF Break
<1> QED
  BY <1>1, <1>2, <1>3, <1>4, <1>5, <1>6, <1>7, <1>8, <1>9, <1>10 DEF Session

\* What a step of each actor leaves alone.
LEMMA ClientFrame ==
  ASSUME IType,
         \/ Client \/ ConnectFail \/ NoDirectory \/ CompareHash(TRUE) \/ NoTemp \/ NotWritten
         \/ SyncDelete(TRUE) \/ NoSearch(TRUE) \/ NoAnswer(TRUE) \/ Shutdown
  PROVE  /\ job' = job /\ faults' \in 0..MaxFaults
         /\ UNCHANGED source /\ SessionTypes'
<1>1. CASE Connect
  <2>1. SessionTypes'
    BY <1>1 DEF Connect, IType, SessionTypes
  <2> QED
    BY <1>1, <2>1 DEF Connect, IType
<1>2. CASE ~Connect
  <2>1. job' = job /\ UNCHANGED source /\ UNCHANGED spc
    BY <1>2 DEF Client, ConnectFail, NoDirectory, CompareHash, NoTemp, NotWritten, NoSearch,
      NoAnswer, Shutdown, Begin, Listed, NextFile, Fetch, Fetched, Mismatch, Copy, Delete,
      Deleted, AllListed, CommitCopy, CommitDelete, CommitDeleted, Committed, Sync, SyncDelete,
      Refused
  <2>2. UNCHANGED faults \/ Fault
    BY <1>2, SyncDeletes DEF Client, ConnectFail, NoDirectory, CompareHash, NoTemp, NotWritten, NoSearch,
      NoAnswer, Shutdown, Begin, Listed, NextFile, Fetch, Fetched, Mismatch, Copy, Delete,
      Deleted, AllListed, CommitCopy, CommitDelete, CommitDeleted, Committed, Sync, Refused,
      CopyTo
  <2>3. faults' \in 0..MaxFaults
    BY <2>2, ConstantTypes DEF Fault, IType
  <2> QED
    BY <2>1, <2>3, Kept
<1> QED
  BY <1>1, <1>2

LEMMA SessionFrame ==
  ASSUME IType, NEW k \in Attempts,
         Session(k) \/ SrvError(k) \/ SrvEnumCut(k) \/ SrvGetFileChanged(k) \/ Break(k)
  PROVE  job' = job /\ faults' \in 0..MaxFaults /\ UNCHANGED <<lists, client, disk>>
<1>1. job' = job /\ UNCHANGED <<lists, client, disk>>
  BY DEF Session, SrvEnum, SrvGetHash, SrvGetFile, SrvAck, SrvDelete, SrvGiveUp, SrvError,
    SrvEnumCut, SrvGetFileChanged, Break
<1>2. UNCHANGED faults \/ Fault
  BY DEF Session, SrvEnum, SrvGetHash, SrvGetFile, SrvAck, SrvDelete, SrvGiveUp, SrvError,
    SrvEnumCut, SrvGetFileChanged, Break
<1> QED
  BY <1>1, <1>2, ConstantTypes DEF Fault, IType

LEMMA ITypeStep ==
  ASSUME IType, [Next]_vars
  PROVE  IType'
<1>1. CASE \/ Client \/ ConnectFail \/ NoDirectory \/ CompareHash(TRUE) \/ NoTemp \/ NotWritten
           \/ SyncDelete(TRUE) \/ NoSearch(TRUE) \/ NoAnswer(TRUE) \/ Shutdown
  <2>1. job' = job /\ faults' \in 0..MaxFaults /\ SourceTypes' /\ SessionTypes'
    BY <1>1, ClientFrame, Kept
  <2>2. NetTypes' /\ ClientTypes' /\ ListTypes' /\ DiskTypes' /\ Placed'
    BY <1>1, ClientStep
  <2> QED
    BY <2>1, <2>2 DEF IType
<1>2. ASSUME NEW k \in Attempts, Session(k) \/ SrvError(k) \/ SrvEnumCut(k) \/ SrvGetFileChanged(k) \/ Break(k)
      PROVE  IType'
  <2>1. NetTypes' /\ SessionTypes' /\ SourceTypes'
    BY <1>2, SessionStep
  <2>2. job' = job /\ faults' \in 0..MaxFaults /\ UNCHANGED <<lists, client, disk>>
    BY <1>2, SessionFrame
  <2>3. Placed'
    BY <2>2 DEF IType, Placed, lists, client
  <2> QED
    BY <2>1, <2>2, <2>3, Kept DEF IType
<1>3. CASE SourceChange
  <2>1. SourceTypes'
    BY <1>3 DEF SourceChange, IType, SourceTypes
  <2>2. job' = job /\ faults' \in 0..MaxFaults /\ UNCHANGED <<lists, client, disk, spc, net>>
    BY <1>3, ConstantTypes DEF SourceChange, Fault, IType
  <2>3. Placed'
    BY <2>2 DEF IType, Placed, lists, client
  <2> QED
    BY <2>1, <2>2, <2>3, Kept DEF IType
<1>4. CASE UNCHANGED vars
  <2>1. UNCHANGED <<job, faults, source, lists, client, disk, spc, net>>
    BY <1>4 DEF vars
  <2>2. Placed'
    BY <2>1 DEF IType, Placed, lists, client
  <2> QED
    BY <2>1, <2>2, Kept DEF IType
<1> QED
  BY <1>1, <1>2, <1>3, <1>4 DEF Next, Environment, Finished

LEMMA ITypeInit ==
  ASSUME Init
  PROVE  IType
<1>1. 1 \in Attempts
  BY ConstantTypes DEF Attempts
<1>2. SourceTypes
  BY DEF Init, SourceTypes
<1>3. ListTypes
  BY DEF Init, ListTypes
<1>4. ClientTypes /\ Placed
  BY <1>1 DEF Init, ClientTypes, Placed
<1>5. SessionTypes
  BY DEF Init, SessionTypes
<1>6. DiskTypes
  BY DEF Init, DiskTypes
<1>7. NetTypes
  BY DEF Init, NetTypes
<1> QED
  BY <1>2, <1>3, <1>4, <1>5, <1>6, <1>7, ConstantTypes DEF Init, IType

LEMMA ITypeTypeOK ==
  ASSUME IType
  PROVE  TypeOK
<1>1. LegalCommands \subseteq Commands /\ LegalAnswers \subseteq Answers
  BY DEF LegalCommands, LegalAnswers
<1>2. c2s \in [Attempts -> Seq(Commands)] /\ s2c \in [Attempts -> Seq(Answers)]
  BY <1>1 DEF IType, NetTypes
<1>3. temp \in [Files -> Contents \cup {NoFile, Mixed}]
  BY DEF IType, DiskTypes
<1> QED
  BY <1>2, <1>3 DEF IType, SourceTypes, ListTypes, ClientTypes, DiskTypes, NetTypes,
    SessionTypes, TypeOK

\* ReadJob never leaves its types: the client always has a current file where
\* it works on one, and a transaction a file where it deletes one (do_get_file
\* and the commands it uses).
THEOREM ReadTypeCorrect == Spec => []TypeOK
<1>1. Init => IType
  BY ITypeInit
<1>2. IType /\ [Next]_vars => IType'
  BY ITypeStep
<1>3. IType => TypeOK
  BY ITypeTypeOK
<1> QED
  BY <1>1, <1>2, <1>3, PTL DEF Spec

-----------------------------------------------------------------------------
(* The destinations change as StagedFiles says.  What may be copied, Held,  *)
(* only grows: a temporary file becomes a content just announced or goes,   *)
(* and what is announced stays so.                                          *)

LEMMA HeldGrows ==
  ASSUME IType, job' = job, \A g \in Files : asked[g] \subseteq asked'[g],
         NEW t \in Files, NEW c,
         \/ UNCHANGED temp
         \/ /\ temp' = [temp EXCEPT ![t] = c]
            /\ c = NoFile \/ \E g \in Files : Temp(g) = t /\ c \in asked'[g]
  PROVE  Held \subseteq Held'
<1>1. SUFFICES ASSUME NEW f \in Held PROVE f \in Held'
  OBVIOUS
<1>2. f \in Files /\ temp[Temp(f)] \in Known(f) \cup {NoFile} /\ Temp(f) \in Files
  BY JobTypes DEF Held
<1>3. \A g \in Files : Temp(g)' = Temp(g)
  BY DEF Temp
<1>4. Known(f) \subseteq Known(f)'
  BY <1>2, <1>3 DEF Known
<1>5. CASE UNCHANGED temp
  BY <1>2, <1>3, <1>4, <1>5 DEF Held
<1>6. CASE temp' = [temp EXCEPT ![t] = c] /\ Temp(f) # t
  BY <1>2, <1>3, <1>4, <1>6 DEF Held, IType, DiskTypes
<1>7. CASE temp' # temp /\ temp' = [temp EXCEPT ![t] = c] /\ Temp(f) = t
  <2>1. temp'[Temp(f)] = c
    BY <1>2, <1>7 DEF IType, DiskTypes
  <2>2. c = NoFile \/ c \in Known(f)'
    BY <1>2, <1>3, <1>7, ConstantTypes DEF Known
  <2> QED
    BY <1>2, <1>3, <2>1, <2>2 DEF Held
<1> QED
  BY <1>5, <1>6, <1>7

\* What StagedFiles has for known, and that its parts only grow.
LEMMA StagedTypes ==
  ASSUME IType
  PROVE  /\ \A f \in Files : Known(f) \subseteq Contents
         /\ Held \subseteq Files /\ Installing \in BOOLEAN
BY JobTypes DEF Known, Held, Installing, IType, DiskTypes

LEMMA CopyInstalls ==
  ASSUME IType, NEW f \in Held, CopyTo(f)
  PROVE  /\ UNCHANGED temp \/ temp' = [temp EXCEPT ![Temp(f)] = NoFile]
         /\ UNCHANGED dest \/ \E c \in Known(f) : dest' = [dest EXCEPT ![f] = c]
BY DEF CopyTo, Held

\* The places of the client where files are replaced or removed.
InstallPlaces == {"copy", "commit", "drop", "wait_drop", "sync", "wait_sync"}

LEMMA StagedInvKept ==
  ASSUME IType, StagedInv, job' = job, UNCHANGED disk,
         files' = files \/ (files # <<>> /\ files' = Tail(files)),
         cpc' = "copy" => cpc = "copy" /\ cur' = cur,
         cpc' \in InstallPlaces => cpc \in InstallPlaces
  PROVE  StagedInv'
<1>1. UNCHANGED <<temp, dest, asked, commits>>
  BY DEF disk
<1>2. Held' = Held /\ Installing' = Installing
  BY <1>1 DEF Held, Known, Temp, Installing
<1>3. files' \in Seq(Held)
  BY DEF StagedInv
<1>4. cpc' = "copy" => cur' \in Held
  BY DEF StagedInv
<1>5. cpc' \in InstallPlaces => Installing
  BY DEF StagedInv, InstallPlaces
<1> QED
  BY <1>2, <1>3, <1>4, <1>5 DEF StagedInv, InstallPlaces

LEMMA StagedInvStep ==
  ASSUME IType, IType', StagedInv, [Next]_vars
  PROVE  /\ StagedInv' /\ job' = job
         /\ \A g \in Files : asked[g] \subseteq asked'[g]
         /\ commits => commits'
         /\ commits' = commits \/ asked' = asked
         /\ \/ UNCHANGED dest
            \/ /\ Installing /\ UNCHANGED <<asked, commits>>
               /\ \/ \E f \in Files : \E c \in Known(f) : dest' = [dest EXCEPT ![f] = c]
                  \/ \E S \in SUBSET Files :
                       dest' = [g \in Files |-> IF g \in S THEN NoFile ELSE dest[g]]
<1>0. /\ \A f \in Files : Temp(f) \in Files
      /\ job.transaction \in BOOLEAN
  BY JobTypes
<1>1. CASE Connect
  <2>1. job' = job /\ UNCHANGED disk /\ files' = <<>> /\ cpc' = "begin"
    BY <1>1 DEF Connect, GoTo
  <2>2. files' \in Seq(Held')
    BY <2>1
  <2> QED
    BY <2>1, <2>2 DEF disk, StagedInv
<1>2. CASE Fetched
  <2>0. PICK f \in Files : f = cur /\ Temp(f) \in Files
    BY <1>0, <1>2, CurType DEF Fetched, Answered, IType, Placed
  <2>1. /\ job' = job
        /\ temp' = [temp EXCEPT ![Temp(f)] = Answer.hash]
        /\ asked' = [asked EXCEPT ![f] = @ \cup {Answer.hash}]
        /\ UNCHANGED <<dest, commits>>
    BY <1>2, <2>0 DEF Fetched
  <2>2. /\ \A g \in Files : asked[g] \subseteq asked'[g]
        /\ Answer.hash \in asked'[f]
    BY <2>1 DEF IType, DiskTypes
  <2>3. Held \subseteq Held'
    BY <2>0, <2>1, <2>2, HeldGrows
  <2>4. f \in Held'
    <3>1. temp'[Temp(f)'] = Answer.hash
      BY <2>0, <2>1 DEF IType, DiskTypes, Temp
    <3>2. Answer.hash \in Known(f)'
      BY <2>2 DEF Known
    <3> QED
      BY <3>1, <3>2 DEF Held
  <2>5. cpc' = "copy" => cur' = f /\ ~job.transaction
    BY <1>2, <2>0 DEF Fetched, Keep, Done, GoTo, Out, Return, cur
  <2>6. files' \in Seq(Held')
    <3>1. files' = files \/ files' = <<f>> \o files
      BY <1>2, <2>0 DEF Fetched, Keep, Done, lists
    <3>2. DEFINE H == Held'
    <3>3. files \in Seq(H) /\ <<f>> \in Seq(H)
      BY <2>3, <2>4 DEF StagedInv
    <3> HIDE DEF H
    <3>4. <<f>> \o files \in Seq(H)
      BY <3>3
    <3>5. files' \in Seq(H)
      BY <3>1, <3>3, <3>4
    <3> QED
      BY <3>5 DEF H
  <2>7. cpc' \in {"copy", "file", "done", "connect"}
    BY <1>2 DEF Fetched, Keep, Done, GoTo, Out, Return
  <2>8. StagedInv'
    BY <2>1, <2>4, <2>5, <2>6, <2>7 DEF Installing, StagedInv
  <2> QED
    BY <2>1, <2>2, <2>8
<1>3. CASE Mismatch
  <2>0. PICK f \in Files : f = cur /\ Temp(f) \in Files
    BY <1>0, <1>3, CurType DEF Mismatch, Answered, IType, Placed
  <2>1. /\ job' = job
        /\ temp' = [temp EXCEPT ![Temp(f)] = NoFile]
        /\ asked' = [asked EXCEPT ![f] = @ \cup {Answer.hash}]
        /\ UNCHANGED <<dest, commits, files>>
    BY <1>3, <2>0 DEF Mismatch, NextBlock, lists
  <2>2. \A g \in Files : asked[g] \subseteq asked'[g]
    BY <2>1 DEF IType, DiskTypes
  <2>3. Held \subseteq Held'
    BY <2>0, <2>1, <2>2, HeldGrows
  <2>4. files' \in Seq(Held')
    BY <2>1, <2>3 DEF StagedInv
  <2>5. cpc' \in {"file", "done", "connect"}
    BY <1>3 DEF Mismatch, NextBlock, GoTo, Out, Return
  <2> QED
    BY <2>1, <2>2, <2>4, <2>5 DEF StagedInv
<1>4. CASE Copy
  <2>0. PICK f \in Held : f = cur /\ f \in Files /\ Temp(f) \in Files
    BY <1>0, <1>4, StagedTypes DEF Copy, StagedInv
  <2>1. CopyTo(f) /\ job' = job /\ UNCHANGED <<asked, commits, files>>
    BY <1>4, <2>0 DEF Copy
  <2>2. Held \subseteq Held'
    BY <2>0, <2>1, CopyInstalls, HeldGrows
  <2>3. files' \in Seq(Held')
    BY <2>1, <2>2 DEF StagedInv
  <2>4. Installing /\ cpc' \in {"del", "file"}
    BY <1>4 DEF Copy, GoTo, StagedInv
  <2>5. StagedInv'
    BY <2>3, <2>4 DEF StagedInv
  <2> QED
    BY <2>0, <2>1, <2>4, <2>5, CopyInstalls
<1>5. CASE CommitCopy
  <2>0. PICK f \in Held : f = Head(files) /\ f \in Files /\ Temp(f) \in Files
    BY <1>0, <1>5, StagedTypes DEF CommitCopy, StagedInv
  <2>1. CopyTo(f) /\ job' = job /\ UNCHANGED <<asked, commits>>
    BY <1>5, <2>0 DEF CommitCopy
  <2>2. Held \subseteq Held'
    BY <2>0, <2>1, CopyInstalls, HeldGrows
  <2>3. files' \in Seq(Held')
    <3>1. files' \in Seq(Held)
      BY <1>5 DEF CommitCopy, StagedInv
    <3> QED
      BY <2>2, <3>1
  <2>4. Installing /\ cpc' \in {"drop", "commit"}
    BY <1>5 DEF CommitCopy, GoTo, StagedInv
  <2>5. StagedInv'
    BY <2>1, <2>3, <2>4 DEF StagedInv, Installing
  <2> QED
    BY <2>0, <2>1, <2>4, <2>5, CopyInstalls
<1>6. CASE AllListed
  <2>1. job' = job /\ UNCHANGED <<temp, dest, asked, files>> /\ (commits => commits')
    BY <1>6 DEF AllListed, lists
  <2>2. Held' = Held
    BY <2>1 DEF Held, Known, Temp
  <2>3. cpc' \in {"commit", "sync"} /\ Installing'
    BY <1>0, <1>6, <2>1 DEF AllListed, GoTo, Installing
  <2>4. StagedInv'
    BY <2>1, <2>2, <2>3 DEF StagedInv
  <2> QED
    BY <2>1, <2>4
<1>7. CASE SyncDelete(FALSE) \/ SyncDelete(TRUE)
  <2>0. PICK over \in SUBSET Files :
          dest' = [f \in Files |-> IF f \in Answer.files \cup over THEN dest[f] ELSE NoFile]
    BY <1>7, SyncDeletes
  <2>1. /\ job' = job /\ UNCHANGED <<temp, asked, commits, files>>
        /\ dest' = [f \in Files |->
                     IF f \in Files \ (Answer.files \cup over) THEN NoFile ELSE dest[f]]
    BY <1>7, <2>0, SyncDeletes
  <2>2. Held' = Held
    BY <2>1 DEF Held, Known, Temp
  <2>3. Installing /\ cpc' \in {"done", "connect"}
    BY <1>7, SyncDeletes DEF Answered, End, Return, StagedInv
  <2>4. StagedInv'
    BY <2>1, <2>2, <2>3 DEF StagedInv
  <2> QED
    BY <2>1, <2>3, <2>4
<1>8. CASE \/ Begin \/ Listed \/ NextFile \/ Fetch \/ Delete \/ Deleted
           \/ CompareHash(FALSE) \/ CompareHash(TRUE) \/ ConnectFail \/ NoDirectory \/ NoTemp
           \/ NotWritten
  <2>1. job' = job /\ UNCHANGED disk /\ files' = files
    BY <1>8 DEF Begin, Listed, NextFile, Fetch, Delete, Deleted, CompareHash, ConnectFail,
      NoDirectory, NoTemp, NotWritten, NextBlock, FileError, Done, lists
  <2>2. cpc' \notin InstallPlaces
    BY <1>8 DEF Begin, Listed, NextFile, Fetch, Delete, Deleted, CompareHash, ConnectFail,
      NoDirectory, NoTemp, NotWritten, NextBlock, FileError, Done, GoTo, Request, Out, Return,
      InstallPlaces
  <2>3. StagedInv'
    BY <2>1, <2>2, StagedInvKept DEF InstallPlaces
  <2> QED
    BY <2>1, <2>3 DEF disk
<1>9. CASE \/ CommitDelete \/ CommitDeleted \/ Committed \/ Sync \/ NoSearch(FALSE)
           \/ NoSearch(TRUE) \/ Refused \/ NoAnswer(FALSE) \/ NoAnswer(TRUE) \/ Shutdown
  <2>1. job' = job /\ UNCHANGED disk
    BY <1>9 DEF CommitDelete, CommitDeleted, Committed, Sync, NoSearch, Refused, NoAnswer,
      Shutdown
  <2>2. files' = files \/ (files # <<>> /\ files' = Tail(files))
    BY <1>9 DEF CommitDelete, CommitDeleted, Committed, Sync, NoSearch, Refused, NoAnswer,
      Shutdown, lists, IType, Placed
  <2>3. cpc' # "copy" /\ (cpc' \in InstallPlaces => cpc \in InstallPlaces)
    BY <1>9 DEF CommitDelete, CommitDeleted, Committed, Sync, NoSearch, Refused, NoAnswer,
      Shutdown, GoTo, Request, Out, Return, End, InstallPlaces
  <2>4. StagedInv'
    BY <2>1, <2>2, <2>3, StagedInvKept
  <2> QED
    BY <2>1, <2>4 DEF disk
<1>10. CASE UNCHANGED <<job, lists, client, disk>>
  <2>1. StagedInv'
    BY <1>10, StagedInvKept DEF lists, client, cur
  <2> QED
    BY <1>10, <2>1 DEF disk
<1>11. ASSUME NEW k \in Attempts, Session(k) \/ SrvError(k) \/ SrvEnumCut(k) \/ SrvGetFileChanged(k) \/ Break(k)
       PROVE  UNCHANGED <<job, lists, client, disk>>
  BY <1>11, SessionFrame
<1>12. SourceChange \/ UNCHANGED vars => UNCHANGED <<job, lists, client, disk>>
  BY DEF SourceChange, vars
<1> QED
  BY <1>1, <1>2, <1>3, <1>4, <1>5, <1>6, <1>7, <1>8, <1>9, <1>10, <1>11, <1>12
  DEF Next, Client, Environment, Finished

LEMMA StagedInit ==
  ASSUME Init
  PROVE  StagedInv /\ Staged!Init
<1>1. IType /\ job \in Jobs
  BY ITypeInit DEF Init
<1>2. Installing \in BOOLEAN
  BY <1>1, StagedTypes
<1>3. StagedInv
  BY DEF Init, StagedInv
<1>4. \A f \in Files : UNION {asked[g] : g \in {h \in Files : Temp(h) = Temp(f)}} = {}
  BY DEF Init
<1>5. [f \in Files |-> UNION {asked[g] : g \in {h \in Files : Temp(h) = Temp(f)}}]
        = [f \in Files |-> {}]
  BY <1>4
<1> QED
  BY <1>2, <1>3, <1>5 DEF Init, Staged!Init, Installing

LEMMA StagedStep ==
  ASSUME IType, IType', StagedInv, [Next]_vars
  PROVE  StagedInv' /\ [Staged!Next]_Staged!vars
<1> DEFINE known == [f \in Files |-> UNION {asked[g] : g \in {h \in Files : Temp(h) = Temp(f)}}]
<1>0. /\ \A f \in Files : known[f] = Known(f)
      /\ \A f \in Files : known'[f] = Known(f)'
      /\ known' \in [Files -> SUBSET Contents]
  <2>1. \A f \in Files : known[f] = Known(f) /\ known'[f] = Known(f)'
    BY DEF Known
  <2>2. \A f \in Files : Known(f)' \subseteq Contents
    BY DEF Known, IType, DiskTypes
  <2> QED
    BY <2>1, <2>2
<1>1. StagedInv' /\ job' = job
  BY StagedInvStep
<1>2. \A f \in Files : known[f] \subseteq known'[f]
  <2>1. \A g \in Files : asked[g] \subseteq asked'[g] /\ Temp(g)' = Temp(g)
    BY <1>1, StagedInvStep DEF Temp
  <2> QED
    BY <2>1
<1>3. CASE UNCHANGED dest /\ commits' = commits
  <2>1. Installing' = Installing
    BY <1>1, <1>3 DEF Installing
  <2>2. Staged!Announce
    BY <1>0, <1>2, <1>3, <2>1 DEF Staged!Announce, Installing
  <2> QED
    BY <1>1, <2>2 DEF Staged!Next
<1>4. CASE UNCHANGED dest /\ commits' # commits
  <2>1. asked' = asked /\ (commits => commits')
    BY <1>4, StagedInvStep
  <2>2. commits \in BOOLEAN /\ commits' \in BOOLEAN
    BY DEF IType, DiskTypes
  <2>3. Installing'
    BY <1>4, <2>1, <2>2 DEF Installing
  <2>4. known' = known
    BY <1>1, <2>1 DEF Temp
  <2>5. Staged!Open
    BY <1>4, <2>3, <2>4 DEF Staged!Open, Installing
  <2> QED
    BY <1>1, <2>5 DEF Staged!Next
<1>5. CASE dest' # dest
  <2>1. Installing /\ UNCHANGED <<asked, commits>>
    BY <1>5, StagedInvStep
  <2>2. known' = known /\ Installing' = Installing
    BY <1>1, <2>1 DEF Temp, Installing
  <2>3. CASE \E f \in Files : \E c \in Known(f) : dest' = [dest EXCEPT ![f] = c]
    <3>1. PICK f \in Files : \E c \in Known(f) : dest' = [dest EXCEPT ![f] = c]
      BY <2>3
    <3>2. Staged!Install(f)
      BY <1>0, <2>1, <2>2, <3>1 DEF Staged!Install, Installing
    <3> QED
      BY <1>1, <3>2 DEF Staged!Next
  <2>4. CASE \E S \in SUBSET Files :
               dest' = [g \in Files |-> IF g \in S THEN NoFile ELSE dest[g]]
    <3>1. PICK S \in SUBSET Files : dest' = [g \in Files |-> IF g \in S THEN NoFile ELSE dest[g]]
      BY <2>4
    <3>2. Staged!Remove(S)
      BY <2>1, <2>2, <3>1 DEF Staged!Remove, Installing
    <3> QED
      BY <1>1, <3>2 DEF Staged!Next
  <2> QED
    BY <1>5, <2>3, <2>4, StagedInvStep
<1> QED
  BY <1>3, <1>4, <1>5

\* Whatever attempts are given up, sessions work late and files change, a
\* read job replaces and removes files only as StagedFiles allows: in a
\* transaction not before every file was received and checked, and only by
\* announced contents (do_get_file, clientjob.cpp 826-926).
THEOREM ReadImplementsStagedFiles == Spec => InstallsStaged
<1>1. Init => IType /\ StagedInv /\ Staged!Init
  BY ITypeInit, StagedInit
<1>2. IType /\ [Next]_vars => IType'
  BY ITypeStep
<1>3. IType /\ IType' /\ StagedInv /\ [Next]_vars => StagedInv' /\ [Staged!Next]_Staged!vars
  BY StagedStep
<1> QED
  BY <1>1, <1>2, <1>3, PTL DEF Spec, InstallsStaged, Staged!Spec

-----------------------------------------------------------------------------
(***************************************************************************)
(* What a read job delivers: every listed file arrives, a synchronisation  *)
(* makes the directories equal, and no source is deleted whose content the *)
(* client does not hold.                                                   *)
(***************************************************************************)

(* The inductive invariant, in parts.                                      *)

Working == cpc \notin {"connect", "done"}
OnList  == {files[i] : i \in DOMAIN files}

\* Where the client is, and what that says of the job, its lists and the
\* destination of the current file.
Places ==
  /\ whole => cpc = "done"
  /\ cpc \in {"commit", "drop", "wait_drop", "sync", "wait_sync"} => todo = {}
  /\ cpc \in {"commit", "drop", "wait_drop"} => job.transaction
  /\ cpc \in {"begin", "wait_list", "sync", "wait_sync"} => files = <<>>
  /\ Working /\ ~job.transaction => files = <<>>
  /\ cpc = "copy" => ~job.transaction
  /\ cpc \in {"del", "wait_del", "drop", "wait_drop"} => job.post = "delete"
  /\ cpc = "wait_sync" => job.post = "sync" /\ job.wild
  /\ cpc \in {"wait_list"} => job.wild
  /\ cpc = "wait_hash" => dest[cur] # NoFile

\* The connection of an attempt to come has been used by nobody.
Fresh ==
  /\ \A k \in Attempts : spc[k] = "none" => c2s[k] = <<>> /\ s2c[k] = <<>>
  /\ \A k \in Attempts : k > try \/ (k = try /\ cpc = "connect") => spc[k] = "none"
  /\ Working => spc[try] # "none"

\* On the connection of the current attempt there is one request or one
\* answer at a time, it is the last frame, and it is about the current file.
\* What a frame left in the stream after a failed write can be taken for is
\* no answer, and in a transaction there is no such frame.
Asks    == {"enum", "get_hash", "get_file", "delete"}
Replies == {"list", "hash", "file", "deleted", "error"}

Matched ==
  Working =>
    /\ \A i \in DOMAIN c2s[try] : c2s[try][i].kind \in Asks =>
         /\ cpc \in Waiting /\ i = Len(c2s[try])
         /\ c2s[try][i].kind \in {"get_hash", "get_file"} => c2s[try][i].files = {cur}
         /\ \A j \in DOMAIN s2c[try] : s2c[try][j].kind \notin Replies
    /\ \A i \in DOMAIN s2c[try] : s2c[try][i].kind \in Replies =>
         /\ cpc \in Waiting /\ i = Len(s2c[try])
         /\ s2c[try][i].kind \in {"hash", "file"} => s2c[try][i].files = {cur}
    /\ job.transaction => \A i \in DOMAIN s2c[try] : s2c[try][i].kind \in Replies

\* The job has deleted the source.
Gone(f) == job.post = "delete" /\ src[f] = NoFile

\* Answers that are true of every untouched file, now or later.
TrueAnswers ==
  {m \in LegalAnswers :
     /\ m.kind \in {"hash", "file"} =>
          \A f \in m.files \ touched : /\ m.hash = src[f] \/ Gone(f)
                                       /\ m.kind = "file" => m.data = m.hash
     /\ m.kind = "list" =>
          \A f \in Files \ touched : /\ f \in m.files => src[f] # NoFile \/ Gone(f)
                                     /\ src[f] # NoFile => f \in m.files}

\* The files whose source may be deleted, even attempts later.
Retained(f) == src[f] \in {NoFile, dest[f], temp[Temp(f)]}
SafeFiles   == {f \in Files : f \in touched \/ Retained(f)}
SafeCommands ==
  {m \in LegalCommands :
     m.kind = "delete" => job.post = "delete" /\ (OwnTemps => m.files \subseteq SafeFiles)}

Channels ==
  /\ s2c \in [Attempts -> Seq(TrueAnswers)]
  /\ c2s \in [Attempts -> Seq(SafeCommands)]

\* What the attempt has found or fetched is the source, and what it lists is
\* what the server has.
GotTrue  == \A f \in Files \ touched : got[f] \in {NoFile, src[f]} \/ Gone(f)
ListTrue ==
  job.wild =>
    \A f \in Files \ touched :
      /\ Working /\ f \in listed => src[f] # NoFile \/ Gone(f)
      /\ cpc \notin {"connect", "begin", "wait_list", "done"} /\ src[f] # NoFile => f \in listed

\* A file is on its way from the server over the temporary file, and the list
\* in a transaction, to its destination, or was left behind.
Arrived(f) == got[f] # NoFile /\ dest[f] = got[f]
Staying(f) ==
  /\ got[f] # NoFile
  /\ temp[Temp(f)] = got[f] \/ (temp[Temp(f)] = NoFile /\ dest[f] = got[f])

FetchInv ==
  Working /\ OwnTemps =>
    /\ todo \cap OnList = {}
    /\ \A f \in OnList : Staying(f)
    /\ \A f \in listed \ (todo \cup missed \cup OnList) : Arrived(f)
    /\ cpc = "copy" => got[cur] # NoFile /\ temp[Temp(cur)] = got[cur]
    /\ cpc \in {"del", "wait_del"} =>
         /\ cur \in missed \/ dest[cur] = got[cur]
         /\ got[cur] # NoFile /\ got[cur] \in {dest[cur], temp[Temp(cur)]}
    /\ cpc \in {"drop", "wait_drop"} =>
         Head(files) \in missed \/ dest[Head(files)] = got[Head(files)]

-----------------------------------------------------------------------------
(* Where the client is.                                                    *)

\* The steps of do_get_file and of the attempts around it.
ClientActs ==
  \/ Client \/ ConnectFail \/ NoDirectory \/ CompareHash(TRUE) \/ NoTemp \/ NotWritten
  \/ SyncDelete(TRUE) \/ NoSearch(TRUE) \/ NoAnswer(TRUE) \/ Shutdown

\* The steps of a session and of its connection.
SessionActs(k) == Session(k) \/ SrvError(k) \/ SrvEnumCut(k) \/ SrvGetFileChanged(k) \/ Break(k)

LEMMA Steps ==
  ASSUME IType, [Next]_vars
  PROVE  /\ \/ ClientActs
            \/ \E k \in Attempts : SessionActs(k)
            \/ SourceChange
            \/ UNCHANGED vars
         /\ job' = job
<1>1. \/ ClientActs \/ (\E k \in Attempts : SessionActs(k)) \/ SourceChange \/ UNCHANGED vars
  BY DEF Next, Environment, Finished, ClientActs, SessionActs
<1>2. ClientActs => job' = job
  BY ClientFrame DEF ClientActs
<1>3. \A k \in Attempts : SessionActs(k) => job' = job
  BY SessionFrame DEF SessionActs
<1>4. SourceChange \/ UNCHANGED vars => job' = job
  BY DEF SourceChange, vars
<1> QED
  BY <1>1, <1>2, <1>3, <1>4

\* A step that is not the client's leaves it and its files alone.
LEMMA Others ==
  ASSUME IType, [Next]_vars, ~ClientActs
  PROVE  UNCHANGED <<job, lists, client, disk>>
<1>1. \A k \in Attempts : SessionActs(k) => UNCHANGED <<job, lists, client, disk>>
  BY SessionFrame DEF SessionActs
<1>2. SourceChange \/ UNCHANGED vars => UNCHANGED <<job, lists, client, disk>>
  BY DEF SourceChange, vars
<1> QED
  BY <1>1, <1>2, Steps

\* The client stops working.
LEMMA Stops ==
  ASSUME NEW r \in BOOLEAN, Return(r)
  PROVE  cpc' \in {"connect", "done"}
BY DEF Return

LEMMA PlacesStep ==
  ASSUME IType, Places, [Next]_vars
  PROVE  Places'
<1>0. job' = job
  BY Steps
<1>1. CASE \/ ConnectFail \/ NoSearch(FALSE) \/ NoSearch(TRUE) \/ Refused
           \/ NoAnswer(FALSE) \/ NoAnswer(TRUE) \/ Shutdown
  <2>1. cpc' \in {"connect", "done"} /\ whole' = whole /\ cpc # "done"
    BY <1>1 DEF ConnectFail, NoSearch, Refused, NoAnswer, Shutdown, Out, Return, Answered, Waiting
  <2> QED
    BY <2>1 DEF Places, Working
<1>2. CASE Connect \/ Begin \/ Listed
  BY <1>0, <1>2 DEF Connect, Begin, Listed, Request, Out, Return, GoTo, Answered, Places, Working,
     lists
<1>3. CASE NoDirectory \/ Fetch \/ NoTemp
  BY <1>0, <1>3 DEF NoDirectory, Fetch, NoTemp, FileError, NextBlock, Request, Out,
     Return, GoTo, Places, Working, lists
<1>10. CASE NextFile
  <2>1. whole' = whole /\ files' = files /\ cpc = "file"
    BY <1>10 DEF NextFile, NextBlock, Request, Out, Return, GoTo, lists
  <2>2. cpc' \in {"file", "wait_hash", "fetch", "connect", "done"}
    BY <1>10 DEF NextFile, NextBlock, Request, Out, Return, GoTo
  <2>3. cpc' = "wait_hash" => dest[cur] # NoFile /\ todo' = todo /\ dest' = dest
    BY <1>10 DEF NextFile, NextBlock, Request, Out, Return, GoTo, lists, disk
  <2>4. cpc' = "wait_hash" => dest'[cur'] # NoFile
    BY <2>3 DEF cur
  <2> QED
    BY <1>0, <2>1, <2>2, <2>4 DEF Places, Working
<1>4. CASE CompareHash(FALSE) \/ CompareHash(TRUE)
  BY <1>0, <1>4 DEF CompareHash, Done, GoTo, Answered, Places, Working, lists, disk
<1>5. CASE Fetched \/ Mismatch \/ NotWritten
  BY <1>0, <1>5 DEF Fetched, Mismatch, NotWritten, Keep, Done, NextBlock, Out, Return, GoTo,
     Answered, Places, Working, lists
<1>6. CASE Copy \/ Delete \/ Deleted
  BY <1>0, <1>6 DEF Copy, Delete, Deleted, Done, Request, Out, Return, GoTo, Answered, Places,
     Working, lists
<1>7. CASE AllListed \/ CommitCopy \/ CommitDelete \/ CommitDeleted \/ Committed
  BY <1>0, <1>7 DEF AllListed, CommitCopy, CommitDelete, CommitDeleted, Committed, Request, Out,
     Return, GoTo, Places, Working, lists
<1>8. CASE Sync \/ SyncDelete(FALSE) \/ SyncDelete(TRUE)
  <2>1. CASE End
    <3>1. cpc' = "done"
      BY <2>1 DEF End, Return
    <3> QED
      BY <3>1 DEF Places, Working
  <2>2. CASE ~End
    <3>1. Sync
      BY <1>8, <2>2, SyncDeletes
    <3> QED
      BY <1>0, <2>2, <3>1 DEF Sync, Request, Out, Return, GoTo, Places, Working, lists
  <2> QED
    BY <2>1, <2>2
<1>9. CASE ~ClientActs
  <2>1. UNCHANGED <<job, lists, client, disk>>
    BY <1>9, Others
  <2> QED
    BY <2>1 DEF Places, Working, lists, client, disk, cur
<1> QED
  BY <1>1, <1>2, <1>3, <1>4, <1>5, <1>6, <1>7, <1>8, <1>9, <1>10 DEF ClientActs, Client

-----------------------------------------------------------------------------
(* The connections of attempts to come.                                    *)

\* What a client's step makes of the connection of its attempt.
LEMMA ClientNet ==
  ASSUME IType, ClientActs, ~Connect
  PROVE  /\ UNCHANGED spc
         /\ \/ UNCHANGED s2c
            \/ s2c' = [s2c EXCEPT ![try] = <<>>]
            \/ /\ s2c[try] # <<>>
               /\ \/ s2c' = [s2c EXCEPT ![try] = Tail(@)]
                  \/ s2c' = [s2c EXCEPT ![try] = <<Simple("rest")>> \o Tail(@)]
         /\ \/ UNCHANGED c2s
            \/ \E k \in {"ack", "nack", "enum"} : c2s' = Sends(c2s, try, Simple(k))
            \/ /\ cpc \in {"file", "fetch"}
               /\ \E k \in {"get_hash", "get_file"} : c2s' = Sends(c2s, try, Command(k, cur))
            \/ cpc = "del" /\ c2s' = Sends(c2s, try, Command("delete", cur))
            \/ cpc = "drop" /\ c2s' = Sends(c2s, try, Command("delete", Head(files)))
         /\ cpc = "connect" => UNCHANGED c2s
         /\ \/ try' = try /\ cpc' # "connect"
            \/ try' = try + 1 /\ cpc' = "connect"
<1>1. CASE \/ ConnectFail \/ NoSearch(FALSE) \/ NoSearch(TRUE) \/ Refused
           \/ NoAnswer(FALSE) \/ NoAnswer(TRUE) \/ Shutdown
  <2>1. UNCHANGED spc /\ UNCHANGED c2s /\ s2c' = [s2c EXCEPT ![try] = <<>>]
    BY <1>1 DEF ConnectFail, NoSearch, Refused, NoAnswer, Shutdown, Out, Return
  <2>2. \/ try' = try /\ cpc' # "connect"
        \/ try' = try + 1 /\ cpc' = "connect"
    BY <1>1 DEF ConnectFail, NoSearch, Refused, NoAnswer, Shutdown, Out, Return
  <2> QED
    BY <2>1, <2>2
<1>2. CASE Begin \/ Listed \/ NextFile \/ NoDirectory \/ Fetch \/ NoTemp
  <2>1. cpc # "connect" /\ UNCHANGED spc
    BY <1>2 DEF Begin, Listed, NextFile, NoDirectory, Fetch, NoTemp, Answered
  <2>2. \/ try' = try /\ cpc' # "connect"
        \/ try' = try + 1 /\ cpc' = "connect"
    BY <1>2 DEF Begin, Listed, NextFile, NoDirectory, Fetch, NoTemp, NextBlock, FileError, Request,
       Out, Return, GoTo
  <2>3. \/ UNCHANGED c2s
        \/ c2s' = Sends(c2s, try, Simple("enum"))
        \/ /\ cpc \in {"file", "fetch"}
           /\ \E k \in {"get_hash", "get_file"} : c2s' = Sends(c2s, try, Command(k, cur))
    BY <1>2 DEF Begin, Listed, NextFile, NoDirectory, Fetch, NoTemp, NextBlock, FileError, Request,
       Out, net
  <2>4. \/ UNCHANGED s2c
        \/ s2c' = [s2c EXCEPT ![try] = <<>>]
        \/ s2c[try] # <<>> /\ s2c' = [s2c EXCEPT ![try] = Tail(@)]
    BY <1>2 DEF Begin, Listed, NextFile, NoDirectory, Fetch, NoTemp, NextBlock, FileError, Request,
       Out, Return, Answered, TakeAnswer, net
  <2> QED
    BY <2>1, <2>2, <2>3, <2>4
<1>3. CASE CompareHash(FALSE) \/ CompareHash(TRUE) \/ Fetched \/ Mismatch \/ NotWritten
  <2>1. cpc # "connect" /\ UNCHANGED spc /\ s2c[try] # <<>>
    BY <1>3 DEF CompareHash, Fetched, Mismatch, NotWritten, Answered
  <2>2. \/ try' = try /\ cpc' # "connect"
        \/ try' = try + 1 /\ cpc' = "connect"
    BY <1>3 DEF CompareHash, Fetched, Mismatch, NotWritten, NextBlock, Keep, Done, Out, Return, GoTo
  <2>3. \/ UNCHANGED c2s
        \/ \E k \in {"ack", "nack"} : c2s' = Sends(c2s, try, Simple(k))
    BY <1>3 DEF CompareHash, Fetched, Mismatch, NotWritten, Out
  <2>4. \/ s2c' = [s2c EXCEPT ![try] = <<>>]
        \/ s2c' = [s2c EXCEPT ![try] = Tail(@)]
        \/ s2c' = [s2c EXCEPT ![try] = <<Simple("rest")>> \o Tail(@)]
    BY <1>3 DEF CompareHash, Fetched, Mismatch, NotWritten, Out, Return, TakeAnswer
  <2> QED
    BY <2>1, <2>2, <2>3, <2>4
<1>4. CASE Copy \/ Delete \/ Deleted \/ AllListed \/ CommitCopy
  <2>1. cpc # "connect" /\ UNCHANGED spc
    BY <1>4 DEF Copy, Delete, Deleted, AllListed, CommitCopy, Answered
  <2>2. \/ try' = try /\ cpc' # "connect"
        \/ try' = try + 1 /\ cpc' = "connect"
    BY <1>4 DEF Copy, Delete, Deleted, AllListed, CommitCopy, Done, Request, Out, Return, GoTo
  <2>3. \/ UNCHANGED c2s
        \/ cpc = "del" /\ c2s' = Sends(c2s, try, Command("delete", cur))
    BY <1>4 DEF Copy, Delete, Deleted, AllListed, CommitCopy, Request, Out, net
  <2>4. \/ UNCHANGED s2c
        \/ s2c' = [s2c EXCEPT ![try] = <<>>]
        \/ s2c[try] # <<>> /\ s2c' = [s2c EXCEPT ![try] = Tail(@)]
    BY <1>4 DEF Copy, Delete, Deleted, AllListed, CommitCopy, Request, Out, Return, Answered,
       TakeAnswer, net
  <2> QED
    BY <2>1, <2>2, <2>3, <2>4
<1>5. CASE CommitDelete \/ CommitDeleted \/ Committed \/ Sync \/ SyncDelete(FALSE) \/ SyncDelete(TRUE)
  <2>1. cpc # "connect" /\ UNCHANGED spc
    BY <1>5 DEF CommitDelete, CommitDeleted, Committed, Sync, SyncDelete, Answered
  <2>2. \/ try' = try /\ cpc' # "connect"
        \/ try' = try + 1 /\ cpc' = "connect"
    BY <1>5 DEF CommitDelete, CommitDeleted, Committed, Sync, SyncDelete, Request, Out, End, Return,
       GoTo
  <2>3. \/ UNCHANGED c2s
        \/ c2s' = Sends(c2s, try, Simple("enum"))
        \/ cpc = "drop" /\ c2s' = Sends(c2s, try, Command("delete", Head(files)))
    BY <1>5 DEF CommitDelete, CommitDeleted, Committed, Sync, SyncDelete, Request, Out, End, net
  <2>4. \/ UNCHANGED s2c
        \/ s2c' = [s2c EXCEPT ![try] = <<>>]
        \/ s2c[try] # <<>> /\ s2c' = [s2c EXCEPT ![try] = Tail(@)]
    BY <1>5 DEF CommitDelete, CommitDeleted, Committed, Sync, SyncDelete, Request, Out, End, Return,
       TakeAnswer, net
  <2> QED
    BY <2>1, <2>2, <2>3, <2>4
<1> QED
  BY <1>1, <1>2, <1>3, <1>4, <1>5 DEF ClientActs, Client

\* What a session's step makes of its connection.
LEMMA SessionNet ==
  ASSUME IType, NEW k \in Attempts, SessionActs(k)
  PROVE  \/ UNCHANGED spc /\ c2s' = [c2s EXCEPT ![k] = <<>>] /\ s2c' = [s2c EXCEPT ![k] = <<>>]
         \/ /\ spc[k] # "none"
            /\ \E s \in {"idle", "ack", "ended"} : spc' = [spc EXCEPT ![k] = s]
            /\ \/ UNCHANGED <<c2s, s2c>>
               \/ c2s' = [c2s EXCEPT ![k] = <<>>] /\ UNCHANGED s2c
               \/ /\ c2s[k] # <<>> /\ c2s' = [c2s EXCEPT ![k] = Tail(@)]
                  /\ UNCHANGED s2c \/ \E m : s2c' = Sends(s2c, k, m)
<1>1. CASE Break(k)
  BY <1>1 DEF Break
<1>2. CASE SrvAck(k)
  BY <1>2 DEF SrvAck, Goto, TakeInput
<1>3. CASE SrvGiveUp(k)
  BY <1>3 DEF SrvGiveUp, Goto, net
<1>4. CASE ~(Break(k) \/ SrvAck(k) \/ SrvGiveUp(k))
  <2>1. \E m, s : s \in {"idle", "ack"} /\ spc[k] = "idle" /\ c2s[k] # <<>> /\ Reply(k, m, s)
    <3>0. \A m, s : Reply(k, m, s) /\ spc[k] = "idle" /\ c2s[k] # <<>> /\ s \in {"idle", "ack"} =>
            \E n, t : t \in {"idle", "ack"} /\ spc[k] = "idle" /\ c2s[k] # <<>> /\ Reply(k, n, t)
      OBVIOUS
    <3>1. CASE SrvEnum(k)
      <4>1. \/ Reply(k, List(there), "idle")
            \/ Reply(k, Simple("error"), "idle")
        BY <3>1 DEF SrvEnum
      <4> QED
        BY <3>0, <3>1, <4>1 DEF SrvEnum, Has
    <3>7. CASE SrvEnumCut(k)
      <4>1. PICK part : Reply(k, List(part), "idle")
        BY <3>7 DEF SrvEnumCut
      <4> QED
        BY <3>0, <3>7, <4>1 DEF SrvEnumCut, Has
    <3>2. CASE SrvGetHash(k)
      <4>1. \/ Reply(k, Frame("hash", {InputFile(k)}, src[InputFile(k)], NoFile), "idle")
            \/ Reply(k, Simple("error"), "idle")
        BY <3>2 DEF SrvGetHash
      <4> QED
        BY <3>0, <3>2, <4>1 DEF SrvGetHash, Has
    <3>3. CASE SrvGetFile(k)
      <4>1. \/ Reply(k, Frame("file", {InputFile(k)}, src[InputFile(k)], src[InputFile(k)]), "ack")
            \/ Reply(k, Simple("error"), "idle")
        BY <3>3 DEF SrvGetFile
      <4> QED
        BY <3>0, <3>3, <4>1 DEF SrvGetFile, Has
    <3>4. CASE SrvDelete(k)
      <4>1. \/ Reply(k, Simple("deleted"), "idle")
            \/ Reply(k, Simple("error"), "idle")
        BY <3>4 DEF SrvDelete
      <4> QED
        BY <3>0, <3>4, <4>1 DEF SrvDelete, Has
    <3>5. CASE SrvError(k)
      <4>1. Reply(k, Simple("error"), "idle")
        BY <3>5 DEF SrvError
      <4> QED
        BY <3>0, <3>5, <4>1 DEF SrvError
    <3>6. CASE SrvGetFileChanged(k)
      <4>1. PICK c : Reply(k, Frame("file", {InputFile(k)}, src[InputFile(k)], c), "ack")
        BY <3>6 DEF SrvGetFileChanged
      <4> QED
        BY <3>0, <3>6, <4>1 DEF SrvGetFileChanged, Has
    <3> QED
      BY <1>4, <3>1, <3>2, <3>3, <3>4, <3>5, <3>6, <3>7 DEF SessionActs, Session
  <2>2. PICK m, s : s \in {"idle", "ack"} /\ spc[k] = "idle" /\ c2s[k] # <<>> /\ Reply(k, m, s)
    BY <2>1
  <2>3. CASE Goto(k, s) /\ TakeInput(k) /\ s2c' = Sends(s2c, k, m)
    BY <2>2, <2>3 DEF Goto, TakeInput
  <2>4. CASE Goto(k, "ended") /\ c2s' = [c2s EXCEPT ![k] = <<>>] /\ UNCHANGED s2c
    BY <2>2, <2>4 DEF Goto
  <2> QED
    BY <2>2, <2>3, <2>4 DEF Reply
<1> QED
  BY <1>1, <1>2, <1>3, <1>4

LEMMA FreshStep ==
  ASSUME IType, Fresh, [Next]_vars
  PROVE  Fresh'
<1>0. /\ try \in Nat /\ \A k \in Attempts : k \in Nat
      /\ spc \in [Attempts -> {"none", "idle", "ack", "ended"}]
      /\ c2s \in [Attempts -> Seq(LegalCommands)] /\ s2c \in [Attempts -> Seq(LegalAnswers)]
      /\ try \in Attempts
  BY ConstantTypes DEF IType, ClientTypes, NetTypes, SessionTypes, Attempts
<1>1. CASE Connect
  <2>1. /\ spc' = [spc EXCEPT ![try] = "idle"] /\ try' = try /\ cpc' = "begin"
        /\ UNCHANGED <<c2s, s2c>>
    BY <1>1 DEF Connect, GoTo
  <2> QED
    BY <1>0, <2>1 DEF Fresh
<1>2. CASE ClientActs /\ ~Connect
  <2>1. UNCHANGED spc /\ (cpc = "connect" => UNCHANGED c2s)
    BY <1>2, ClientNet
  <2>2. \A k \in Attempts \ {try} : c2s'[k] = c2s[k] /\ s2c'[k] = s2c[k]
    BY <1>0, <1>2, ClientNet DEF Sends
  <2>3. spc[try] = "none" => cpc \in {"connect", "done"}
    BY DEF Fresh, Working
  <2>4. cpc # "done"
    BY <1>2 DEF ClientActs, Client, ConnectFail, NoDirectory, CompareHash, NoTemp, NotWritten,
       NoSearch, NoAnswer, Shutdown, Begin, Listed, NextFile, Fetch, Fetched, Mismatch, Copy,
       Delete, Deleted, AllListed, CommitCopy, CommitDelete, CommitDeleted, Committed, Sync,
       SyncDelete, Refused, Connect, Answered, Waiting
  <2>5. spc[try] = "none" => c2s'[try] = <<>> /\ s2c'[try] = <<>>
    <3>1. HAVE spc[try] = "none"
    <3>2. c2s[try] = <<>> /\ s2c[try] = <<>> /\ UNCHANGED c2s
      BY <1>0, <2>1, <2>3, <2>4, <3>1 DEF Fresh
    <3> QED
      BY <1>0, <1>2, <3>2, ClientNet
  <2>6. \A k \in Attempts : spc'[k] = "none" => c2s'[k] = <<>> /\ s2c'[k] = <<>>
    BY <2>1, <2>2, <2>5 DEF Fresh
  <2>7. \/ try' = try /\ cpc' # "connect"
        \/ try' = try + 1 /\ cpc' = "connect"
    BY <1>2, ClientNet
  <2>8. \A k \in Attempts : k > try' \/ (k = try' /\ cpc' = "connect") => spc'[k] = "none"
    BY <1>0, <2>1, <2>7 DEF Fresh
  <2>9. Working' => spc'[try'] # "none"
    <3>1. CASE cpc = "connect"
      <4>1. ConnectFail
        BY <1>2, <3>1 DEF ClientActs, Client, NoDirectory, CompareHash, NoTemp, NotWritten,
           NoSearch, NoAnswer, Shutdown, Begin, Listed, NextFile, Fetch, Fetched, Mismatch, Copy,
           Delete, Deleted, AllListed, CommitCopy, CommitDelete, CommitDeleted, Committed, Sync,
           SyncDelete, Refused, Answered, Waiting
      <4> QED
        BY <4>1 DEF ConnectFail, Out, Return, Working
    <3>2. CASE cpc # "connect"
      BY <2>1, <2>4, <2>7, <3>2 DEF Fresh, Working
    <3> QED
      BY <3>1, <3>2
  <2> QED
    BY <2>6, <2>8, <2>9 DEF Fresh
<1>3. ASSUME NEW k \in Attempts, SessionActs(k)
      PROVE  Fresh'
  <2>1. cpc' = cpc /\ try' = try
    BY <1>3, SessionFrame DEF SessionActs, client
  <2>2. \A j \in Attempts : spc'[j] = "none" <=> spc[j] = "none"
    BY <1>0, <1>3, SessionNet
  <2>3. \A j \in Attempts : spc'[j] = "none" /\ c2s[j] = <<>> /\ s2c[j] = <<>>
                             => c2s'[j] = <<>> /\ s2c'[j] = <<>>
    BY <1>0, <1>3, SessionNet DEF Sends
  <2> QED
    BY <1>0, <2>1, <2>2, <2>3 DEF Fresh, Working
<1>4. CASE SourceChange \/ UNCHANGED vars
  <2>1. UNCHANGED <<spc, c2s, s2c, cpc, try>>
    BY <1>4 DEF SourceChange, vars, net, client
  <2> QED
    BY <2>1 DEF Fresh, Working
<1> QED
  BY <1>1, <1>2, <1>3, <1>4, Steps

-----------------------------------------------------------------------------
(* One request, one answer.                                                *)

\* Nothing is asked or answered on the connection of the current attempt.
Quiet ==
  /\ \A i \in DOMAIN c2s[try] : c2s[try][i].kind \notin Asks
  /\ \A i \in DOMAIN s2c[try] : s2c[try][i].kind \notin Replies
  /\ job.transaction => s2c[try] = <<>>

LEMMA NetSeqs ==
  ASSUME IType
  PROVE  /\ try \in Attempts
         /\ c2s \in [Attempts -> Seq(LegalCommands)] /\ s2c \in [Attempts -> Seq(LegalAnswers)]
         /\ \A k \in Attempts : c2s[k] \in Seq(LegalCommands) /\ s2c[k] \in Seq(LegalAnswers)
BY DEF IType, ClientTypes, NetTypes

\* Between two requests the connection is quiet, and so it is when the answer
\* is taken.
LEMMA Between ==
  ASSUME IType, Matched, Working, cpc \notin Waiting
  PROVE  Quiet
<1>1. \A i \in DOMAIN c2s[try] : c2s[try][i].kind \notin Asks
  BY DEF Matched
<1>2. \A i \in DOMAIN s2c[try] : s2c[try][i].kind \notin Replies
  BY DEF Matched
<1>3. job.transaction => DOMAIN s2c[try] = {}
  BY <1>2 DEF Matched
<1>4. s2c[try] # <<>> => 1 \in DOMAIN s2c[try]
  BY NetSeqs
<1>5. job.transaction => s2c[try] = <<>>
  BY <1>3, <1>4
<1> QED
  BY <1>1, <1>2, <1>5 DEF Quiet

LEMMA Taken ==
  ASSUME IType, Matched, Working, s2c[try] # <<>>, Answer.kind \in Replies
  PROVE  /\ \A i \in DOMAIN c2s[try] : c2s[try][i].kind \notin Asks
         /\ Tail(s2c[try]) = <<>> /\ Len(s2c[try]) = 1
         /\ Answer.kind \in {"hash", "file"} => Answer.files = {cur}
<1>1. s2c[try] \in Seq(LegalAnswers)
  BY NetSeqs
<1>2. 1 \in DOMAIN s2c[try] /\ s2c[try][1] = Answer
  BY <1>1 DEF Answer
<1>3. 1 = Len(s2c[try]) /\ (Answer.kind \in {"hash", "file"} => Answer.files = {cur})
  BY <1>2 DEF Matched
<1>4. Tail(s2c[try]) = <<>>
  <2>1. Tail(s2c[try]) \in Seq(LegalAnswers) /\ Len(Tail(s2c[try])) = 0
    BY <1>1, <1>3
  <2> QED
    BY <2>1, EmptySeq
<1>5. \A i \in DOMAIN c2s[try] : c2s[try][i].kind \notin Asks
  BY <1>2 DEF Matched
<1> QED
  BY <1>3, <1>4, <1>5

\* A frame at the end of a channel.
LEMMA Sent ==
  ASSUME NEW S, NEW ch \in [Attempts -> Seq(S)], NEW k \in Attempts, NEW m \in S
  PROVE  /\ Sends(ch, k, m)[k] \in {ch[k], Append(ch[k], m)}
         /\ \A i \in DOMAIN Sends(ch, k, m)[k] :
              \/ i \in DOMAIN ch[k] /\ Sends(ch, k, m)[k][i] = ch[k][i]
              \/ i = Len(Sends(ch, k, m)[k]) /\ Sends(ch, k, m)[k][i] = m
BY DEF Sends

LEMMA SameMatched ==
  ASSUME IType, Matched, Working, cpc \notin Waiting, UNCHANGED <<c2s, s2c>>, try' = try, job' = job
  PROVE  Matched'
<1>1. Quiet
  BY Between
<1>2. DOMAIN s2c[try] = {} \/ ~job.transaction
  BY <1>1 DEF Quiet
<1> QED
  BY <1>1, <1>2 DEF Quiet, Matched

LEMMA RequestMatched ==
  ASSUME IType, Matched, Working, cpc \notin Waiting, NEW m \in LegalCommands, m.kind \in Asks,
         m.kind \in {"get_hash", "get_file"} => m.files = {cur},
         NEW s \in Waiting, Request(m, s), todo' = todo, job' = job
  PROVE  Matched'
<1>0. Quiet /\ try \in Attempts /\ c2s \in [Attempts -> Seq(LegalCommands)]
  BY Between, NetSeqs
<1>1. CASE Out(FALSE)
  BY <1>1, Stops DEF Out, Matched, Working
<1>2. CASE c2s' = Sends(c2s, try, m) /\ GoTo(s) /\ UNCHANGED <<s2c, up>>
  <2>1. cpc' \in Waiting /\ try' = try /\ cur' = cur /\ s2c' = s2c
    BY <1>2 DEF GoTo, cur
  <2>2. \A i \in DOMAIN c2s'[try] :
          \/ i \in DOMAIN c2s[try] /\ c2s'[try][i] = c2s[try][i]
          \/ i = Len(c2s'[try]) /\ c2s'[try][i] = m
    BY <1>0, <1>2, Sent
  <2>3. \A i \in DOMAIN c2s'[try] : c2s'[try][i].kind \in Asks =>
          /\ i = Len(c2s'[try])
          /\ c2s'[try][i].kind \in {"get_hash", "get_file"} => c2s'[try][i].files = {cur}
    BY <1>0, <2>2 DEF Quiet
  <2>4. \A i \in DOMAIN s2c[try] : s2c[try][i].kind \notin Replies
    BY <1>0 DEF Quiet
  <2>5. job.transaction => \A i \in DOMAIN s2c[try] : s2c[try][i].kind \in Replies
    BY DEF Matched
  <2> QED
    BY <2>1, <2>3, <2>4, <2>5 DEF Matched
<1> QED
  BY <1>1, <1>2 DEF Request

LEMMA TakeMatched ==
  ASSUME IType, Matched, Working, s2c[try] # <<>>, Answer.kind \in Replies, job' = job, try' = try,
         \/ s2c' = [s2c EXCEPT ![try] = Tail(@)]
         \/ ~job.transaction /\ s2c' = [s2c EXCEPT ![try] = <<Simple("rest")>> \o Tail(@)],
         UNCHANGED c2s \/ \E k \in {"ack", "nack"} : c2s' = Sends(c2s, try, Simple(k))
  PROVE  Matched'
<1>0. /\ try \in Attempts /\ c2s \in [Attempts -> Seq(LegalCommands)]
      /\ s2c \in [Attempts -> Seq(LegalAnswers)]
  BY NetSeqs
<1>1. /\ \A i \in DOMAIN c2s[try] : c2s[try][i].kind \notin Asks
      /\ Tail(s2c[try]) = <<>>
  BY Taken
<1>2. \/ s2c'[try] = <<>>
      \/ ~job.transaction /\ s2c'[try] = <<Simple("rest")>> \o Tail(s2c[try])
  BY <1>0, <1>1
<1>3. \A i \in DOMAIN s2c'[try] : s2c'[try][i].kind \notin Replies
  <2>1. Simple("rest") \in LegalAnswers /\ Simple("rest").kind \notin Replies
    BY FrameTypes DEF Simple, Frame, Replies
  <2>2. CASE s2c'[try] = <<Simple("rest")>> \o Tail(s2c[try])
    <3>1. Tail(s2c[try]) \in Seq(LegalAnswers) /\ Len(Tail(s2c[try])) = 0
      BY <1>1, EmptySeq
    <3>2. \A i \in DOMAIN s2c'[try] : s2c'[try][i] = Simple("rest")
      BY <2>1, <2>2, <3>1
    <3> QED
      BY <2>1, <3>2
  <2>3. CASE s2c'[try] = <<>>
    BY <2>3
  <2> QED
    BY <1>2, <2>2, <2>3
<1>4. job.transaction => \A i \in DOMAIN s2c'[try] : s2c'[try][i].kind \in Replies
  BY <1>2
<1>5. \A i \in DOMAIN c2s'[try] : c2s'[try][i].kind \notin Asks
  <2>1. CASE UNCHANGED c2s
    BY <1>1, <2>1
  <2>2. ASSUME NEW k \in {"ack", "nack"}, c2s' = Sends(c2s, try, Simple(k))
        PROVE  \A i \in DOMAIN c2s'[try] : c2s'[try][i].kind \notin Asks
    <3>1. Simple(k) \in LegalCommands /\ Simple(k).kind \notin Asks
      BY FrameTypes DEF Simple, Frame, Asks
    <3>2. \A i \in DOMAIN c2s'[try] : c2s'[try][i] = Simple(k)
            \/ (i \in DOMAIN c2s[try] /\ c2s'[try][i] = c2s[try][i])
      BY <1>0, <2>2, <3>1, Sent
    <3> QED
      BY <1>1, <3>1, <3>2
  <2> QED
    BY <2>1, <2>2
<1> QED
  BY <1>3, <1>4, <1>5 DEF Matched

LEMMA ClientMatched ==
  ASSUME IType, Places, Fresh, Matched, ClientActs
  PROVE  Matched'
<1>0. job' = job
  BY ClientFrame DEF ClientActs
<1>1. CASE ~Working'
  BY <1>1 DEF Matched
<1>2. CASE Connect
  <2>1. c2s[try] = <<>> /\ s2c[try] = <<>>
    BY <1>2, NetSeqs DEF Connect, Fresh
  <2>2. try' = try /\ UNCHANGED <<c2s, s2c>>
    BY <1>2 DEF Connect, GoTo
  <2> QED
    BY <2>1, <2>2 DEF Matched
<1>3. CASE Working' /\ (Begin \/ NextFile \/ Fetch)
  <2>1. Working /\ cpc \notin Waiting
    BY <1>3 DEF Begin, NextFile, Fetch, Working, Waiting
  <2>2. CASE UNCHANGED net /\ try' = try
    BY <1>0, <2>1, <2>2, SameMatched DEF net
  <2>3. CASE ~(UNCHANGED net /\ try' = try)
    <3>1. \/ Begin /\ Request(Simple("enum"), "wait_list") /\ todo' = todo
          \/ NextFile /\ Request(Command("get_hash", cur), "wait_hash") /\ todo' = todo
          \/ Fetch /\ Request(Command("get_file", cur), "wait_file") /\ todo' = todo
      BY <1>3, <2>3 DEF Begin, NextFile, Fetch, NextBlock, GoTo, lists
    <3>2. NextFile \/ Fetch => cur \in Files
      BY CurType DEF NextFile, Fetch, IType, Placed
    <3>3. CASE Request(Simple("enum"), "wait_list") /\ todo' = todo
      <4>1. Simple("enum") \in LegalCommands /\ Simple("enum").kind = "enum"
        BY FrameTypes DEF Simple, Frame
      <4> QED
        BY <1>0, <2>1, <3>3, <4>1, RequestMatched DEF Asks, Waiting
    <3>4. CASE Request(Command("get_hash", cur), "wait_hash") /\ todo' = todo /\ cur \in Files
      <4>1. /\ Command("get_hash", cur) \in LegalCommands
            /\ Command("get_hash", cur).kind = "get_hash" /\ Command("get_hash", cur).files = {cur}
        BY <3>4, FrameTypes DEF Command, Frame
      <4> QED
        BY <1>0, <2>1, <3>4, <4>1, RequestMatched DEF Asks, Waiting
    <3>5. CASE Request(Command("get_file", cur), "wait_file") /\ todo' = todo /\ cur \in Files
      <4>1. /\ Command("get_file", cur) \in LegalCommands
            /\ Command("get_file", cur).kind = "get_file" /\ Command("get_file", cur).files = {cur}
        BY <3>5, FrameTypes DEF Command, Frame
      <4> QED
        BY <1>0, <2>1, <3>5, <4>1, RequestMatched DEF Asks, Waiting
    <3> QED
      BY <3>1, <3>2, <3>3, <3>4, <3>5
  <2> QED
    BY <2>2, <2>3
<1>4. CASE Working' /\ (Delete \/ CommitDelete \/ Sync)
  <2>1. Working /\ cpc \notin Waiting /\ todo' = todo
    BY <1>4 DEF Delete, CommitDelete, Sync, Working, Waiting, lists
  <2>2. ~End
    BY <1>4 DEF End, Return, Working
  <2>3. \/ Delete /\ Request(Command("delete", cur), "wait_del")
        \/ CommitDelete /\ Request(Command("delete", Head(files)), "wait_drop")
        \/ Request(Simple("enum"), "wait_sync")
    BY <1>4, <2>2 DEF Delete, CommitDelete, Sync
  <2>4. \A f \in Files : /\ Command("delete", f) \in LegalCommands
                         /\ Command("delete", f).kind = "delete"
    BY FrameTypes DEF Command, Frame
  <2>5. Delete => cur \in Files
    BY CurType DEF Delete, IType, Placed
  <2>6. CommitDelete => Head(files) \in Files
    BY DEF CommitDelete, IType, Placed, ListTypes
  <2>7. CASE Delete /\ Request(Command("delete", cur), "wait_del")
    BY <1>0, <2>1, <2>4, <2>5, <2>7, RequestMatched DEF Asks, Waiting
  <2>8. CASE CommitDelete /\ Request(Command("delete", Head(files)), "wait_drop")
    BY <1>0, <2>1, <2>4, <2>6, <2>8, RequestMatched DEF Asks, Waiting
  <2>9. CASE Request(Simple("enum"), "wait_sync")
    <3>1. Simple("enum") \in LegalCommands /\ Simple("enum").kind = "enum"
      BY FrameTypes DEF Simple, Frame
    <3> QED
      BY <1>0, <2>1, <2>9, <3>1, RequestMatched DEF Asks, Waiting
  <2> QED
    BY <2>3, <2>7, <2>8, <2>9
<1>5. CASE Working' /\ (NoDirectory \/ NoTemp \/ Copy \/ AllListed \/ CommitCopy \/ Committed)
  <2>1. Working /\ cpc \notin Waiting
    BY <1>5 DEF NoDirectory, NoTemp, Copy, AllListed, CommitCopy, Committed, Working, Waiting
  <2>2. ~Out(TRUE) /\ ~Out(FALSE)
    BY <1>5, Stops DEF Out, Working
  <2>3. UNCHANGED net /\ try' = try
    BY <1>5, <2>2 DEF NoDirectory, NoTemp, FileError, NextBlock, Copy, AllListed, CommitCopy,
       Committed, GoTo, net
  <2> QED
    BY <1>0, <2>1, <2>3, SameMatched DEF net
<1>6. CASE /\ Working'
           /\ \/ Listed \/ CompareHash(FALSE) \/ CompareHash(TRUE) \/ Fetched \/ Mismatch
              \/ NotWritten \/ Deleted \/ CommitDeleted
  <2>1. Working /\ s2c[try] # <<>>
    BY <1>6 DEF Listed, CompareHash, Fetched, Mismatch, NotWritten, Deleted, CommitDeleted,
       Answered, Working
  <2>2. ~Out(TRUE) /\ ~Out(FALSE)
    BY <1>6, Stops DEF Out, Working
  <2>3. Answer.kind \in Replies
    <3>1. CASE CommitDeleted
      <4>1. job.transaction
        BY <3>1 DEF CommitDeleted, Places
      <4>2. 1 \in DOMAIN s2c[try] /\ s2c[try][1] = Answer
        BY <2>1, NetSeqs DEF Answer
      <4> QED
        BY <2>1, <4>1, <4>2 DEF Matched
    <3>2. CASE ~CommitDeleted
      BY <1>6, <3>2 DEF Listed, CompareHash, Fetched, Mismatch, NotWritten, Deleted, Answered,
         Replies
    <3> QED
      BY <3>1, <3>2
  <2>4. try' = try
    BY <1>6, <2>2 DEF Listed, CompareHash, Fetched, Mismatch, NotWritten, Deleted, CommitDeleted,
       Done, Keep, NextBlock, GoTo
  <2>5. \/ s2c' = [s2c EXCEPT ![try] = Tail(@)]
        \/ ~job.transaction /\ s2c' = [s2c EXCEPT ![try] = <<Simple("rest")>> \o Tail(@)]
    BY <1>6, <2>2 DEF Listed, CompareHash, Fetched, Mismatch, NotWritten, Deleted, CommitDeleted,
       TakeAnswer
  <2>6. UNCHANGED c2s \/ \E k \in {"ack", "nack"} : c2s' = Sends(c2s, try, Simple(k))
    BY <1>6, <2>2 DEF Listed, CompareHash, Fetched, Mismatch, NotWritten, Deleted, CommitDeleted
  <2> QED
    BY <1>0, <2>1, <2>3, <2>4, <2>5, <2>6, TakeMatched
<1>7. CASE \/ ConnectFail \/ SyncDelete(FALSE) \/ SyncDelete(TRUE) \/ NoSearch(FALSE) \/ NoSearch(TRUE) \/ Refused
           \/ NoAnswer(FALSE) \/ NoAnswer(TRUE) \/ Shutdown
  <2>1. ~Working'
    BY <1>7, Stops DEF ConnectFail, SyncDelete, NoSearch, Refused, NoAnswer, Shutdown, Out, End,
       Working
  <2> QED
    BY <2>1 DEF Matched
<1> QED
  BY <1>1, <1>2, <1>3, <1>4, <1>5, <1>6, <1>7 DEF ClientActs, Client

\* The session of the current attempt answers what it was asked, about the
\* file it was asked for.
LEMMA ReplyMatched ==
  ASSUME IType, Matched, c2s[try] # <<>>, Input(try).kind \in Asks,
         NEW m \in LegalAnswers, m.kind \in Replies,
         m.kind \in {"hash", "file"} =>
           Input(try).kind \in {"get_hash", "get_file"} /\ m.files = {InputFile(try)},
         NEW s \in {"idle", "ack"}, Reply(try, m, s), job' = job, UNCHANGED <<cpc, try, todo>>
  PROVE  Matched'
<1> SUFFICES ASSUME Working PROVE Matched'
  BY DEF Matched, Working
<1>0. /\ try \in Attempts /\ c2s \in [Attempts -> Seq(LegalCommands)]
      /\ s2c \in [Attempts -> Seq(LegalAnswers)]
  BY NetSeqs
<1>1. 1 \in DOMAIN c2s[try] /\ c2s[try][1] = Input(try)
  BY <1>0 DEF Input
<1>2. /\ cpc \in Waiting /\ 1 = Len(c2s[try])
      /\ Input(try).kind \in {"get_hash", "get_file"} => Input(try).files = {cur}
      /\ \A j \in DOMAIN s2c[try] : s2c[try][j].kind \notin Replies
  BY <1>1 DEF Matched
<1>3. m.kind \in {"hash", "file"} => m.files = {cur}
  BY <1>2 DEF InputFile
<1>4. c2s'[try] = <<>>
  <2>1. CASE c2s' = [c2s EXCEPT ![try] = Tail(@)]
    <3>1. Tail(c2s[try]) \in Seq(LegalCommands) /\ Len(Tail(c2s[try])) = 0
      BY <1>0, <1>2
    <3> QED
      BY <1>0, <2>1, <3>1, EmptySeq
  <2>2. CASE c2s' = [c2s EXCEPT ![try] = <<>>]
    BY <1>0, <2>2
  <2> QED
    BY <2>1, <2>2 DEF Reply, TakeInput
<1>5. s2c' = s2c \/ s2c' = Sends(s2c, try, m)
  BY DEF Reply
<1>6. \A i \in DOMAIN s2c'[try] :
        \/ i \in DOMAIN s2c[try] /\ s2c'[try][i] = s2c[try][i]
        \/ i = Len(s2c'[try]) /\ s2c'[try][i] = m
  <2>1. CASE s2c' = s2c
    BY <2>1
  <2>2. CASE s2c' = Sends(s2c, try, m)
    <3>1. \A i \in DOMAIN Sends(s2c, try, m)[try] :
            \/ i \in DOMAIN s2c[try] /\ Sends(s2c, try, m)[try][i] = s2c[try][i]
            \/ i = Len(Sends(s2c, try, m)[try]) /\ Sends(s2c, try, m)[try][i] = m
      BY <1>0 DEF Sends
    <3> QED
      BY <2>2, <3>1
  <2> QED
    BY <1>5, <2>1, <2>2
<1>7. \A i \in DOMAIN s2c'[try] : s2c'[try][i].kind \in Replies =>
        /\ i = Len(s2c'[try])
        /\ s2c'[try][i].kind \in {"hash", "file"} => s2c'[try][i].files = {cur}
  BY <1>2, <1>3, <1>6
<1>8. job.transaction => \A i \in DOMAIN s2c'[try] : s2c'[try][i].kind \in Replies
  BY <1>2, <1>6 DEF Matched
<1>9. try' = try /\ cpc' = cpc /\ cur' = cur
  BY DEF cur
<1>10. \A i \in DOMAIN c2s'[try] : c2s'[try][i].kind \notin Asks
  BY <1>4
<1> QED
  BY <1>2, <1>7, <1>8, <1>9, <1>10 DEF Matched

LEMMA SessionMatched ==
  ASSUME IType, Matched, NEW k \in Attempts, SessionActs(k)
  PROVE  Matched'
<1>0. job' = job /\ UNCHANGED <<cpc, try, todo>>
  BY SessionFrame DEF SessionActs, client, lists
<1>1. cur' = cur /\ (Working' <=> Working)
  BY <1>0 DEF cur, Working
<1>2. /\ try \in Attempts /\ c2s \in [Attempts -> Seq(LegalCommands)]
      /\ s2c \in [Attempts -> Seq(LegalAnswers)]
  BY NetSeqs
<1>3. CASE k # try
  <2>1. c2s'[try] = c2s[try] /\ s2c'[try] = s2c[try]
    BY <1>2, <1>3, SessionNet DEF Sends
  <2> QED
    BY <1>0, <1>1, <2>1 DEF Matched
<1>4. CASE Break(try)
  <2>1. c2s'[try] = <<>> /\ s2c'[try] = <<>>
    BY <1>2, <1>4 DEF Break
  <2> QED
    BY <1>0, <2>1 DEF Matched
<1>5. CASE SrvGiveUp(try)
  <2>1. UNCHANGED <<c2s, s2c>>
    BY <1>5 DEF SrvGiveUp, net
  <2> QED
    BY <1>0, <1>1, <2>1 DEF Matched
<1>6. CASE SrvAck(try)
  <2>1. /\ c2s[try] # <<>> /\ c2s'[try] = Tail(c2s[try]) /\ UNCHANGED s2c
    BY <1>2, <1>6 DEF SrvAck, TakeInput
  <2>2. /\ Len(c2s'[try]) = Len(c2s[try]) - 1 /\ Len(c2s[try]) \in Nat
        /\ \A i \in DOMAIN c2s'[try] : i + 1 \in DOMAIN c2s[try] /\ c2s'[try][i] = c2s[try][i + 1]
                                       /\ i \in Nat
    BY <1>2, <2>1
  <2>3. ASSUME Working, NEW i \in DOMAIN c2s'[try], c2s'[try][i].kind \in Asks
        PROVE  /\ cpc \in Waiting /\ i = Len(c2s'[try])
               /\ c2s'[try][i].kind \in {"get_hash", "get_file"} => c2s'[try][i].files = {cur}
               /\ \A j \in DOMAIN s2c[try] : s2c[try][j].kind \notin Replies
    <3>1. i + 1 \in DOMAIN c2s[try] /\ c2s'[try][i] = c2s[try][i + 1]
      BY <2>2, <2>3
    <3>2. /\ cpc \in Waiting /\ i + 1 = Len(c2s[try])
          /\ c2s[try][i + 1].kind \in {"get_hash", "get_file"} => c2s[try][i + 1].files = {cur}
          /\ \A j \in DOMAIN s2c[try] : s2c[try][j].kind \notin Replies
      BY <2>3, <3>1 DEF Matched
    <3> QED
      BY <2>2, <3>1, <3>2
  <2> QED
    BY <1>0, <1>1, <2>1, <2>3 DEF Matched
<1>7. CASE SrvEnum(try) \/ SrvEnumCut(try)
  <2>1. PICK m \in LegalAnswers : m.kind \in {"list", "error"} /\ Reply(try, m, "idle")
    <3>1. Simple("error") \in LegalAnswers /\ Simple("error").kind = "error"
      BY FrameTypes DEF Simple, Frame
    <3>2. \A S \in SUBSET Files : List(S) \in LegalAnswers /\ List(S).kind = "list"
      BY FrameTypes DEF Frame, List
    <3>3. \/ \E S \in SUBSET Files : Reply(try, List(S), "idle")
          \/ Reply(try, Simple("error"), "idle")
      BY <1>7 DEF SrvEnum, SrvEnumCut, there
    <3> QED
      BY <3>1, <3>2, <3>3
  <2>2. c2s[try] # <<>> /\ Input(try).kind \in Asks
    BY <1>7 DEF SrvEnum, SrvEnumCut, Has, Asks
  <2>3. m.kind \in Replies /\ m.kind \notin {"hash", "file"}
    BY <2>1 DEF Replies
  <2> QED
    BY <1>0, <2>1, <2>2, <2>3, ReplyMatched
<1>8. CASE SrvGetHash(try) \/ SrvGetFile(try) \/ SrvGetFileChanged(try)
  <2>1. c2s[try] # <<>> /\ Input(try).kind \in {"get_hash", "get_file"}
    BY <1>8 DEF SrvGetHash, SrvGetFile, SrvGetFileChanged, Has
  <2>2. InputFile(try) \in Files
    BY <2>1, <1>2, InputType
  <2>3. PICK m \in LegalAnswers :
          /\ \/ m.kind = "error" /\ Reply(try, m, "idle")
             \/ m.kind = "hash" /\ Reply(try, m, "idle")
             \/ m.kind = "file" /\ Reply(try, m, "ack")
          /\ m.kind # "error" => m.files = {InputFile(try)}
    <3>0. Simple("error") \in LegalAnswers /\ Simple("error").kind = "error"
      BY FrameTypes DEF Simple, Frame
    <3>1. ASSUME Reply(try, Simple("error"), "idle")
          PROVE  \E m \in LegalAnswers :
                   /\ \/ m.kind = "error" /\ Reply(try, m, "idle")
                      \/ m.kind = "hash" /\ Reply(try, m, "idle")
                      \/ m.kind = "file" /\ Reply(try, m, "ack")
                   /\ m.kind # "error" => m.files = {InputFile(try)}
      BY <3>0, <3>1
    <3>2. ASSUME NEW h \in Contents,
                 Reply(try, Frame("hash", {InputFile(try)}, h, NoFile), "idle")
          PROVE  \E m \in LegalAnswers :
                   /\ \/ m.kind = "error" /\ Reply(try, m, "idle")
                      \/ m.kind = "hash" /\ Reply(try, m, "idle")
                      \/ m.kind = "file" /\ Reply(try, m, "ack")
                   /\ m.kind # "error" => m.files = {InputFile(try)}
      <4>1. /\ Frame("hash", {InputFile(try)}, h, NoFile) \in LegalAnswers
            /\ Frame("hash", {InputFile(try)}, h, NoFile).kind = "hash"
            /\ Frame("hash", {InputFile(try)}, h, NoFile).files = {InputFile(try)}
        BY <2>2, FrameTypes DEF Frame
      <4> QED
        BY <3>2, <4>1
    <3>3. ASSUME NEW h \in Contents, NEW d \in Contents,
                 Reply(try, Frame("file", {InputFile(try)}, h, d), "ack")
          PROVE  \E m \in LegalAnswers :
                   /\ \/ m.kind = "error" /\ Reply(try, m, "idle")
                      \/ m.kind = "hash" /\ Reply(try, m, "idle")
                      \/ m.kind = "file" /\ Reply(try, m, "ack")
                   /\ m.kind # "error" => m.files = {InputFile(try)}
      <4>1. /\ Frame("file", {InputFile(try)}, h, d) \in LegalAnswers
            /\ Frame("file", {InputFile(try)}, h, d).kind = "file"
            /\ Frame("file", {InputFile(try)}, h, d).files = {InputFile(try)}
        BY <2>2, FrameTypes DEF Frame
      <4> QED
        BY <3>3, <4>1
    <3>4. src[InputFile(try)] \in Contents \cup {NoFile}
      BY <2>2 DEF IType, SourceTypes
    <3>5. CASE SrvGetHash(try)
      <4>1. \/ Reply(try, Simple("error"), "idle")
            \/ /\ src[InputFile(try)] # NoFile
               /\ Reply(try, Frame("hash", {InputFile(try)}, src[InputFile(try)], NoFile), "idle")
        BY <3>5 DEF SrvGetHash
      <4> QED
        BY <3>1, <3>2, <3>4, <4>1
    <3>6. CASE SrvGetFile(try)
      <4>1. \/ Reply(try, Simple("error"), "idle")
            \/ /\ src[InputFile(try)] # NoFile
               /\ Reply(try, Frame("file", {InputFile(try)}, src[InputFile(try)],
                                   src[InputFile(try)]), "ack")
        BY <3>6 DEF SrvGetFile
      <4> QED
        BY <3>1, <3>3, <3>4, <4>1
    <3>7. CASE SrvGetFileChanged(try)
      <4>1. PICK c \in Contents : Reply(try, Frame("file", {InputFile(try)}, src[InputFile(try)], c),
                                        "ack")
        BY <3>7 DEF SrvGetFileChanged
      <4>2. src[InputFile(try)] # NoFile
        BY <3>7 DEF SrvGetFileChanged
      <4> QED
        BY <3>3, <3>4, <4>1, <4>2
    <3> QED
      BY <1>8, <3>5, <3>6, <3>7
  <2>4. m.kind \in Replies /\ (m.kind \in {"hash", "file"} => m.files = {InputFile(try)})
    BY <2>3 DEF Replies
  <2>5. Input(try).kind \in Asks
    BY <2>1 DEF Asks
  <2>6. PICK s \in {"idle", "ack"} : Reply(try, m, s)
    BY <2>3
  <2> QED
    BY <1>0, <2>1, <2>4, <2>5, <2>6, ReplyMatched
<1>9. CASE SrvDelete(try) \/ SrvError(try)
  <2>1. c2s[try] # <<>> /\ Input(try) \in LegalCommands
    BY <1>2, <1>9, InputType DEF SrvDelete, SrvError, Has
  <2>2. Input(try).kind \in Asks
    BY <1>9, <2>1 DEF SrvDelete, SrvError, Has, Asks, LegalCommands, Commands
  <2>3. PICK e \in {"error", "deleted"} : Reply(try, Simple(e), "idle")
    BY <1>9 DEF SrvDelete, SrvError
  <2>4. Simple(e) \in LegalAnswers /\ Simple(e).kind = e
    BY FrameTypes DEF Simple, Frame
  <2> QED
    BY <1>0, <2>1, <2>2, <2>3, <2>4, ReplyMatched DEF Replies
<1> QED
  BY <1>3, <1>4, <1>5, <1>6, <1>7, <1>8, <1>9 DEF SessionActs, Session

LEMMA MatchedStep ==
  ASSUME IType, Places, Fresh, Matched, [Next]_vars
  PROVE  Matched'
<1>1. SourceChange \/ UNCHANGED vars => UNCHANGED <<job, c2s, s2c, cpc, try, todo>>
  BY DEF SourceChange, vars, net, client, lists
<1>2. SourceChange \/ UNCHANGED vars => Matched'
  BY <1>1 DEF Matched, Working, cur
<1> QED
  BY <1>2, ClientMatched, SessionMatched, Steps

-----------------------------------------------------------------------------
(* Every file is on its way.                                               *)

\* The list of a transaction as a set.
LEMMA OnListTypes ==
  ASSUME IType
  PROVE  /\ OnList \subseteq Files
         /\ files # <<>> => Head(files) \in OnList
         /\ files = <<>> => OnList = {}
<1>1. files \in Seq(Files)
  BY DEF IType, ListTypes
<1>2. OnList \subseteq Files
  BY <1>1 DEF OnList
<1>3. files # <<>> => 1 \in DOMAIN files /\ files[1] = Head(files)
  BY <1>1
<1>4. files # <<>> => Head(files) \in OnList
  BY <1>3 DEF OnList
<1> QED
  BY <1>2, <1>4 DEF OnList

LEMMA ListGrows ==
  ASSUME IType, NEW f \in Files, files' = <<f>> \o files
  PROVE  OnList' \subseteq OnList \cup {f} /\ f \in OnList' /\ OnList \subseteq OnList'
<1>1. files \in Seq(Files) /\ Len(files) \in Nat
  BY DEF IType, ListTypes
<1>2. DOMAIN files' = 1..(Len(files) + 1) /\ files'[1] = f
  BY <1>1
<1>3. \A i \in DOMAIN files' : files'[i] = f \/ (i - 1 \in DOMAIN files /\ files'[i] = files[i - 1])
  BY <1>1, <1>2
<1>4. \A i \in DOMAIN files : i + 1 \in DOMAIN files' /\ files'[i + 1] = files[i]
  BY <1>1, <1>2
<1>5. 1 \in DOMAIN files'
  BY <1>1, <1>2
<1>6. OnList' \subseteq OnList \cup {f}
  BY <1>3 DEF OnList
<1>7. f \in OnList'
  BY <1>2, <1>5 DEF OnList
<1>8. OnList \subseteq OnList'
  BY <1>4 DEF OnList
<1> QED
  BY <1>6, <1>7, <1>8

LEMMA ListShrinks ==
  ASSUME IType, files # <<>>, files' = Tail(files)
  PROVE  OnList' \subseteq OnList /\ OnList \subseteq OnList' \cup {Head(files)}
<1>1. files \in Seq(Files) /\ Len(files) \in Nat \ {0} /\ DOMAIN files = 1..Len(files)
  BY EmptySeq DEF IType, ListTypes
<1>2. DOMAIN files' = 1..(Len(files) - 1)
  BY <1>1
<1>3. \A i \in DOMAIN files' : i + 1 \in DOMAIN files /\ files'[i] = files[i + 1]
  BY <1>1, <1>2
<1>4. \A i \in DOMAIN files : files[i] = Head(files)
                              \/ (i - 1 \in DOMAIN files' /\ files'[i - 1] = files[i])
  BY <1>1, <1>2
<1> QED
  BY <1>3, <1>4 DEF OnList

\* Steps that move the client on and touch no list and no file.
LEMMA FetchSame ==
  ASSUME IType, FetchInv, Working, job' = job, UNCHANGED <<lists, disk>>,
         cpc' = "copy" => cpc = "copy",
         cpc' \in {"del", "wait_del"} => cpc \in {"del", "wait_del"},
         cpc' \in {"drop", "wait_drop"} => cpc \in {"drop", "wait_drop"}
  PROVE  FetchInv'
<1>1. UNCHANGED <<todo, files, listed, got, missed, temp, dest, job>>
  BY DEF lists, disk
<1>2. /\ OwnTemps' = OwnTemps /\ OnList' = OnList /\ cur' = cur
      /\ \A f : Temp(f)' = Temp(f)
      /\ \A f : Staying(f)' = Staying(f) /\ Arrived(f)' = Arrived(f)
  BY <1>1 DEF OwnTemps, OnList, cur, Temp, Staying, Arrived
<1>3. Temp(cur)' = Temp(cur')
  BY DEF Temp
<1> QED
  BY <1>1, <1>2, <1>3 DEF FetchInv

\* A file is left behind.
LEMMA FetchSkip ==
  ASSUME IType, FetchInv, Working, job' = job, todo # {},
         todo' = todo \ {cur}, missed' = missed \cup {cur},
         UNCHANGED <<files, listed, got, dest>>, cpc' = "file",
         \A t \in Files \ {Temp(cur)} : temp'[t] = temp[t]
  PROVE  FetchInv'
<1> SUFFICES ASSUME OwnTemps PROVE FetchInv'
  BY DEF FetchInv, OwnTemps, Temp
<1>1. /\ OnList' = OnList /\ cur \in Files /\ cur \in todo /\ OnList \subseteq Files
      /\ \A f : Temp(f)' = Temp(f)
  BY CurType, OnListTypes DEF OnList, Temp
<1>2. todo' \cap OnList' = {}
  BY <1>1 DEF FetchInv
<1>3. \A f \in OnList' : Staying(f)'
  <2> TAKE f \in OnList'
  <2>1. f \in Files /\ f # cur /\ Staying(f)
    BY <1>1 DEF FetchInv
  <2>2. Temp(f) # Temp(cur) /\ Temp(f) \in Files
    BY <1>1, <2>1, JobTypes DEF OwnTemps
  <2> QED
    BY <1>1, <2>1, <2>2 DEF Staying, Temp
<1>4. \A f \in listed' \ (todo' \cup missed' \cup OnList') : Arrived(f)'
  BY <1>1 DEF FetchInv, Arrived
<1> QED
  BY <1>2, <1>3, <1>4 DEF FetchInv

LEMMA FetchStart ==
  ASSUME IType, files' = <<>>, listed' \subseteq todo', cpc' \in {"begin", "file"}
  PROVE  FetchInv'
<1>1. OnList' = {}
  BY DEF OnList
<1> QED
  BY <1>1 DEF FetchInv

LEMMA FetchCompare ==
  ASSUME IType, IType', Places, FetchInv, OwnTemps, NEW fault \in BOOLEAN, CompareHash(fault)
  PROVE  FetchInv'
<1>0. Working /\ job' = job /\ UNCHANGED disk
  BY DEF CompareHash, Answered, Working
<1>1. cur \in Files /\ cur \in todo /\ OnList \subseteq Files
  BY CurType, OnListTypes DEF CompareHash, Answered, IType, Placed
<1>2. CASE GoTo("fetch") /\ UNCHANGED lists
  BY <1>0, <1>2, FetchSame DEF GoTo
<1>3. CASE /\ got' = [got EXCEPT ![cur] = dest[cur]] /\ UNCHANGED <<files, listed, missed>>
           /\ \/ job.post = "delete" /\ GoTo("del") /\ UNCHANGED todo
              \/ job.post # "delete" /\ GoTo("file") /\ todo' = todo \ {cur}
  <2>1. UNCHANGED <<temp, dest>> /\ dest[cur] # NoFile
    BY <1>0 DEF disk, CompareHash, Answered, Places
  <2>2. /\ got'[cur] = dest[cur]
        /\ \A f \in Files \ {cur} : got'[f] = got[f]
    BY <1>1, <1>3 DEF IType, ListTypes
  <2>3. OnList' = OnList /\ (\A f : Temp(f)' = Temp(f))
    BY <1>0, <1>3 DEF OnList, Temp
  <2>4. todo' \cap OnList' = {}
    BY <1>0, <1>3, <2>3 DEF FetchInv
  <2>5. \A f \in OnList' : Staying(f)'
    <3> TAKE f \in OnList'
    <3>1. f \in Files \ {cur} /\ Staying(f)
      BY <1>0, <1>1, <2>3 DEF FetchInv
    <3> QED
      BY <2>1, <2>2, <2>3, <3>1 DEF Staying
  <2>6. \A f \in listed' \ (todo' \cup missed' \cup OnList') : Arrived(f)'
    <3> TAKE f \in listed' \ (todo' \cup missed' \cup OnList')
    <3>1. f \in Files /\ f \in listed /\ f \notin missed \cup OnList
      BY <1>3, <2>3 DEF IType, ListTypes
    <3>2. CASE f = cur
      BY <2>1, <2>2, <3>2 DEF Arrived
    <3>3. CASE f # cur
      <4>1. f \notin todo
        BY <1>3, <3>3
      <4>2. Arrived(f)
        BY <1>0, <3>1, <4>1 DEF FetchInv
      <4> QED
        BY <2>1, <2>2, <3>1, <3>3, <4>2 DEF Arrived
    <3> QED
      BY <3>2, <3>3
  <2>7. cpc' = "del" => cur' = cur
    BY <1>3 DEF GoTo, cur
  <2>8. cpc' \in {"del", "file"}
    BY <1>3 DEF GoTo
  <2> QED
    BY <2>1, <2>2, <2>4, <2>5, <2>6, <2>7, <2>8 DEF FetchInv
<1> QED
  BY <1>2, <1>3 DEF CompareHash, Done

LEMMA FetchFetched ==
  ASSUME IType, FetchInv, OwnTemps, Fetched, Working'
  PROVE  FetchInv'
<1>0. Working /\ job' = job /\ UNCHANGED dest /\ ~Out(TRUE)
  BY Stops DEF Fetched, Answered, Working, Out
<1>1. PICK g \in Files : g = cur /\ g \in todo /\ Temp(g) \in Files
  BY CurType, JobTypes DEF Fetched, Answered, IType, Placed
<1>2. Answer.hash \in Contents /\ Answer.hash # NoFile
  BY AnswerType, ConstantTypes DEF Fetched, Answered, LegalAnswers
<1>3. /\ got' = [got EXCEPT ![g] = Answer.hash] /\ Keep
      /\ temp' = [temp EXCEPT ![Temp(g)] = Answer.hash]
  BY <1>0, <1>1 DEF Fetched
<1>4. /\ got'[g] = Answer.hash /\ temp'[Temp(g)] = Answer.hash
      /\ \A f \in Files \ {g} : got'[f] = got[f] /\ temp'[Temp(f)] = temp[Temp(f)]
  BY <1>1, <1>3, JobTypes DEF IType, ListTypes, DiskTypes, OwnTemps
<1>5. /\ \A f : Temp(f)' = Temp(f)
      /\ UNCHANGED <<listed, missed>>
  BY <1>0, <1>3 DEF Temp, Keep, Done
<1>6. \A f \in OnList : f \in Files \ {g} /\ Staying(f)
  BY <1>0, <1>1, OnListTypes DEF FetchInv
<1>7. \A f \in OnList : Staying(f)'
  BY <1>0, <1>4, <1>5, <1>6 DEF Staying
<1>8. Staying(g)'
  BY <1>2, <1>4, <1>5 DEF Staying
<1>9. \A f \in Files \ {g} : Arrived(f) => Arrived(f)'
  BY <1>0, <1>4 DEF Arrived
<1>10. \A f \in listed \ (todo \cup missed \cup OnList) : f \in Files \ {g} /\ Arrived(f)
  BY <1>0, <1>1 DEF FetchInv, IType, ListTypes
<1>11. CASE job.transaction
  <2>1. files' = <<g>> \o files /\ todo' = todo \ {g} /\ cpc' = "file"
    BY <1>1, <1>3, <1>11 DEF Keep, Done, GoTo
  <2>2. OnList' \subseteq OnList \cup {g} /\ g \in OnList' /\ OnList \subseteq OnList'
    BY <2>1, ListGrows
  <2>3. todo' \cap OnList' = {}
    BY <1>0, <2>1, <2>2 DEF FetchInv
  <2>4. \A f \in OnList' : Staying(f)'
    BY <1>7, <1>8, <2>2
  <2>5. \A f \in listed' \ (todo' \cup missed' \cup OnList') : Arrived(f)'
    BY <1>5, <1>9, <1>10, <2>1, <2>2
  <2> QED
    BY <2>1, <2>3, <2>4, <2>5 DEF FetchInv
<1>12. CASE ~job.transaction
  <2>1. UNCHANGED <<files, todo>> /\ cpc' = "copy"
    BY <1>3, <1>12 DEF Keep, GoTo
  <2>2. OnList' = OnList /\ cur' = g
    BY <1>1, <2>1 DEF OnList, cur
  <2>3. todo' \cap OnList' = {}
    BY <1>0, <2>1, <2>2 DEF FetchInv
  <2>4. \A f \in OnList' : Staying(f)'
    BY <1>7, <2>2
  <2>5. \A f \in listed' \ (todo' \cup missed' \cup OnList') : Arrived(f)'
    BY <1>5, <1>9, <1>10, <2>1, <2>2
  <2>6. got'[g] # NoFile /\ temp'[Temp(g)'] = got'[g]
    BY <1>2, <1>4, <1>5
  <2>7. got'[cur'] # NoFile /\ temp'[Temp(cur)'] = got'[cur']
    BY <2>2, <2>6 DEF Temp
  <2> QED
    BY <2>1, <2>3, <2>4, <2>5, <2>7 DEF FetchInv
<1> QED
  BY <1>11, <1>12

\* CopyFile of a file that was fetched: it arrives or is left behind.
LEMMA CopyArrives ==
  ASSUME IType, OwnTemps, job' = job, NEW f \in Files, CopyTo(f), got' = got, Staying(f)
  PROVE  /\ Staying(f)' /\ (f \in missed' \/ Arrived(f)')
         /\ missed \subseteq missed' /\ missed' \subseteq missed \cup {f}
         /\ \A g \in Files \ {f} : dest'[g] = dest[g] /\ temp'[Temp(g)] = temp[Temp(g)]
<1>1. /\ Temp(f) \in Files /\ \A g \in Files : Temp(g) \in Files
      /\ \A g : Temp(g)' = Temp(g)
      /\ temp \in [Files -> Contents \cup {NoFile}] /\ dest \in [Files -> Contents \cup {NoFile}]
  BY JobTypes DEF IType, DiskTypes, Temp
<1>2. CASE /\ temp[Temp(f)] # NoFile
           /\ dest' = [dest EXCEPT ![f] = temp[Temp(f)]]
           /\ temp' = [temp EXCEPT ![Temp(f)] = NoFile]
           /\ UNCHANGED missed
  <2>1. temp[Temp(f)] = got[f] /\ got[f] # NoFile
    BY <1>2 DEF Staying
  <2>2. dest'[f] = got'[f] /\ temp'[Temp(f)] = NoFile
    BY <1>1, <1>2, <2>1
  <2>3. \A g \in Files \ {f} : dest'[g] = dest[g] /\ temp'[Temp(g)] = temp[Temp(g)]
    BY <1>1, <1>2 DEF OwnTemps
  <2> QED
    BY <1>1, <1>2, <2>1, <2>2, <2>3 DEF Staying, Arrived
<1>3. CASE missed' = missed \cup {f} /\ UNCHANGED <<temp, dest>>
  BY <1>1, <1>3 DEF Staying
<1> QED
  BY <1>2, <1>3 DEF CopyTo

LEMMA FetchCopy ==
  ASSUME IType, Places, FetchInv, OwnTemps, Copy
  PROVE  FetchInv'
<1>0. Working /\ job' = job /\ UNCHANGED <<files, listed, got>> /\ cpc = "copy"
  BY DEF Copy, Working
<1>1. PICK g \in Files : g = cur /\ g \in todo /\ Temp(g) \in Files
  BY CurType, JobTypes DEF Copy, IType, Placed
<1>2. CopyTo(g) /\ got[g] # NoFile /\ temp[Temp(g)] = got[g]
  BY <1>0, <1>1 DEF Copy, FetchInv
<1>3. Staying(g)
  BY <1>2 DEF Staying
<1>4. /\ Staying(g)' /\ (g \in missed' \/ Arrived(g)')
      /\ missed \subseteq missed'
      /\ \A f \in Files \ {g} : dest'[f] = dest[f] /\ temp'[Temp(f)] = temp[Temp(f)]
  BY <1>0, <1>2, <1>3, CopyArrives
<1>5. OnList' = OnList /\ (\A f : Temp(f)' = Temp(f))
  BY <1>0 DEF OnList, Temp
<1>6. \A f \in OnList' : Staying(f)'
  <2> TAKE f \in OnList'
  <2>1. f \in Files \ {g} /\ Staying(f)
    BY <1>0, <1>1, <1>5, OnListTypes DEF FetchInv
  <2> QED
    BY <1>0, <1>4, <1>5, <2>1 DEF Staying
<1>7. todo' \subseteq todo /\ todo \subseteq todo' \cup {g}
  BY <1>1 DEF Copy
<1>8. todo' \cap OnList' = {}
  BY <1>0, <1>5, <1>7 DEF FetchInv
<1>9. \A f \in listed' \ (todo' \cup missed' \cup OnList') : Arrived(f)'
  <2> TAKE f \in listed' \ (todo' \cup missed' \cup OnList')
  <2>1. CASE f = g
    BY <1>4, <2>1
  <2>2. CASE f # g
    <3>1. f \in listed \ (todo \cup missed \cup OnList) /\ f \in Files
      BY <1>0, <1>4, <1>5, <1>7, <2>2 DEF IType, ListTypes
    <3>2. Arrived(f)
      BY <1>0, <3>1 DEF FetchInv
    <3> QED
      BY <1>0, <1>4, <2>2, <3>1, <3>2 DEF Arrived
  <2> QED
    BY <2>1, <2>2
<1>10. cpc' \in {"del", "file"} /\ (cpc' = "del" => cur' = g)
  BY <1>1 DEF Copy, GoTo, cur
<1>11. /\ g \in missed' \/ dest'[g] = got'[g]
       /\ got'[g] # NoFile /\ got'[g] \in {dest'[g], temp'[Temp(g)']}
  BY <1>4 DEF Staying, Arrived
<1>12. cpc' = "del" =>
         /\ cur' \in missed' \/ dest'[cur'] = got'[cur']
         /\ got'[cur'] # NoFile /\ got'[cur'] \in {dest'[cur'], temp'[Temp(cur)']}
  BY <1>10, <1>11 DEF Temp
<1> QED
  BY <1>6, <1>8, <1>9, <1>10, <1>12 DEF FetchInv

LEMMA FetchDeleted ==
  ASSUME IType, FetchInv, OwnTemps, Deleted
  PROVE  FetchInv'
<1>0. /\ Working /\ job' = job /\ UNCHANGED <<files, listed, missed, got, temp, dest>>
      /\ cpc = "wait_del" /\ cpc' = "file"
  BY DEF Deleted, Answered, Working, Done, GoTo, disk
<1>1. PICK g \in Files : g = cur /\ g \in todo
  BY <1>0, CurType DEF IType, Placed
<1>2. todo' = todo \ {g}
  BY <1>1 DEF Deleted, Done
<1>3. g \in missed \/ Arrived(g)
  BY <1>0, <1>1 DEF FetchInv, Arrived
<1>4. OnList' = OnList /\ (\A f : Staying(f)' = Staying(f)) /\ (\A f : Arrived(f)' = Arrived(f))
  BY <1>0 DEF OnList, Staying, Arrived, Temp
<1> QED
  BY <1>0, <1>2, <1>3, <1>4 DEF FetchInv

LEMMA FetchCommitCopy ==
  ASSUME IType, Places, FetchInv, OwnTemps, CommitCopy
  PROVE  FetchInv'
<1>0. Working /\ job' = job /\ UNCHANGED <<todo, listed, got>> /\ cpc = "commit" /\ files # <<>>
  BY DEF CommitCopy, Working
<1>1. PICK g \in Files : g = Head(files) /\ g \in OnList
  BY <1>0, OnListTypes
<1>2. CopyTo(g) /\ Staying(g) /\ todo = {}
  BY <1>0, <1>1 DEF CommitCopy, FetchInv, Places
<1>3. /\ Staying(g)' /\ (g \in missed' \/ Arrived(g)')
      /\ missed \subseteq missed'
      /\ \A f \in Files \ {g} : dest'[f] = dest[f] /\ temp'[Temp(f)] = temp[Temp(f)]
  BY <1>0, <1>2, CopyArrives
<1>4. /\ files' = files \/ files' = Tail(files)
      /\ cpc' \in {"commit", "drop"} /\ (cpc' = "drop" => files' = files)
  BY DEF CommitCopy, GoTo
<1>5. OnList' \subseteq OnList /\ OnList \subseteq OnList' \cup {g}
  <2>1. CASE files' = files
    BY <2>1 DEF OnList
  <2>2. CASE files' = Tail(files)
    BY <1>0, <1>1, <2>2, ListShrinks
  <2> QED
    BY <1>4, <2>1, <2>2
<1>6. \A f \in OnList : Staying(f)'
  <2> TAKE f \in OnList
  <2>1. f \in Files /\ Staying(f) /\ Temp(f)' = Temp(f)
    BY <1>0, OnListTypes DEF FetchInv, Temp
  <2>2. CASE f # g
    BY <1>0, <1>3, <2>1, <2>2 DEF Staying
  <2> QED
    BY <1>3, <2>2
<1>7. \A f \in listed' \ (todo' \cup missed' \cup OnList') : Arrived(f)'
  <2> TAKE f \in listed' \ (todo' \cup missed' \cup OnList')
  <2>1. CASE f = g
    BY <1>3, <2>1
  <2>2. CASE f # g
    <3>1. f \in listed \ (todo \cup missed \cup OnList) /\ f \in Files
      BY <1>0, <1>3, <1>5, <2>2 DEF IType, ListTypes
    <3>2. Arrived(f)
      BY <1>0, <3>1 DEF FetchInv
    <3> QED
      BY <1>0, <1>3, <2>2, <3>1, <3>2 DEF Arrived
  <2> QED
    BY <2>1, <2>2
<1>8. cpc' = "drop" => Head(files') \in missed' \/ dest'[Head(files')] = got'[Head(files')]
  BY <1>1, <1>3, <1>4 DEF Arrived
<1>9. todo' \cap OnList' = {}
  BY <1>0, <1>2
<1> QED
  BY <1>4, <1>5, <1>6, <1>7, <1>8, <1>9 DEF FetchInv

LEMMA FetchCommitDeleted ==
  ASSUME IType, Places, FetchInv, OwnTemps, CommitDeleted
  PROVE  FetchInv'
<1>0. /\ Working /\ job' = job /\ UNCHANGED <<todo, listed, missed, got, temp, dest>>
      /\ cpc = "wait_drop" /\ cpc' = "commit" /\ files' = Tail(files)
  BY DEF CommitDeleted, Working, GoTo, disk
<1>1. files # <<>> /\ todo = {}
  BY <1>0 DEF IType, Placed, Places
<1>2. OnList' \subseteq OnList /\ OnList \subseteq OnList' \cup {Head(files)}
  BY <1>0, <1>1, ListShrinks
<1>3. Staying(Head(files)) /\ (Head(files) \in missed \/ dest[Head(files)] = got[Head(files)])
  BY <1>0, <1>1, OnListTypes DEF FetchInv
<1>4. \A f \in listed \ (missed \cup OnList') : Arrived(f)
  BY <1>0, <1>1, <1>2, <1>3 DEF FetchInv, Arrived, Staying
<1>5. (\A f : Staying(f)' = Staying(f)) /\ (\A f : Arrived(f)' = Arrived(f))
  BY <1>0 DEF Staying, Arrived, Temp
<1> QED
  BY <1>0, <1>1, <1>2, <1>4, <1>5 DEF FetchInv

LEMMA FetchStep ==
  ASSUME IType, IType', Places, FetchInv, [Next]_vars
  PROVE  FetchInv'
<1>0. job' = job
  BY Steps
<1> SUFFICES ASSUME Working', OwnTemps' PROVE FetchInv'
  BY DEF FetchInv
<1>1. OwnTemps
  BY <1>0 DEF OwnTemps, Temp
<1>2. CASE Connect
  BY <1>2, FetchStart DEF Connect, GoTo
<1>3. CASE Begin
  <2>1. Working /\ files = <<>>
    BY <1>3 DEF Begin, Working, Places
  <2>2. CASE cpc' = "file"
    BY <1>3, <2>1, <2>2, FetchStart DEF Begin, Request, Out, Return, GoTo
  <2>3. CASE cpc' # "file"
    <3>1. UNCHANGED <<lists, disk>> /\ cpc' = "wait_list"
      BY <1>3, <2>3 DEF Begin, Request, Out, Return, GoTo, Working
    <3> QED
      BY <1>0, <2>1, <3>1, FetchSame
  <2> QED
    BY <2>2, <2>3
<1>4. CASE Listed
  <2>1. files' = <<>> /\ listed' = todo' /\ cpc' = "file"
    BY <1>4 DEF Listed, Answered, GoTo, Places
  <2> QED
    BY <2>1, FetchStart
<1>5. CASE NextFile \/ NoDirectory \/ NoTemp
  <2>1. Working /\ todo # {} /\ UNCHANGED disk /\ cpc \in {"file", "fetch"}
    BY <1>5 DEF NextFile, NoDirectory, NoTemp, Working, IType, Placed
  <2>2. CASE NextBlock
    <3>1. /\ todo' = todo \ {cur} /\ missed' = missed \cup {cur}
          /\ UNCHANGED <<files, listed, got, dest, temp>> /\ cpc' = "file"
      BY <2>1, <2>2 DEF NextBlock, GoTo, disk
    <3> QED
      BY <1>0, <2>1, <3>1, FetchSkip
  <2>3. CASE ~NextBlock
    <3>1. UNCHANGED lists /\ cpc' \in {"wait_hash", "fetch"}
      BY <1>5, <2>3 DEF NextFile, NoDirectory, NoTemp, FileError, Request, Out, Return, GoTo, Working
    <3> QED
      BY <1>0, <2>1, <3>1, FetchSame
  <2> QED
    BY <2>2, <2>3
<1>6. CASE CompareHash(FALSE) \/ CompareHash(TRUE)
  BY <1>1, <1>6, FetchCompare
<1>7. CASE Fetched
  BY <1>1, <1>7, FetchFetched
<1>8. CASE Mismatch \/ NotWritten
  <2>1. Working /\ todo # {} /\ UNCHANGED dest
    BY <1>8 DEF Mismatch, NotWritten, Answered, Working, IType, Placed, disk
  <2>2. NextBlock
    BY <1>8, Stops DEF Mismatch, NotWritten, Out, Working
  <2>3. cur \in Files /\ temp \in [Files -> Contents \cup {NoFile}]
    BY <2>1, CurType DEF IType, DiskTypes
  <2>4. \A t \in Files \ {Temp(cur)} : temp'[t] = temp[t]
    BY <1>8, <2>3 DEF Mismatch, NotWritten, disk
  <2> QED
    BY <1>0, <2>1, <2>2, <2>4, FetchSkip DEF NextBlock, GoTo
<1>9. CASE Copy
  BY <1>1, <1>9, FetchCopy
<1>10. CASE Deleted
  BY <1>1, <1>10, FetchDeleted
<1>11. CASE CommitCopy
  BY <1>1, <1>11, FetchCommitCopy
<1>12. CASE CommitDeleted
  BY <1>1, <1>12, FetchCommitDeleted
<1>13. CASE AllListed
  <2>1. /\ Working /\ UNCHANGED <<todo, files, listed, got, missed, temp, dest>>
        /\ cpc' \in {"commit", "sync"}
    BY <1>13 DEF AllListed, Working, lists, GoTo
  <2>2. /\ OnList' = OnList
        /\ \A f : Staying(f)' = Staying(f)
        /\ \A f : Arrived(f)' = Arrived(f)
    BY <1>0, <2>1 DEF OnList, Temp, Staying, Arrived
  <2> QED
    BY <1>1, <2>1, <2>2 DEF FetchInv
<1>14. CASE Fetch \/ Delete \/ CommitDelete \/ Committed \/ Sync
  <2>1. Working /\ UNCHANGED <<lists, disk>>
    BY <1>14 DEF Fetch, Delete, CommitDelete, Committed, Sync, Working
  <2>2. /\ cpc' # "copy"
        /\ cpc' \in {"del", "wait_del"} => cpc \in {"del", "wait_del"}
        /\ cpc' \in {"drop", "wait_drop"} => cpc \in {"drop", "wait_drop"}
    BY <1>14 DEF Fetch, Delete, CommitDelete, Committed, Sync, Request, Out, End, Return, GoTo
  <2> QED
    BY <1>0, <2>1, <2>2, FetchSame
<1>15. CASE \/ ConnectFail \/ SyncDelete(FALSE) \/ SyncDelete(TRUE) \/ NoSearch(FALSE) \/ NoSearch(TRUE) \/ Refused
            \/ NoAnswer(FALSE) \/ NoAnswer(TRUE) \/ Shutdown
  BY <1>15, Stops DEF ConnectFail, SyncDelete, NoSearch, Refused, NoAnswer, Shutdown, Out, End,
     Working
<1>16. CASE ~ClientActs
  <2>1. UNCHANGED <<job, lists, client, disk>>
    BY <1>16, Others
  <2>2. cpc' = cpc /\ Working
    BY <2>1 DEF client, Working
  <2> QED
    BY <2>1, <2>2, FetchSame
<1> QED
  BY <1>2, <1>3, <1>4, <1>5, <1>6, <1>7, <1>8, <1>9, <1>10, <1>11, <1>12, <1>13, <1>14, <1>15, <1>16
  DEF ClientActs, Client

-----------------------------------------------------------------------------
(* The sources, and what is said of them.                                  *)

\* An untouched source stays as it is, unless the job deletes it,
\* and then the client holds its content.
LEMMA SourceStep ==
  ASSUME IType, Channels, [Next]_vars
  PROVE  /\ touched \subseteq touched'
         /\ \A f \in Files \ touched' : src'[f] = src[f] \/ (Gone(f)' /\ (OwnTemps => f \in SafeFiles))
<1>1. CASE ClientActs
  <2>1. UNCHANGED source
    BY <1>1, ClientFrame DEF ClientActs
  <2> QED
    BY <2>1 DEF source
<1>2. CASE SourceChange
  <2>1. PICK f \in Files : \E c : src' = [src EXCEPT ![f] = c] /\ touched' = touched \cup {f}
    BY <1>2 DEF SourceChange
  <2> QED
    BY <2>1 DEF IType, SourceTypes
<1>3. CASE UNCHANGED vars
  BY <1>3 DEF vars, source
<1>4. ASSUME NEW k \in Attempts, SessionActs(k)
      PROVE  /\ touched \subseteq touched'
             /\ \A f \in Files \ touched' :
                  src'[f] = src[f] \/ (Gone(f)' /\ (OwnTemps => f \in SafeFiles))
  <2>1. CASE SrvGetFileChanged(k)
    <3>1. InputFile(k) \in Files
      BY <2>1, InputType DEF SrvGetFileChanged, Has
    <3>2. PICK c : src' = [src EXCEPT ![InputFile(k)] = c] /\ touched' = touched \cup {InputFile(k)}
      BY <2>1 DEF SrvGetFileChanged
    <3> QED
      BY <3>1, <3>2 DEF IType, SourceTypes
  <2>2. CASE SrvDelete(k)
    <3>1. c2s[k] # <<>> /\ Input(k).kind = "delete"
      BY <2>2 DEF SrvDelete, Has
    <3>2. Input(k) \in SafeCommands
      BY <3>1, ChannelType DEF Channels, Input
    <3>3. PICK g \in Files : Input(k).files = {g}
      BY <3>1, <3>2 DEF SafeCommands, LegalCommands
    <3>4. InputFile(k) = g
      BY <3>3 DEF InputFile
    <3>5. job.post = "delete" /\ (OwnTemps => g \in SafeFiles)
      BY <3>1, <3>2, <3>3 DEF SafeCommands
    <3>6. src' = [src EXCEPT ![g] = NoFile] /\ touched' = touched /\ job' = job
      BY <2>2, <3>4 DEF SrvDelete
    <3> QED
      BY <3>5, <3>6 DEF IType, SourceTypes, Gone
  <2>4. CASE SrvEnumCut(k)
    BY <2>4 DEF SrvEnumCut
  <2>3. CASE ~SrvGetFileChanged(k) /\ ~SrvDelete(k) /\ ~SrvEnumCut(k)
    <3>1. UNCHANGED source
      BY <1>4, <2>3 DEF SessionActs, Session, SrvEnum, SrvGetHash, SrvGetFile, SrvAck, SrvGiveUp,
         SrvError, Break
    <3> QED
      BY <3>1 DEF source
  <2> QED
    BY <2>1, <2>2, <2>3, <2>4
<1> QED
  BY <1>1, <1>2, <1>3, <1>4, Steps

\* What is true of the untouched files stays true.
LEMMA TruthGrows ==
  ASSUME IType, Channels, [Next]_vars
  PROVE  TrueAnswers \subseteq TrueAnswers'
<1>1. /\ touched \subseteq touched' /\ job' = job
      /\ \A f \in Files \ touched' : src'[f] = src[f] \/ Gone(f)'
  BY SourceStep, Steps
<1>2. \A f \in Files \ touched' : Gone(f) => Gone(f)'
  BY <1>1 DEF Gone
<1>3. ASSUME NEW m \in TrueAnswers
      PROVE  m \in TrueAnswers'
  <2>1. m \in LegalAnswers /\ m.files \subseteq Files
    BY DEF TrueAnswers, LegalAnswers, Answers
  <2>2. m.kind \in {"hash", "file"} =>
          \A f \in m.files \ touched' : /\ m.hash = src'[f] \/ Gone(f)'
                                        /\ m.kind = "file" => m.data = m.hash
    BY <1>1, <1>2, <2>1 DEF TrueAnswers
  <2>3. m.kind = "list" =>
          \A f \in Files \ touched' : /\ f \in m.files => src'[f] # NoFile \/ Gone(f)'
                                      /\ src'[f] # NoFile => f \in m.files
    <3>1. SUFFICES ASSUME m.kind = "list", NEW f \in Files \ touched'
                   PROVE  /\ f \in m.files => src'[f] # NoFile \/ Gone(f)'
                          /\ src'[f] # NoFile => f \in m.files
      OBVIOUS
    <3>2. /\ f \in m.files => src[f] # NoFile \/ Gone(f)
          /\ src[f] # NoFile => f \in m.files
      BY <1>1, <3>1 DEF TrueAnswers
    <3> QED
      BY <1>1, <1>2, <3>2 DEF Gone
  <2> QED
    BY <2>1, <2>2, <2>3 DEF TrueAnswers
<1> QED
  BY <1>3

\* An answer about the current file is true of it.
LEMMA AnswerTrue ==
  ASSUME IType, Channels, Matched, Working, s2c[try] # <<>>, Answer.kind \in {"hash", "file"}
  PROVE  cur \notin touched => /\ Answer.hash = src[cur] \/ Gone(cur)
                               /\ Answer.kind = "file" => Answer.data = Answer.hash
<1>1. Answer \in TrueAnswers
  BY NetSeqs, ChannelType DEF Channels, Answer
<1>2. Answer.files = {cur}
  BY Taken DEF Replies
<1> QED
  BY <1>1, <1>2 DEF TrueAnswers

LEMMA GotTrueStep ==
  ASSUME IType, Channels, Matched, Places, GotTrue, [Next]_vars
  PROVE  GotTrue'
<1>1. /\ touched \subseteq touched' /\ job' = job
      /\ \A f \in Files \ touched' : src'[f] = src[f] \/ Gone(f)'
  BY SourceStep, Steps
<1>2. SUFFICES ASSUME NEW f \in Files \ touched'
               PROVE  got'[f] \in {NoFile, src'[f]} \/ Gone(f)'
  BY DEF GotTrue
<1>3. (got[f] \in {NoFile, src[f]} \/ Gone(f)) /\ (Gone(f) => Gone(f)')
  BY <1>1, <1>2 DEF GotTrue, Gone
<1>4. CASE got'[f] = got[f]
  BY <1>1, <1>3, <1>4
<1>5. CASE Connect
  BY <1>5 DEF Connect
<1>6. CASE CompareHash(FALSE) \/ CompareHash(TRUE) \/ Fetched
  <2>1. /\ Working /\ s2c[try] # <<>> /\ Answer.kind \in {"hash", "file"} /\ UNCHANGED source
        /\ cur \in Files
    BY <1>6, CurType DEF CompareHash, Fetched, Answered, Working, IType, Placed
  <2>2. got'[f] = got[f] \/ (f = cur /\ got'[f] = Answer.hash)
    <3>1. got' = got \/ got' = [got EXCEPT ![cur] = Answer.hash]
      BY <1>6 DEF CompareHash, Fetched, lists
    <3> QED
      BY <1>2, <2>1, <3>1 DEF IType, ListTypes
  <2>3. CASE f = cur /\ got'[f] = Answer.hash
    <3>1. src' = src /\ touched' = touched
      BY <2>1 DEF source
    <3>2. Answer.hash = src[f] \/ Gone(f)
      BY <1>2, <2>1, <2>3, <3>1, AnswerTrue
    <3> QED
      BY <1>3, <2>3, <3>1, <3>2
  <2> QED
    BY <1>4, <2>2, <2>3
<1>7. CASE ClientActs /\ ~(Connect \/ CompareHash(FALSE) \/ CompareHash(TRUE) \/ Fetched)
  <2>1. got' = got
    BY <1>7 DEF ClientActs, Client, ConnectFail, NoDirectory, NoTemp, NotWritten, NoSearch,
       NoAnswer, Shutdown, Begin, Listed, NextFile, Fetch, Mismatch, Copy, Delete, Deleted,
       AllListed, CommitCopy, CommitDelete, CommitDeleted, Committed, Sync, SyncDelete, Refused,
       FileError, NextBlock, Done, lists
  <2> QED
    BY <1>4, <2>1
<1>8. CASE ~ClientActs
  BY <1>4, <1>8, Others DEF lists
<1> QED
  BY <1>5, <1>6, <1>7, <1>8

LEMMA ListTrueStep ==
  ASSUME IType, Channels, Places, ListTrue, [Next]_vars
  PROVE  ListTrue'
<1>1. /\ touched \subseteq touched' /\ job' = job
      /\ \A f \in Files \ touched' : src'[f] = src[f] \/ Gone(f)'
  BY SourceStep, Steps
<1>2. SUFFICES ASSUME job.wild, NEW f \in Files \ touched'
               PROVE  /\ Working' /\ f \in listed' => src'[f] # NoFile \/ Gone(f)'
                      /\ cpc' \notin {"connect", "begin", "wait_list", "done"} /\ src'[f] # NoFile
                           => f \in listed'
  BY <1>1 DEF ListTrue
<1>3. /\ Working /\ f \in listed => src[f] # NoFile \/ Gone(f)
      /\ cpc \notin {"connect", "begin", "wait_list", "done"} /\ src[f] # NoFile => f \in listed
      /\ Gone(f) => Gone(f)'
      /\ src'[f] # NoFile => src[f] # NoFile
  BY <1>1, <1>2 DEF ListTrue, Gone
<1>4. CASE ~Working'
  BY <1>4 DEF Working
<1>5. CASE Connect
  BY <1>5 DEF Connect, GoTo
<1>6. CASE Begin
  <2>1. cpc' \in {"wait_list", "connect", "done"} /\ listed' = listed /\ Working
    BY <1>2, <1>6 DEF Begin, Request, GoTo, Out, Return, lists, Working
  <2> QED
    BY <1>1, <1>3, <2>1 DEF Working
<1>7. CASE Listed
  <2>1. listed' = Answer.files /\ Answer.kind = "list" /\ UNCHANGED source /\ s2c[try] # <<>>
    BY <1>7 DEF Listed, Answered
  <2>2. Answer \in TrueAnswers
    BY <2>1, NetSeqs, ChannelType DEF Channels, Answer
  <2>3. /\ f \in Answer.files => src[f] # NoFile \/ Gone(f)
        /\ src[f] # NoFile => f \in Answer.files
    BY <1>1, <1>2, <2>1, <2>2 DEF TrueAnswers
  <2> QED
    BY <1>1, <1>3, <2>1, <2>3 DEF source
<1>8. CASE ClientActs /\ ~(Connect \/ Begin \/ Listed)
  <2>1. listed' = listed
    BY <1>8 DEF ClientActs, Client, ConnectFail, NoDirectory, NoTemp, NotWritten, NoSearch,
       NoAnswer, Shutdown, CompareHash, Fetched, NextFile, Fetch, Mismatch, Copy, Delete, Deleted,
       AllListed, CommitCopy, CommitDelete, CommitDeleted, Committed, Sync, SyncDelete, Refused,
       FileError, NextBlock, Keep, Done, lists
  <2>2. UNCHANGED source
    BY <1>8, ClientFrame DEF ClientActs
  <2>3. cpc = "wait_list" => ~Working'
    BY <1>8, Stops DEF ClientActs, Client, ConnectFail, NoDirectory, NoTemp, NotWritten, NoSearch,
       NoAnswer, Shutdown, CompareHash, Fetched, NextFile, Fetch, Mismatch, Copy, Delete, Deleted,
       AllListed, CommitCopy, CommitDelete, CommitDeleted, Committed, Sync, SyncDelete, Refused,
       Answered, Out, Working
  <2>4. cpc \in {"connect", "begin", "done"} => ~Working'
    BY <1>8, Stops DEF ClientActs, Client, ConnectFail, NoDirectory, NoTemp, NotWritten, NoSearch,
       NoAnswer, Shutdown, CompareHash, Fetched, NextFile, Fetch, Mismatch, Copy, Delete, Deleted,
       AllListed, CommitCopy, CommitDelete, CommitDeleted, Committed, Sync, SyncDelete, Refused,
       Answered, Out, Working, Waiting
  <2> QED
    BY <1>1, <1>3, <2>1, <2>2, <2>3, <2>4 DEF source, Working
<1>9. CASE ~ClientActs
  <2>1. listed' = listed /\ cpc' = cpc
    BY <1>9, Others DEF lists, client
  <2> QED
    BY <1>1, <1>3, <2>1 DEF Working
<1> QED
  BY <1>4, <1>5, <1>6, <1>7, <1>8, <1>9

-----------------------------------------------------------------------------
(* What a source may be deleted for stays with the client, whatever later  *)
(* attempts fetch, copy or throw away.                                     *)

LEMMA SafeGrows ==
  ASSUME IType, Channels, Matched, Places, GotTrue, FetchInv, [Next]_vars,
         OwnTemps, job.post = "delete"
  PROVE  SafeFiles \subseteq SafeFiles'
<1>0. /\ job' = job /\ touched \subseteq touched'
      /\ \A g \in Files \ touched' : src'[g] = src[g] \/ Gone(g)'
  BY SourceStep, Steps
<1>1. SUFFICES ASSUME NEW f \in Files \ touched', Retained(f)
               PROVE  Retained(f)'
  BY <1>0 DEF SafeFiles
<1>2. /\ Temp(f)' = Temp(f) /\ Temp(f) \in Files /\ f \notin touched
      /\ temp \in [Files -> Contents \cup {NoFile}] /\ dest \in [Files -> Contents \cup {NoFile}]
  BY <1>0, <1>1, JobTypes DEF Temp, IType, DiskTypes
<1>3. CASE UNCHANGED <<temp, dest>>
  BY <1>0, <1>1, <1>2, <1>3 DEF Retained, Gone
<1>4. CASE ~ClientActs
  BY <1>3, <1>4, Others DEF disk
<1>5. ASSUME ClientActs
      PROVE  src'[f] = src[f]
  BY <1>5, ClientFrame DEF ClientActs, source
<1>6. CASE Fetched
  <2>1. PICK g \in Files : g = cur /\ Temp(g) \in Files
    BY <1>6, CurType, JobTypes DEF Fetched, Answered, IType, Placed
  <2>2. temp' = [temp EXCEPT ![Temp(g)] = Answer.hash] /\ UNCHANGED dest
    BY <1>6, <2>1 DEF Fetched
  <2>3. CASE f = g
    <3>1. Answer.hash = src[f] \/ Gone(f)
      BY <1>2, <1>6, <2>1, <2>3, AnswerTrue DEF Fetched, Answered, Working
    <3>2. temp'[Temp(f)] = Answer.hash
      BY <1>2, <2>2, <2>3
    <3> QED
      BY <1>2, <1>5, <1>6, <3>1, <3>2 DEF Retained, Gone, ClientActs, Client
  <2>4. CASE f # g
    <3>1. temp'[Temp(f)] = temp[Temp(f)]
      BY <1>1, <1>2, <2>1, <2>2, <2>4 DEF OwnTemps
    <3> QED
      BY <1>1, <1>2, <1>5, <1>6, <2>2, <3>1 DEF Retained, ClientActs, Client
  <2> QED
    BY <2>3, <2>4
<1>7. CASE Mismatch
  <2>1. PICK g \in Files : g = cur /\ Temp(g) \in Files
    BY <1>7, CurType, JobTypes DEF Mismatch, Answered, IType, Placed
  <2>2. temp' = [temp EXCEPT ![Temp(g)] = NoFile] /\ UNCHANGED dest
    BY <1>7, <2>1 DEF Mismatch
  <2>3. CASE f = g
    <3>1. (Answer.hash = src[f] \/ Gone(f)) /\ Answer.data = Answer.hash
      BY <1>2, <1>7, <2>1, <2>3, AnswerTrue DEF Mismatch, Answered, Working
    <3>2. Received(Temp(f), Answer.data) # {Answer.hash}
      BY <1>7, <2>1, <2>3 DEF Mismatch
    <3>3. src[f] = temp[Temp(f)] => Gone(f)
      BY <3>1, <3>2 DEF Received
    <3>4. src[f] \in {NoFile, dest[f]}
      BY <1>1, <3>3 DEF Retained, Gone
    <3> QED
      BY <1>5, <1>7, <2>2, <3>4 DEF Retained, ClientActs, Client
  <2>4. CASE f # g
    <3>1. temp'[Temp(f)] = temp[Temp(f)]
      BY <1>1, <1>2, <2>1, <2>2, <2>4 DEF OwnTemps
    <3> QED
      BY <1>1, <1>2, <1>5, <1>7, <2>2, <3>1 DEF Retained, ClientActs, Client
  <2> QED
    BY <2>3, <2>4
<1>8. CASE Copy \/ CommitCopy
  <2>1. PICK g \in Files : CopyTo(g) /\ Staying(g) /\ got' = got
    <3>1. CASE Copy
      <4>1. cur \in Files /\ got[cur] # NoFile /\ temp[Temp(cur)] = got[cur]
        BY <3>1, CurType DEF Copy, IType, Placed, FetchInv, Working
      <4> QED
        BY <3>1, <4>1 DEF Copy, Staying
    <3>2. CASE CommitCopy
      <4>1. Head(files) \in Files /\ Head(files) \in OnList
        BY <3>2, OnListTypes DEF CommitCopy
      <4>2. Staying(Head(files))
        BY <3>2, <4>1 DEF CommitCopy, FetchInv, Working
      <4> QED
        BY <3>2, <4>1, <4>2 DEF CommitCopy
    <3> QED
      BY <1>8, <3>1, <3>2
  <2>2. CASE f = g /\ temp[Temp(g)] # NoFile /\ dest' = [dest EXCEPT ![g] = temp[Temp(g)]]
    <3>1. temp[Temp(f)] = got[f] /\ got[f] # NoFile
      BY <2>1, <2>2 DEF Staying
    <3>2. got[f] = src[f] \/ Gone(f)
      BY <1>1, <1>2, <3>1 DEF GotTrue
    <3>3. dest'[f] = got[f]
      BY <1>2, <2>2, <3>1
    <3> QED
      BY <1>5, <1>8, <3>2, <3>3 DEF Retained, Gone, ClientActs, Client
  <2>3. CASE f # g
    <3>1. dest'[f] = dest[f] /\ temp'[Temp(f)] = temp[Temp(f)]
      BY <1>0, <1>1, <2>1, <2>3, CopyArrives
    <3> QED
      BY <1>1, <1>2, <1>5, <1>8, <3>1 DEF Retained, ClientActs, Client
  <2> QED
    BY <1>3, <2>1, <2>2, <2>3 DEF CopyTo
<1>9. CASE SyncDelete(FALSE) \/ SyncDelete(TRUE)
  <2>1. job.post = "sync"
    BY <1>9 DEF SyncDelete, Answered, Places
  <2> QED
    BY <2>1
<1>10. CASE ClientActs /\ ~(Fetched \/ Mismatch \/ Copy \/ CommitCopy \/ SyncDelete(FALSE) \/ SyncDelete(TRUE))
  <2>1. UNCHANGED <<temp, dest>>
    BY <1>10 DEF ClientActs, Client, ConnectFail, NoDirectory, NoTemp, NotWritten, NoSearch,
       NoAnswer, Shutdown, CompareHash, Connect, Begin, Listed, NextFile, Fetch, Delete, Deleted,
       AllListed, CommitDelete, CommitDeleted, Committed, Sync, Refused, disk
  <2> QED
    BY <1>3, <2>1
<1> QED
  BY <1>4, <1>6, <1>7, <1>8, <1>9, <1>10

LEMMA ChannelGrows ==
  ASSUME NEW S, NEW T, S \subseteq T, NEW ch \in [Attempts -> Seq(S)]
  PROVE  ch \in [Attempts -> Seq(T)]
OBVIOUS

\* What a session says is true when it says it.
LEMMA SessionTrue ==
  ASSUME IType, Channels, NEW k \in Attempts, SessionActs(k), [Next]_vars
  PROVE  s2c' \in [Attempts -> Seq(TrueAnswers')]
<1> DEFINE T == TrueAnswers'
<1>0. s2c \in [Attempts -> Seq(T)] /\ TrueAnswers \subseteq T
  BY TruthGrows, ChannelGrows DEF Channels
<1>1. ASSUME NEW m \in T, UNCHANGED s2c \/ s2c' = Sends(s2c, k, m)
      PROVE  s2c' \in [Attempts -> Seq(T)]
  <2> QED
    BY <1>0, <1>1, ChannelType
<1>2. ASSUME NEW m \in T, NEW s, Reply(k, m, s)
      PROVE  s2c' \in [Attempts -> Seq(T)]
  BY <1>1, <1>2 DEF Reply
<1>3. \A e \in {"error", "deleted"} : Simple(e) \in T
  <2>1. \A e \in {"error", "deleted"} : Simple(e) \in TrueAnswers
    BY FrameTypes DEF TrueAnswers, Simple, Frame
  <2> QED
    BY <1>0, <2>1
<1>4. CASE SrvEnum(k)
  <2>1. List(there) \in TrueAnswers
    BY FrameTypes DEF TrueAnswers, Frame, List, there
  <2>2. \/ Reply(k, List(there), "idle")
        \/ Reply(k, Simple("error"), "idle")
    BY <1>4 DEF SrvEnum
  <2> QED
    BY <1>0, <1>2, <1>3, <2>1, <2>2
<1>9. CASE SrvEnumCut(k)
  <2>1. PICK part \in SUBSET there : /\ touched' = touched \cup (there \ part)
                                     /\ src' = src /\ Reply(k, List(part), "idle")
    BY <1>9 DEF SrvEnumCut
  <2>2. List(part) \in LegalAnswers
    BY <2>1, FrameTypes DEF List, there
  <2>3. List(part) \in T
    BY <2>1, <2>2 DEF TrueAnswers, Frame, List, there
  <2> QED
    BY <1>2, <2>1, <2>3
<1>5. CASE SrvGetHash(k) \/ SrvGetFile(k) \/ SrvGetFileChanged(k)
  <2>1. PICK g \in Files : g = InputFile(k) /\ src[g] \in Contents \cup {NoFile}
    BY <1>5, InputType DEF SrvGetHash, SrvGetFile, SrvGetFileChanged, Has, IType, SourceTypes
  <2>2. src[g] # NoFile => /\ Frame("hash", {g}, src[g], NoFile) \in TrueAnswers
                           /\ Frame("file", {g}, src[g], src[g]) \in TrueAnswers
    <3>1. src[g] # NoFile => /\ Frame("hash", {g}, src[g], NoFile) \in LegalAnswers
                             /\ Frame("file", {g}, src[g], src[g]) \in LegalAnswers
      BY <2>1, FrameTypes
    <3> QED
      BY <3>1 DEF TrueAnswers, Frame
  <2>3. CASE SrvGetHash(k)
    <3>1. \/ Reply(k, Simple("error"), "idle")
          \/ src[g] # NoFile /\ Reply(k, Frame("hash", {g}, src[g], NoFile), "idle")
      BY <2>1, <2>3 DEF SrvGetHash
    <3> QED
      BY <1>0, <1>2, <1>3, <2>2, <3>1
  <2>4. CASE SrvGetFile(k)
    <3>1. \/ Reply(k, Simple("error"), "idle")
          \/ src[g] # NoFile /\ Reply(k, Frame("file", {g}, src[g], src[g]), "ack")
      BY <2>1, <2>4 DEF SrvGetFile
    <3> QED
      BY <1>0, <1>2, <1>3, <2>2, <3>1
  <2>5. CASE SrvGetFileChanged(k)
    <3>1. PICK c \in Contents : /\ touched' = touched \cup {g}
                                /\ Reply(k, Frame("file", {g}, src[g], c), "ack")
      BY <2>1, <2>5 DEF SrvGetFileChanged
    <3>2. src[g] \in Contents
      BY <2>1, <2>5 DEF SrvGetFileChanged
    <3>3. Frame("file", {g}, src[g], c) \in LegalAnswers
      BY <3>2, FrameTypes
    <3>4. Frame("file", {g}, src[g], c) \in T
      BY <3>1, <3>3 DEF TrueAnswers, Frame
    <3> QED
      BY <1>2, <3>1, <3>4
  <2> QED
    BY <1>5, <2>3, <2>4, <2>5
<1>6. CASE SrvDelete(k) \/ SrvError(k)
  <2>1. \E e \in {"error", "deleted"} : Reply(k, Simple(e), "idle")
    BY <1>6 DEF SrvDelete, SrvError
  <2> QED
    BY <1>2, <1>3, <2>1
<1>7. CASE SrvAck(k) \/ SrvGiveUp(k)
  <2>1. UNCHANGED s2c
    BY <1>7 DEF SrvAck, SrvGiveUp, net
  <2> QED
    BY <1>0, <2>1
<1>8. CASE Break(k)
  <2>1. s2c' = [s2c EXCEPT ![k] = <<>>]
    BY <1>8 DEF Break
  <2> QED
    BY <1>0, <2>1, ChannelType
<1> QED
  BY <1>4, <1>5, <1>6, <1>7, <1>8, <1>9 DEF SessionActs, Session

\* The client asks for a source to be deleted only when it holds its content.
LEMMA DeleteSafe ==
  ASSUME IType, Places, GotTrue, FetchInv
  PROVE  /\ cpc = "del" => Command("delete", cur) \in SafeCommands
         /\ cpc = "drop" => Command("delete", Head(files)) \in SafeCommands
<1>1. ASSUME NEW f \in Files, job.post = "delete",
             OwnTemps => got[f] # NoFile /\ got[f] \in {dest[f], temp[Temp(f)]}
      PROVE  Command("delete", f) \in SafeCommands
  <2>1. OwnTemps => f \in SafeFiles
    BY <1>1 DEF GotTrue, SafeFiles, Retained, Gone
  <2>2. Command("delete", f) \in LegalCommands /\ Command("delete", f).files = {f}
    BY FrameTypes DEF Command, Frame
  <2> QED
    BY <1>1, <2>1, <2>2 DEF SafeCommands
<1>2. CASE cpc = "del"
  <2>1. cur \in Files /\ job.post = "delete"
    BY <1>2, CurType DEF IType, Placed, Places
  <2>2. OwnTemps => got[cur] # NoFile /\ got[cur] \in {dest[cur], temp[Temp(cur)]}
    BY <1>2 DEF FetchInv, Working
  <2> QED
    BY <1>1, <1>2, <2>1, <2>2
<1>3. CASE cpc = "drop"
  <2>1. Head(files) \in Files /\ Head(files) \in OnList /\ job.post = "delete"
    BY <1>3, OnListTypes DEF IType, Placed, Places
  <2>2. OwnTemps => Staying(Head(files))
    BY <1>3, <2>1 DEF FetchInv, Working
  <2>3. OwnTemps => /\ got[Head(files)] # NoFile
                    /\ got[Head(files)] \in {dest[Head(files)], temp[Temp(Head(files))]}
    BY <2>2 DEF Staying
  <2> QED
    BY <1>1, <1>3, <2>1, <2>3
<1> QED
  BY <1>2, <1>3

LEMMA ChannelsStep ==
  ASSUME IType, Places, Matched, Channels, GotTrue, FetchInv, [Next]_vars
  PROVE  Channels'
<1> DEFINE T == TrueAnswers'
           S == SafeCommands'
<1>1. TrueAnswers \subseteq T /\ s2c \in [Attempts -> Seq(T)] /\ try \in Attempts
  BY TruthGrows, ChannelGrows, NetSeqs DEF Channels
<1>2. SafeCommands \subseteq S
  <2>1. job' = job /\ (OwnTemps' <=> OwnTemps)
    BY Steps DEF OwnTemps, Temp
  <2>2. OwnTemps /\ job.post = "delete" => SafeFiles \subseteq SafeFiles'
    BY SafeGrows
  <2> QED
    BY <2>1, <2>2 DEF SafeCommands
<1>3. c2s \in [Attempts -> Seq(S)]
  BY <1>2, ChannelGrows DEF Channels
<1>4. CASE ClientActs
  <2>1. s2c' \in [Attempts -> Seq(T)]
    <3>1. CASE Connect
      BY <1>1, <3>1 DEF Connect
    <3>2. CASE ~Connect
      <4>1. Simple("rest") \in T
        <5>1. Simple("rest") \in TrueAnswers
          BY FrameTypes DEF TrueAnswers, Simple, Frame
        <5> QED
          BY <1>1, <5>1
      <4>2. \/ UNCHANGED s2c
            \/ s2c' = [s2c EXCEPT ![try] = <<>>]
            \/ /\ s2c[try] # <<>>
               /\ \/ s2c' = [s2c EXCEPT ![try] = Tail(@)]
                  \/ s2c' = [s2c EXCEPT ![try] = <<Simple("rest")>> \o Tail(@)]
        BY <1>4, <3>2, ClientNet
      <4>3. [s2c EXCEPT ![try] = <<>>] \in [Attempts -> Seq(T)]
        BY <1>1, ChannelType
      <4>4. s2c[try] # <<>> =>
              /\ [s2c EXCEPT ![try] = Tail(@)] \in [Attempts -> Seq(T)]
              /\ [s2c EXCEPT ![try] = <<Simple("rest")>> \o Tail(@)] \in [Attempts -> Seq(T)]
        BY <1>1, <4>1, ChannelType
      <4> QED
        BY <1>1, <4>2, <4>3, <4>4
    <3> QED
      BY <3>1, <3>2
  <2>2. c2s' \in [Attempts -> Seq(S)]
    <3>1. CASE Connect
      BY <1>3, <3>1 DEF Connect
    <3>2. CASE ~Connect
      <4>1. \A k \in {"ack", "nack", "enum"} : Simple(k) \in SafeCommands
        BY FrameTypes DEF SafeCommands, Simple, Frame
      <4>2. \A k \in {"get_hash", "get_file"}, f \in Files : Command(k, f) \in SafeCommands
        BY FrameTypes DEF SafeCommands, Command, Frame
      <4>3. UNCHANGED c2s \/ \E m \in SafeCommands : c2s' = Sends(c2s, try, m)
        <5>1. CASE /\ cpc \in {"file", "fetch"}
                   /\ \E k \in {"get_hash", "get_file"} : c2s' = Sends(c2s, try, Command(k, cur))
          <6>1. cur \in Files \/ UNCHANGED c2s
            <7>1. CASE cpc = "fetch"
              BY <7>1, CurType DEF IType, Placed
            <7>2. CASE cpc = "file" /\ todo # {}
              BY <7>2, CurType
            <7>3. CASE cpc = "file" /\ todo = {}
              BY <1>4, <7>3 DEF ClientActs, Client, ConnectFail, NoDirectory, NoTemp, NotWritten,
                 NoSearch, NoAnswer, Shutdown, CompareHash, Connect, Begin, Listed, NextFile, Fetch,
                 Fetched, Mismatch, Copy, Delete, Deleted, AllListed, CommitCopy, CommitDelete,
                 CommitDeleted, Committed, Sync, SyncDelete, Refused, Answered, Out, net
            <7> QED
              BY <5>1, <7>1, <7>2, <7>3
          <6> QED
            BY <4>2, <5>1, <6>1
        <5> QED
          BY <1>4, <3>2, <4>1, <5>1, ClientNet, DeleteSafe
      <4>4. \A m \in SafeCommands : Sends(c2s, try, m) \in [Attempts -> Seq(S)]
        BY <1>1, <1>2, <1>3, ChannelType
      <4> QED
        BY <1>3, <4>3, <4>4
    <3> QED
      BY <3>1, <3>2
  <2> QED
    BY <2>1, <2>2 DEF Channels
<1>5. ASSUME NEW k \in Attempts, SessionActs(k)
      PROVE  Channels'
  <2>1. s2c' \in [Attempts -> Seq(T)]
    BY <1>5, SessionTrue
  <2>2. \/ UNCHANGED c2s
        \/ c2s' = [c2s EXCEPT ![k] = <<>>]
        \/ c2s[k] # <<>> /\ c2s' = [c2s EXCEPT ![k] = Tail(@)]
    BY <1>5, SessionNet
  <2>3. /\ [c2s EXCEPT ![k] = <<>>] \in [Attempts -> Seq(S)]
        /\ c2s[k] # <<>> => [c2s EXCEPT ![k] = Tail(@)] \in [Attempts -> Seq(S)]
    BY <1>3, ChannelType
  <2>4. c2s' \in [Attempts -> Seq(S)]
    BY <1>3, <2>2, <2>3
  <2> QED
    BY <2>1, <2>4 DEF Channels
<1>6. CASE SourceChange \/ UNCHANGED vars
  <2>1. UNCHANGED <<c2s, s2c>>
    BY <1>6 DEF SourceChange, vars, net
  <2> QED
    BY <1>1, <1>3, <2>1 DEF Channels
<1> QED
  BY <1>4, <1>5, <1>6, Steps

-----------------------------------------------------------------------------
(* The inductive invariant.                                                *)

DeliveryInv ==
  IType /\ Places /\ Fresh /\ Matched /\ Channels /\ GotTrue /\ ListTrue /\ FetchInv

LEMMA DeliveryInit ==
  ASSUME Init
  PROVE  DeliveryInv /\ AllFetched /\ Mirrors
<1>1. IType
  BY ITypeInit
<1>2. ~Working /\ ~whole
  BY DEF Init, Working
<1>3. Places /\ Fresh
  BY DEF Init, Places, Fresh, Working
<1>4. Matched /\ FetchInv
  BY <1>2 DEF Matched, FetchInv
<1>5. Channels
  BY DEF Init, Channels
<1>6. GotTrue /\ ListTrue
  BY DEF Init, GotTrue, ListTrue, Working
<1>7. AllFetched /\ Mirrors
  BY <1>2 DEF AllFetched, Mirrors
<1> QED
  BY <1>1, <1>3, <1>4, <1>5, <1>6, <1>7 DEF DeliveryInv

LEMMA DeliveryStep ==
  ASSUME DeliveryInv, [Next]_vars
  PROVE  DeliveryInv'
<1>1. IType'
  BY ITypeStep DEF DeliveryInv
<1>2. Places' /\ Fresh'
  BY PlacesStep, FreshStep DEF DeliveryInv
<1>3. Matched' /\ FetchInv'
  BY <1>1, MatchedStep, FetchStep DEF DeliveryInv
<1>4. Channels' /\ GotTrue' /\ ListTrue'
  BY ChannelsStep, GotTrueStep, ListTrueStep DEF DeliveryInv
<1> QED
  BY <1>1, <1>2, <1>3, <1>4 DEF DeliveryInv

-----------------------------------------------------------------------------
(* The end of do_get_file.                                                 *)

\* do_get_file comes to its last line in one of two ways; from there only
\* sessions and users act.
LEMMA Ends ==
  ASSUME DeliveryInv, [Next]_vars, whole'
  PROVE  \/ /\ whole /\ UNCHANGED <<job, lists, disk>>
         \/ /\ ~whole /\ Sync /\ End /\ ~(job.post = "sync" /\ job.wild)
         \/ ~whole /\ (SyncDelete(FALSE) \/ SyncDelete(TRUE))
<1>1. CASE ~ClientActs
  <2>1. UNCHANGED <<job, lists, client, disk>>
    BY <1>1, Others DEF DeliveryInv
  <2> QED
    BY <2>1 DEF client
<1>2. CASE ClientActs
  <2>1. cpc # "done"
    BY <1>2 DEF ClientActs, Client, ConnectFail, NoDirectory, CompareHash, NoTemp, NotWritten,
       NoSearch, NoAnswer, Shutdown, Begin, Listed, NextFile, Fetch, Fetched, Mismatch, Copy,
       Delete, Deleted, AllListed, CommitCopy, CommitDelete, CommitDeleted, Committed, Sync,
       SyncDelete, Refused, Connect, Answered, Waiting
  <2>2. ~whole
    BY <2>1 DEF DeliveryInv, Places
  <2>3. whole' = whole \/ Sync \/ SyncDelete(FALSE) \/ SyncDelete(TRUE)
    BY <1>2 DEF ClientActs, Client, ConnectFail, NoDirectory, CompareHash, NoTemp, NotWritten,
       NoSearch, NoAnswer, Shutdown, Begin, Listed, NextFile, Fetch, Fetched, Mismatch, Copy,
       Delete, Deleted, AllListed, CommitCopy, CommitDelete, CommitDeleted, Committed,
       Refused, Connect, Request, Out, GoTo, FileError, NextBlock, Keep, Done
  <2>4. whole' \in BOOLEAN /\ whole \in BOOLEAN
    BY DeliveryStep DEF DeliveryInv, IType, ClientTypes
  <2>5. Sync => End /\ ~(job.post = "sync" /\ job.wild)
    BY <2>2, <2>4 DEF Sync, Request, Out, GoTo
  <2> QED
    BY <2>2, <2>3, <2>4, <2>5
<1> QED
  BY <1>1, <1>2

\* At the end every file that was listed has arrived or was left behind.
LEMMA AtEnd ==
  ASSUME DeliveryInv, OwnTemps, cpc \in {"sync", "wait_sync"}
  PROVE  \A f \in listed \ missed : f \in Files /\ Arrived(f)
<1>1. Working /\ todo = {} /\ files = <<>>
  BY DEF DeliveryInv, Places, Working
<1>2. OnList = {}
  BY <1>1 DEF OnList
<1>3. listed \subseteq Files
  BY DEF DeliveryInv, IType, ListTypes
<1> QED
  BY <1>1, <1>2, <1>3 DEF DeliveryInv, FetchInv

\* The answer a synchronisation deletes by names the files the server has.
LEMMA SyncAnswer ==
  ASSUME DeliveryInv, SyncDelete(FALSE) \/ SyncDelete(TRUE)
  PROVE  /\ job.post = "sync" /\ job.wild /\ cpc = "wait_sync"
         /\ UNCHANGED <<job, source, listed, got>> /\ missed \subseteq missed'
         /\ \A f \in Files \ touched : f \in Answer.files <=> src[f] # NoFile
         /\ \A f \in Answer.files \cap Files : dest'[f] = dest[f]
         /\ \A f \in Files \ (Answer.files \cup missed') : dest'[f] = NoFile
<1>1. /\ job.post = "sync" /\ job.wild /\ cpc = "wait_sync"
      /\ s2c[try] # <<>> /\ Answer.kind = "list"
      /\ UNCHANGED <<job, source, listed, got>>
  BY SyncDeletes DEF Answered, DeliveryInv, Places
<1>2. PICK over \in SUBSET Files :
        /\ missed' = missed \cup over
        /\ dest' = [f \in Files |-> IF f \in Answer.files \cup over THEN dest[f] ELSE NoFile]
  BY SyncDeletes
<1>3. Answer \in TrueAnswers
  BY <1>1, NetSeqs, ChannelType DEF DeliveryInv, Channels, Answer
<1>4. \A f \in Files : ~Gone(f)
  BY <1>1 DEF Gone
<1>5. \A f \in Files \ touched : f \in Answer.files <=> src[f] # NoFile
  BY <1>1, <1>3, <1>4 DEF TrueAnswers
<1>6. /\ missed \subseteq missed' /\ \A f \in Answer.files \cap Files : dest'[f] = dest[f]
      /\ \A f \in Files \ (Answer.files \cup missed') : dest'[f] = NoFile
  BY <1>2
<1> QED
  BY <1>1, <1>5, <1>6

LEMMA AllFetchedStep ==
  ASSUME DeliveryInv, AllFetched, [Next]_vars
  PROVE  AllFetched'
<1>1. touched \subseteq touched' /\ job' = job
  BY SourceStep, Steps DEF DeliveryInv
<1>2. SUFFICES ASSUME job.transaction, OwnTemps, whole', NEW f \in listed' \ (missed' \cup touched')
               PROVE  got'[f] # NoFile /\ dest'[f] = got'[f]
  BY <1>1 DEF AllFetched, OwnTemps, Temp
<1>3. CASE whole /\ UNCHANGED <<job, lists, disk>>
  BY <1>1, <1>2, <1>3 DEF AllFetched, lists, disk
<1>4. CASE Sync
  <2>1. UNCHANGED <<lists, disk>> /\ cpc = "sync"
    BY <1>4 DEF Sync
  <2> QED
    BY <1>2, <2>1, AtEnd DEF Arrived, lists, disk
<1>5. CASE SyncDelete(FALSE) \/ SyncDelete(TRUE)
  <2>1. /\ UNCHANGED <<listed, got, touched>> /\ missed \subseteq missed'
        /\ job.wild /\ cpc = "wait_sync" /\ Working
    BY <1>5, SyncAnswer DEF source, Working
  <2>2. f \in Files /\ Arrived(f) /\ f \in listed /\ f \notin touched
    BY <1>2, <2>1, AtEnd
  <2>3. src[f] # NoFile
    BY <1>5, <2>1, <2>2, SyncAnswer DEF DeliveryInv, ListTrue, Gone
  <2>4. dest'[f] = dest[f]
    BY <1>5, <2>2, <2>3, SyncAnswer
  <2> QED
    BY <2>1, <2>2, <2>4 DEF Arrived
<1> QED
  BY <1>2, <1>3, <1>4, <1>5, Ends

LEMMA MirrorsStep ==
  ASSUME DeliveryInv, Mirrors, [Next]_vars
  PROVE  Mirrors'
<1>1. /\ touched \subseteq touched' /\ job' = job
      /\ \A f \in Files \ touched' : src'[f] = src[f] \/ Gone(f)'
  BY SourceStep, Steps DEF DeliveryInv
<1>2. SUFFICES ASSUME job.post = "sync", job.wild, OwnTemps, whole', touched' = {}, missed' = {}
               PROVE  dest' = src'
  BY <1>1 DEF Mirrors, OwnTemps, Temp
<1>3. touched = {} /\ \A f \in Files : src'[f] = src[f]
  BY <1>1, <1>2 DEF Gone
<1>4. /\ src \in [Files -> Contents \cup {NoFile}] /\ src' \in [Files -> Contents \cup {NoFile}]
      /\ dest' \in [Files -> Contents \cup {NoFile}]
  BY DeliveryStep DEF DeliveryInv, IType, SourceTypes, DiskTypes
<1>5. CASE whole /\ UNCHANGED <<job, lists, disk>>
  <2>1. dest = src
    BY <1>2, <1>3, <1>5 DEF Mirrors, lists
  <2>2. \A f \in Files : dest'[f] = src'[f]
    BY <1>3, <1>5, <2>1 DEF disk
  <2> QED
    BY <1>4, <2>2
<1>6. CASE SyncDelete(FALSE) \/ SyncDelete(TRUE)
  <2>1. missed = {} /\ cpc = "wait_sync"
    BY <1>2, <1>6, SyncAnswer
  <2>2. ASSUME NEW f \in Files
        PROVE  dest'[f] = src'[f]
    <3>1. CASE src[f] = NoFile
      <4>1. f \notin Answer.files
        BY <1>3, <1>6, <3>1, SyncAnswer
      <4> QED
        BY <1>2, <1>3, <1>6, <3>1, <4>1, SyncAnswer
    <3>2. CASE src[f] # NoFile
      <4>1. f \in listed
        BY <1>2, <1>3, <2>1, <3>2 DEF DeliveryInv, ListTrue
      <4>2. Arrived(f)
        BY <1>2, <2>1, <4>1, AtEnd
      <4>3. got[f] = src[f]
        BY <1>2, <1>3, <4>2 DEF DeliveryInv, GotTrue, Arrived, Gone
      <4>4. f \in Answer.files
        BY <1>3, <1>6, <3>2, SyncAnswer
      <4> QED
        BY <1>3, <1>6, <4>2, <4>3, <4>4, SyncAnswer DEF Arrived
    <3> QED
      BY <3>1, <3>2
  <2> QED
    BY <1>4, <2>2
<1> QED
  BY <1>2, <1>5, <1>6, Ends

\* A transaction that comes to its end has every file that was listed, that no
\* user touched and no search passed over, with the content it found or fetched,
\* except those it had to leave: whatever earlier attempts fetched, committed or left in temporary
\* files, and however the list was filled and emptied (do_get_file,
\* clientjob.cpp 754-926).
THEOREM ReadTransactionDelivers == Spec => []AllFetched
<1>1. Init => DeliveryInv /\ AllFetched
  BY DeliveryInit
<1>2. DeliveryInv /\ AllFetched /\ [Next]_vars => DeliveryInv' /\ AllFetched'
  BY DeliveryStep, AllFetchedStep
<1> QED
  BY <1>1, <1>2, PTL DEF Spec

\* A synchronisation of a wildcard that comes to its end, with nothing left
\* behind or passed over by a search and no user at work, has made the two
\* directories equal: what was fetched is what the server has, and what the
\* server does not list is gone (do_get_file and sync_files, clientjob.cpp 754-1116; enum_files,
\* mainclass.cpp 1098-1210).
THEOREM ReadSyncMirrors == Spec => []Mirrors
<1>1. Init => DeliveryInv /\ Mirrors
  BY DeliveryInit
<1>2. DeliveryInv /\ Mirrors /\ [Next]_vars => DeliveryInv' /\ Mirrors'
  BY DeliveryStep, MirrorsStep
<1> QED
  BY <1>1, <1>2, PTL DEF Spec

\* A source no user has changed and no search passed over is deleted only when
\* its content is in the destination or still in the temporary file, although a
\* failed CopyFile is only logged and the session of an attempt long given up may carry the
\* deletion out (do_get_file, clientjob.cpp 754-930, and delete_file,
\* mainclass.cpp 1212-1307).
THEOREM ReadKeepsSource == Spec => HeldSomewhere
<1>1. Init => DeliveryInv
  BY DeliveryInit
<1>2. DeliveryInv /\ [Next]_vars => DeliveryInv'
  BY DeliveryStep
<1>3. DeliveryInv /\ [Next]_vars =>
        (OwnTemps => \A f \in Files \ touched' : src[f] # NoFile /\ src'[f] = NoFile =>
                       src[f] \in {dest[f], temp[Temp(f)]})
  <2> SUFFICES ASSUME DeliveryInv, [Next]_vars, OwnTemps, NEW f \in Files \ touched',
                      src[f] # NoFile, src'[f] = NoFile
               PROVE  src[f] \in {dest[f], temp[Temp(f)]}
    OBVIOUS
  <2>1. touched \subseteq touched' /\ f \in SafeFiles
    BY SourceStep DEF DeliveryInv
  <2> QED
    BY <2>1 DEF SafeFiles, Retained
<1> QED
  BY <1>1, <1>2, <1>3, PTL DEF Spec, HeldSomewhere
=============================================================================
