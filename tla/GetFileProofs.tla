---------------------------- MODULE GetFileProofs ----------------------------
(***************************************************************************)
(* Theorems about GetFile, for any contents (the empty one among them),    *)
(* block sizes and numbers of attempts and faults, and any number of       *)
(* sessions at work for one client.                                        *)
(***************************************************************************)
EXTENDS GetFile, BlocksProofs

LEMMA ConstantTypes ==
  /\ BlockSize \in Nat \ {0} /\ MinSize \in Nat
  /\ MaxTry \in Nat \ {0} /\ MaxFaults \in Nat
  /\ Versions \subseteq Content
  /\ NoFile \notin Content /\ Torn \notin Content /\ NoFile # Torn
BY GetFileAssumption, BlocksAssumption

-----------------------------------------------------------------------------
(* The inductive invariant.                                                *)

\* From the request for the file to the deletion of temp the client has one,
\* and writes inside it.
Placed ==
  /\ cpc \in {"wait_file", "recv", "check", "ack", "copy", "copying", "drop"} => temp \in Content
  /\ cpc \in {"wait_file", "recv"} => off <= Len(temp)

\* What the client passes on to the copy was announced, or nobody checks it.
Trusted ==
  /\ want.hash \in announced \cup {NoFile}
  /\ cpc \in {"ack", "copy", "copying", "drop"} => temp \in announced \cup unchecked
  /\ cpc = "copying" => dest = Torn
  /\ cpc = "drop" => dest = temp

ClientInv ==
  /\ cpc \in {"connect", "begin", "open", "recv", "check", "ack", "copy", "copying",
              "drop", "post", "done"} \cup Waiting
  /\ try \in Attempts
  /\ want \in [hash : Content \cup {NoFile}, size : Nat]
  /\ left \in Int /\ off \in Nat /\ result \in BOOLEAN
  /\ temp \in Content \cup {NoFile} /\ dest \in Content \cup {NoFile, Torn}
  /\ unchecked \subseteq Content
  /\ Placed /\ Trusted

\* A session that sends has the source open.
ServerInv ==
  /\ src \in Content \cup {NoFile} /\ doubtful \in BOOLEAN
  /\ spc \in [Attempts -> Live \cup {"none", "ended"}]
  /\ hashed \in [Attempts -> Content \cup {NoFile}]
  /\ blk \in [Attempts -> Nat] /\ pages \in [Attempts -> Nat]
  /\ announced \subseteq Content
  /\ \A k \in Attempts : spc[k] \in Sending => src \in Content

\* The hash that comes with a file has been announced; a block has a content.
LegalAnswers ==
  {m \in Answers : /\ m.kind = "file" => m.data \in announced \cup {NoFile}
                   /\ m.kind = "data" => m.data \in Content}

NetInv ==
  /\ c2s \in [Attempts -> Seq(Commands)] /\ s2c \in [Attempts -> Seq(LegalAnswers)]
  /\ up \in [Attempts -> BOOLEAN]

FetchInv == ClientInv /\ ServerInv /\ NetInv /\ faults \in 0..MaxFaults

LEMMA FetchInvInit == Init => FetchInv
<1> SUFFICES ASSUME Init PROVE FetchInv
  OBVIOUS
<1>1. 1 \in Attempts
  BY ConstantTypes DEF Attempts
<1>2. src \in Content /\ dest \in Content \cup {NoFile} /\ announced \subseteq Content
  BY ConstantTypes DEF Init
<1>3. ClientInv
  <2>1. Placed /\ Trusted
    BY DEF Init, Placed, Trusted
  <2>2. want \in [hash : Content \cup {NoFile}, size : Nat]
    BY DEF Init
  <2>3. left \in Int /\ off \in Nat /\ unchecked \subseteq Content
    BY DEF Init
  <2>6. result \in BOOLEAN
    BY Zenon DEF Init
  <2>4. temp \in Content \cup {NoFile} /\ try \in Attempts
    BY <1>1 DEF Init
  <2>5. cpc = "connect"
    BY DEF Init
  <2> QED
    BY <1>2, <2>1, <2>2, <2>3, <2>4, <2>5, <2>6 DEF ClientInv
<1>4. ServerInv
  BY <1>2 DEF Init, ServerInv, Live, Sending
<1>5. NetInv
  BY DEF Init, NetInv
<1> QED
  BY <1>3, <1>4, <1>5, ConstantTypes DEF Init, FetchInv

-----------------------------------------------------------------------------
(* Frames and channels.                                                    *)

LEMMA ChannelType ==
  ASSUME NEW S, NEW ch \in [Attempts -> Seq(S)], NEW k \in Attempts
  PROVE  /\ \A m \in S : Sends(ch, k, m) \in [Attempts -> Seq(S)]
         /\ [ch EXCEPT ![k] = <<>>] \in [Attempts -> Seq(S)]
         /\ ch[k] # <<>> =>
              /\ Head(ch[k]) \in S
              /\ [ch EXCEPT ![k] = Tail(@)] \in [Attempts -> Seq(S)]
              /\ \A m \in S : [ch EXCEPT ![k] = [@ EXCEPT ![1] = m]] \in [Attempts -> Seq(S)]
<1>1. ch[k] \in Seq(S) /\ <<>> \in Seq(S)
  OBVIOUS
<1>2. ASSUME NEW m \in S PROVE Sends(ch, k, m) \in [Attempts -> Seq(S)]
  BY <1>1 DEF Sends
<1>3. ASSUME ch[k] # <<>>
      PROVE  /\ Head(ch[k]) \in S
             /\ [ch EXCEPT ![k] = Tail(@)] \in [Attempts -> Seq(S)]
             /\ \A m \in S : [ch EXCEPT ![k] = [@ EXCEPT ![1] = m]] \in [Attempts -> Seq(S)]
  <2>1. 1 \in 1..Len(ch[k])
    BY <1>1, <1>3, EmptySeq, LenProperties
  <2>2. /\ Head(ch[k]) \in S /\ Tail(ch[k]) \in Seq(S)
        /\ \A m \in S : [ch[k] EXCEPT ![1] = m] \in Seq(S)
    BY <1>1, <1>3, <2>1, HeadTailProperties, ExceptSeq
  <2> QED
    BY <2>2
<1> QED
  BY <1>1, <1>2, <1>3

LEMMA FrameTypes ==
  /\ \A c \in {"get_hash", "get_file", "delete", "ok", "error"}, n \in Nat :
       Frame(c, NoFile, n) \in Commands
  /\ \A c \in {"deleted", "error", "rest"} : Frame(c, NoFile, 0) \in LegalAnswers
  /\ \A d \in Content : /\ Frame("hash", d, 0) \in LegalAnswers
                        /\ Frame("data", d, 0) \in LegalAnswers
  /\ \A d \in Content \cup {NoFile}, n \in Nat :
       /\ Frame("file", d, n) \in Answers
       /\ d \in announced \cup {NoFile} => Frame("file", d, n) \in LegalAnswers
BY DEF Frame, Commands, Answers, LegalAnswers

LEMMA AnswerType ==
  ASSUME FetchInv, s2c[try] # <<>>
  PROVE  /\ Answer.n \in Nat /\ Answer.data \in Content \cup {NoFile}
         /\ Answer.kind = "file" => Answer.data \in announced \cup {NoFile}
         /\ Answer.kind = "data" => Answer.data \in Content
         /\ [s2c EXCEPT ![try] = Tail(@)] \in [Attempts -> Seq(LegalAnswers)]
         /\ [s2c EXCEPT ![try] = [@ EXCEPT ![1] = Frame("rest", NoFile, 0)]]
              \in [Attempts -> Seq(LegalAnswers)]
<1>1. s2c \in [Attempts -> Seq(LegalAnswers)] /\ try \in Attempts
  BY DEF FetchInv, ClientInv, NetInv
<1>2. Frame("rest", NoFile, 0) \in LegalAnswers
  BY FrameTypes
<1>3. Answer \in LegalAnswers
  BY <1>1, ChannelType DEF Answer
<1>4. /\ [s2c EXCEPT ![try] = Tail(@)] \in [Attempts -> Seq(LegalAnswers)]
      /\ [s2c EXCEPT ![try] = [@ EXCEPT ![1] = Frame("rest", NoFile, 0)]]
           \in [Attempts -> Seq(LegalAnswers)]
  BY <1>1, <1>2, ChannelType
<1> QED
  BY <1>3, <1>4 DEF LegalAnswers, Answers

LEMMA HangupType ==
  ASSUME FetchInv, NEW r \in BOOLEAN, Hangup(r)
  PROVE  /\ up' \in [Attempts -> BOOLEAN] /\ s2c' \in [Attempts -> Seq(LegalAnswers)]
         /\ result' \in BOOLEAN /\ try' \in Attempts /\ cpc' \in {"done", "connect"}
<1>1. up' \in [Attempts -> BOOLEAN] /\ s2c' \in [Attempts -> Seq(LegalAnswers)]
  <2>1. s2c \in [Attempts -> Seq(LegalAnswers)] /\ up \in [Attempts -> BOOLEAN] /\ try \in Attempts
    BY DEF FetchInv, ClientInv, NetInv
  <2>2. [s2c EXCEPT ![try] = <<>>] \in [Attempts -> Seq(LegalAnswers)]
    BY <2>1, ChannelType
  <2> QED
    BY <2>1, <2>2 DEF Hangup
<1>2. try' \in Attempts
  BY ConstantTypes DEF FetchInv, ClientInv, Hangup, Attempts
<1> QED
  BY <1>1, <1>2 DEF Hangup

LEMMA SendsType ==
  ASSUME FetchInv
  PROVE  \A c \in {"get_hash", "get_file", "delete", "ok", "error"}, n \in Nat :
           Sends(c2s, try, Frame(c, NoFile, n)) \in [Attempts -> Seq(Commands)]
<1>1. c2s \in [Attempts -> Seq(Commands)] /\ try \in Attempts
  BY DEF FetchInv, NetInv, ClientInv
<1> QED
  BY <1>1, ChannelType, FrameTypes

-----------------------------------------------------------------------------
(* The steps of the client.                                                *)

\* The client leaves the sessions and the source alone.
LEMMA SessionsKept ==
  ASSUME FetchInv, UNCHANGED <<source, sessions>>
  PROVE  ServerInv' /\ LegalAnswers' = LegalAnswers
<1>1. ServerInv'
  BY DEF FetchInv, ServerInv, source, sessions
<1> QED
  BY <1>1 DEF LegalAnswers, sessions

\* A place in the code where the client has no temporary file to care for.
LEMMA ClientMoves ==
  ASSUME FetchInv, UNCHANGED <<want, left, off, disk, announced>>,
         cpc' \in {"connect", "begin", "wait_hash", "open", "post", "wait_del", "done"},
         try' \in Attempts, result' \in BOOLEAN
  PROVE  ClientInv'
<1>1. UNCHANGED <<want, left, off, temp, dest, unchecked, announced>>
  BY DEF disk
<1>2. Placed' /\ Trusted'
  BY <1>1 DEF FetchInv, ClientInv, Placed, Trusted
<1> QED
  BY <1>1, <1>2 DEF FetchInv, ClientInv, Waiting

LEMMA ChannelsKept ==
  ASSUME FetchInv, UNCHANGED <<source, sessions>>,
         c2s' \in [Attempts -> Seq(Commands)], s2c' \in [Attempts -> Seq(LegalAnswers)],
         up' \in [Attempts -> BOOLEAN]
  PROVE  ServerInv' /\ NetInv'
BY SessionsKept DEF NetInv

\* The attempt ends and leaves everything else as it is.
LEMMA HangupStep ==
  ASSUME FetchInv, NEW r \in BOOLEAN, Hangup(r),
         UNCHANGED <<source, want, left, off, disk, sessions>>,
         c2s' \in [Attempts -> Seq(Commands)]
  PROVE  ClientInv' /\ ServerInv' /\ NetInv'
<1>1. /\ up' \in [Attempts -> BOOLEAN] /\ s2c' \in [Attempts -> Seq(LegalAnswers)]
      /\ result' \in BOOLEAN /\ try' \in Attempts /\ cpc' \in {"done", "connect"}
  BY HangupType
<1>2. UNCHANGED announced
  BY DEF sessions
<1> QED
  BY <1>1, <1>2, ClientMoves, ChannelsKept

LEMMA GivesUp ==
  ASSUME FetchInv,
         \/ ConnectFail \/ Refused \/ WriteError \/ BadStream \/ Deleted \/ ClientCrash
         \/ \E slow \in BOOLEAN : NoAnswer(slow)
  PROVE  ClientInv' /\ ServerInv' /\ NetInv'
<1>1. \E r \in BOOLEAN : Hangup(r)
  BY DEF ConnectFail, Refused, WriteError, BadStream, Deleted, ClientCrash, NoAnswer, NextBlock
<1>2. UNCHANGED <<source, want, left, off, disk, sessions>> /\ UNCHANGED c2s
  BY DEF ConnectFail, Refused, WriteError, BadStream, Deleted, ClientCrash, NoAnswer
<1>3. c2s' \in [Attempts -> Seq(Commands)]
  BY <1>2 DEF FetchInv, NetInv
<1> QED
  BY <1>1, <1>2, <1>3, HangupStep

\* Connect starts the session of the attempt.
LEMMA ConnectStep ==
  ASSUME FetchInv, Connect
  PROVE  ClientInv' /\ ServerInv' /\ NetInv'
<1>1. /\ UNCHANGED <<want, left, off, disk, announced, try, result, c2s, s2c>>
      /\ cpc' = "begin" /\ try \in Attempts
      /\ up' = [up EXCEPT ![try] = TRUE] /\ spc' = [spc EXCEPT ![try] = "idle"]
      /\ UNCHANGED <<src, doubtful, hashed, blk, pages>>
  BY DEF Connect, FetchInv, ClientInv, source
<1>2. ClientInv'
  <2>1. try' \in Attempts
    BY <1>1 DEF FetchInv, ClientInv
  <2>2. result' \in BOOLEAN
    BY <1>1 DEF FetchInv, ClientInv
  <2> QED
    BY <1>1, <2>1, <2>2, ClientMoves
<1>3. ServerInv'
  BY <1>1 DEF FetchInv, ServerInv, Live, Sending
<1>4. LegalAnswers' = LegalAnswers
  BY <1>1 DEF LegalAnswers
<1>5. NetInv'
  BY <1>1, <1>4 DEF FetchInv, NetInv
<1> QED
  BY <1>2, <1>3, <1>5

\* A request is written, or the attempt ends.
LEMMA RequestStep ==
  ASSUME FetchInv, NEW c \in {"get_hash", "get_file", "delete"}, NEW n \in Nat, NEW s,
         Request(Frame(c, NoFile, n), s)
  PROVE  /\ c2s' \in [Attempts -> Seq(Commands)] /\ s2c' \in [Attempts -> Seq(LegalAnswers)]
         /\ up' \in [Attempts -> BOOLEAN] /\ try' \in Attempts /\ result' \in BOOLEAN
         /\ cpc' \in {s, "connect", "done"}
<1>1. CASE /\ c2s' = Sends(c2s, try, Frame(c, NoFile, n)) /\ cpc' = s
           /\ UNCHANGED <<try, result, s2c, up>>
  <2>1. c2s' \in [Attempts -> Seq(Commands)]
    BY <1>1, SendsType
  <2>2. s2c' \in [Attempts -> Seq(LegalAnswers)] /\ up' \in [Attempts -> BOOLEAN]
    BY <1>1 DEF FetchInv, NetInv
  <2>3. try' \in Attempts
    BY <1>1 DEF FetchInv, ClientInv
  <2>4. result' \in BOOLEAN
    BY <1>1 DEF FetchInv, ClientInv
  <2> QED
    BY <1>1, <2>1, <2>2, <2>3, <2>4
<1>2. CASE Hangup(FALSE) /\ UNCHANGED c2s
  <2>1. c2s' \in [Attempts -> Seq(Commands)]
    BY <1>2 DEF FetchInv, NetInv
  <2> QED
    BY <1>2, <2>1, HangupType
<1> QED
  BY <1>1, <1>2 DEF Request

LEMMA BeginStep ==
  ASSUME FetchInv, Begin
  PROVE  ClientInv' /\ ServerInv' /\ NetInv'
<1>1. UNCHANGED <<source, want, left, off, disk, sessions>> /\ UNCHANGED announced
  BY DEF Begin, sessions
<1>2. CASE NextBlock /\ UNCHANGED c2s
  <2>1. c2s' \in [Attempts -> Seq(Commands)]
    BY <1>2 DEF FetchInv, NetInv
  <2> QED
    BY <1>1, <1>2, <2>1, HangupStep DEF NextBlock
<1>3. CASE Request(Frame("get_hash", NoFile, 0), "wait_hash")
  <2>1. /\ c2s' \in [Attempts -> Seq(Commands)] /\ s2c' \in [Attempts -> Seq(LegalAnswers)]
        /\ up' \in [Attempts -> BOOLEAN] /\ try' \in Attempts /\ result' \in BOOLEAN
        /\ cpc' \in {"wait_hash", "connect", "done"}
    BY <1>3, RequestStep
  <2> QED
    BY <1>1, <2>1, ClientMoves, ChannelsKept
<1>4. CASE cpc' = "open" /\ UNCHANGED <<try, result, net>>
  <2>1. try' \in Attempts /\ UNCHANGED <<c2s, s2c, up>>
    BY <1>4 DEF FetchInv, ClientInv, net
  <2>2. result' \in BOOLEAN
    BY <1>4 DEF FetchInv, ClientInv
  <2>3. ClientInv'
    BY <1>1, <1>4, <2>1, <2>2, ClientMoves
  <2> QED
    BY <1>1, <2>1, <2>3, ChannelsKept DEF FetchInv, NetInv
<1> QED
  BY <1>2, <1>3, <1>4 DEF Begin

LEMMA CompareHashStep ==
  ASSUME FetchInv, CompareHash
  PROVE  ClientInv' /\ ServerInv' /\ NetInv'
<1>1. /\ UNCHANGED <<source, want, left, off, disk, sessions>> /\ UNCHANGED announced
      /\ UNCHANGED <<try, c2s, up, result>> /\ cpc' \in {"post", "open"} /\ s2c[try] # <<>>
      /\ s2c' = [s2c EXCEPT ![try] = Tail(@)]
  BY DEF CompareHash, sessions, TakeAnswer
<1>2. s2c' \in [Attempts -> Seq(LegalAnswers)]
  BY <1>1, AnswerType
<1>3. try' \in Attempts
  BY <1>1 DEF FetchInv, ClientInv
<1>4. result' \in BOOLEAN
  BY <1>1 DEF FetchInv, ClientInv
<1>5. ClientInv'
  BY <1>1, <1>3, <1>4, ClientMoves
<1>6. c2s' \in [Attempts -> Seq(Commands)] /\ up' \in [Attempts -> BOOLEAN]
  BY <1>1 DEF FetchInv, NetInv
<1> QED
  BY <1>1, <1>2, <1>5, <1>6, ChannelsKept

LEMMA PostProcessStep ==
  ASSUME FetchInv, PostProcess
  PROVE  ClientInv' /\ ServerInv' /\ NetInv'
<1>1. UNCHANGED <<source, want, left, off, disk, sessions>> /\ UNCHANGED announced
  BY DEF PostProcess, sessions
<1>2. CASE NextBlock /\ UNCHANGED c2s
  <2>1. c2s' \in [Attempts -> Seq(Commands)]
    BY <1>2 DEF FetchInv, NetInv
  <2> QED
    BY <1>1, <1>2, <2>1, HangupStep DEF NextBlock
<1>3. CASE Request(Frame("delete", NoFile, 0), "wait_del")
  <2>1. /\ c2s' \in [Attempts -> Seq(Commands)] /\ s2c' \in [Attempts -> Seq(LegalAnswers)]
        /\ up' \in [Attempts -> BOOLEAN] /\ try' \in Attempts /\ result' \in BOOLEAN
        /\ cpc' \in {"wait_del", "connect", "done"}
    BY <1>3, RequestStep
  <2> QED
    BY <1>1, <2>1, ClientMoves, ChannelsKept
<1> QED
  BY <1>2, <1>3 DEF PostProcess

\* The file pointer is inside the file the client has opened or created.
LEMMA OpenTempStep ==
  ASSUME FetchInv, OpenTemp
  PROVE  ClientInv' /\ ServerInv' /\ NetInv'
<1> DEFINE file  == IF temp = NoFile THEN <<>> ELSE temp
           start == StartBlock(file)
<1>1. file \in Content /\ Len(file) \in Nat
  BY LenProperties DEF FetchInv, ClientInv, Content
<1>2. start \in Nat /\ start * BlockSize \in Nat /\ start * BlockSize <= Len(file)
  BY <1>1, StartBlockBounds
<1>3. /\ temp' = file /\ off' = start * BlockSize
      /\ Request(Frame("get_file", NoFile, start), "wait_file")
      /\ UNCHANGED <<source, want, left, dest, unchecked, sessions>>
  BY DEF OpenTemp
<1> HIDE DEF file, start
<1>4. /\ c2s' \in [Attempts -> Seq(Commands)] /\ s2c' \in [Attempts -> Seq(LegalAnswers)]
      /\ up' \in [Attempts -> BOOLEAN] /\ try' \in Attempts /\ result' \in BOOLEAN
      /\ cpc' \in {"wait_file", "connect", "done"}
  BY <1>2, <1>3, RequestStep
<1>5. temp' \in Content /\ off' \in Nat /\ off' <= Len(temp')
  BY <1>1, <1>2, <1>3
<1>6. UNCHANGED <<want, left, dest, unchecked, announced>>
  BY <1>3 DEF sessions
<1>7. Placed' /\ Trusted'
  BY <1>4, <1>5, <1>6 DEF FetchInv, ClientInv, Placed, Trusted
<1>8. ClientInv'
  BY <1>4, <1>5, <1>6, <1>7 DEF FetchInv, ClientInv, Waiting
<1> QED
  BY <1>3, <1>4, <1>8, ChannelsKept

LEMMA StartReceivingStep ==
  ASSUME FetchInv, StartReceiving
  PROVE  ClientInv' /\ ServerInv' /\ NetInv'
<1>1. /\ UNCHANGED <<source, sessions>> /\ UNCHANGED <<try, off, temp, dest, announced, c2s, up>>
      /\ cpc = "wait_file" /\ s2c[try] # <<>> /\ Answer.kind = "file"
      /\ s2c' = [s2c EXCEPT ![try] = Tail(@)]
      /\ want' = [hash |-> Answer.data, size |-> Answer.n] /\ left' = Answer.n - off
      /\ \/ cpc' = "ack" /\ unchecked' = unchecked \cup {temp}
         \/ cpc' = "recv" /\ UNCHANGED unchecked
  BY DEF StartReceiving, sessions, TakeAnswer
<1>2. /\ Answer.n \in Nat /\ Answer.data \in Content \cup {NoFile}
      /\ Answer.data \in announced \cup {NoFile}
      /\ s2c' \in [Attempts -> Seq(LegalAnswers)]
  BY <1>1, AnswerType
<1>3. temp \in Content /\ off <= Len(temp) /\ off \in Nat
  BY <1>1 DEF FetchInv, ClientInv, Placed
<1>4. want' \in [hash : Content \cup {NoFile}, size : Nat] /\ left' \in Int
  BY <1>1, <1>2, <1>3
<1>5. want'.hash \in announced \cup {NoFile}
  BY <1>1, <1>2
<1>6. Placed' /\ Trusted'
  BY <1>1, <1>3, <1>5 DEF Placed, Trusted
<1>7. result' \in BOOLEAN
  BY DEF StartReceiving, FetchInv, ClientInv
<1>8. unchecked' \subseteq Content
  BY <1>1, <1>3 DEF FetchInv, ClientInv
<1>9. ClientInv'
  BY <1>1, <1>4, <1>6, <1>7, <1>8 DEF FetchInv, ClientInv
<1>10. c2s' \in [Attempts -> Seq(Commands)] /\ up' \in [Attempts -> BOOLEAN]
  BY <1>1 DEF FetchInv, NetInv
<1> QED
  BY <1>1, <1>2, <1>9, <1>10, ChannelsKept

\* What a block writes: a piece of its frame, where the last one ended.
LEMMA ReceiveStep ==
  ASSUME FetchInv, Receive
  PROVE  ClientInv' /\ ServerInv' /\ NetInv'
<1> DEFINE data == SubSeq(Answer.data, 1, Need)
<1>1. /\ UNCHANGED <<source, sessions>>
      /\ UNCHANGED <<try, want, dest, unchecked, announced, c2s, up>>
      /\ cpc = "recv" /\ left >= 0 /\ s2c[try] # <<>> /\ Answer.kind = "data"
      /\ Need <= Len(Answer.data)
      /\ temp' = WriteAt(temp, off, data) /\ off' = off + Need /\ left' = left - Need
      /\ cpc' \in {"check", "recv"}
      /\ \/ s2c' = [s2c EXCEPT ![try] = [@ EXCEPT ![1] = Frame("rest", NoFile, 0)]]
         \/ s2c' = [s2c EXCEPT ![try] = Tail(@)]
  BY DEF Receive, HasBlock, sessions
<1>2. Answer.data \in Content /\ s2c' \in [Attempts -> Seq(LegalAnswers)]
  BY <1>1, AnswerType
<1>3. temp \in Content /\ off <= Len(temp) /\ off \in Nat /\ left \in Int
  BY <1>1 DEF FetchInv, ClientInv, Placed
<1>4. Need \in Nat
  BY <1>1, <1>3, ConstantTypes DEF Need, Lesser
<1>5. data \in Content /\ Len(data) = Need
  BY <1>1, <1>2, <1>4, PrefixType
<1>6. temp' \in Content /\ Len(temp') >= off + Need
  BY <1>1, <1>3, <1>5, WriteAtType
<1> HIDE DEF data
<1>7. off' \in Nat /\ left' \in Int /\ off' <= Len(temp')
  BY <1>1, <1>3, <1>4, <1>6
<1>8. Placed' /\ Trusted'
  BY <1>1, <1>6, <1>7 DEF FetchInv, ClientInv, Placed, Trusted
<1>9. result' \in BOOLEAN
  BY DEF Receive, FetchInv, ClientInv
<1>10. ClientInv'
  BY <1>1, <1>6, <1>7, <1>8, <1>9 DEF FetchInv, ClientInv
<1>11. c2s' \in [Attempts -> Seq(Commands)] /\ up' \in [Attempts -> BOOLEAN]
  BY <1>1 DEF FetchInv, NetInv
<1> QED
  BY <1>1, <1>2, <1>10, <1>11, ChannelsKept

\* The bad file is deleted, or its hash cannot be taken; the server is told.
LEMMA RejectStep ==
  ASSUME FetchInv, Mismatch \/ HashFail
  PROVE  ClientInv' /\ ServerInv' /\ NetInv'
<1>1. /\ UNCHANGED <<source, sessions>> /\ UNCHANGED <<want, left, off, dest, unchecked, announced>>
      /\ temp' \in {temp, NoFile} /\ c2s' = Sends(c2s, try, Frame("error", NoFile, 0))
      /\ \E r \in BOOLEAN : Hangup(r)
  BY DEF Mismatch, HashFail, NextBlock, disk, sessions
<1>2. c2s' \in [Attempts -> Seq(Commands)]
  BY <1>1, SendsType
<1>3. /\ up' \in [Attempts -> BOOLEAN] /\ s2c' \in [Attempts -> Seq(LegalAnswers)]
      /\ result' \in BOOLEAN /\ try' \in Attempts /\ cpc' \in {"done", "connect"}
  BY <1>1, HangupType
<1>4. Placed' /\ Trusted'
  BY <1>1, <1>3 DEF FetchInv, ClientInv, Placed, Trusted
<1>5. ClientInv'
  BY <1>1, <1>3, <1>4 DEF FetchInv, ClientInv
<1> QED
  BY <1>1, <1>2, <1>3, <1>5, ChannelsKept

LEMMA AcknowledgeStep ==
  ASSUME FetchInv, Acknowledge
  PROVE  ClientInv' /\ ServerInv' /\ NetInv'
<1>1. UNCHANGED <<source, want, left, off, disk, sessions>> /\ cpc = "ack"
  BY DEF Acknowledge
<1>2. CASE Hangup(TRUE) /\ UNCHANGED c2s
  <2>1. c2s' \in [Attempts -> Seq(Commands)]
    BY <1>2 DEF FetchInv, NetInv
  <2> QED
    BY <1>1, <1>2, <2>1, HangupStep
<1>3. CASE /\ c2s' = Sends(c2s, try, Frame("ok", NoFile, 0)) /\ cpc' = "copy"
           /\ UNCHANGED <<try, result, s2c, up>>
  <2>1. c2s' \in [Attempts -> Seq(Commands)]
    BY <1>3, SendsType
  <2>2. s2c' \in [Attempts -> Seq(LegalAnswers)] /\ up' \in [Attempts -> BOOLEAN]
    BY <1>3 DEF FetchInv, NetInv
  <2>3. UNCHANGED <<temp, dest, unchecked, announced>>
    BY <1>1 DEF disk, sessions
  <2>4. Placed' /\ Trusted'
    BY <1>1, <1>3, <2>3 DEF FetchInv, ClientInv, Placed, Trusted
  <2>5. result' \in BOOLEAN
    BY <1>3 DEF FetchInv, ClientInv
  <2>6. ClientInv'
    BY <1>1, <1>3, <2>3, <2>4, <2>5 DEF FetchInv, ClientInv
  <2> QED
    BY <1>1, <2>1, <2>2, <2>6, ChannelsKept
<1> QED
  BY <1>2, <1>3 DEF Acknowledge

\* The steps between the check and the deletion of temp.
LEMMA InstallStep ==
  ASSUME FetchInv, Match \/ Copy \/ Copied \/ CopyFail \/ DropTemp
  PROVE  ClientInv' /\ ServerInv' /\ NetInv'
<1>1. /\ UNCHANGED <<source, sessions, net>>
      /\ UNCHANGED <<try, want, left, off, unchecked, announced, c2s, s2c, up>>
  BY DEF Match, Copy, Copied, CopyFail, DropTemp, disk, sessions, net
<1>2. result' \in BOOLEAN
  BY DEF Match, Copy, Copied, CopyFail, DropTemp, FetchInv, ClientInv
<1>3. temp' \in Content \cup {NoFile} /\ dest' \in Content \cup {NoFile, Torn}
  BY DEF Match, Copy, Copied, CopyFail, DropTemp, disk, FetchInv, ClientInv
<1>4. cpc' \in {"ack", "copying", "drop", "post"}
  BY DEF Match, Copy, Copied, CopyFail, DropTemp
<1>5. Placed'
  BY <1>1 DEF Match, Copy, Copied, CopyFail, DropTemp, disk, FetchInv, ClientInv, Placed
<1>6. Trusted'
  <2>1. CASE Match
    <3>1. temp = want.hash /\ temp \in Content /\ cpc' = "ack" /\ UNCHANGED <<temp, dest>>
      BY <2>1 DEF Match, FetchInv, ClientInv, Placed, disk
    <3>2. temp \in announced
      BY <3>1, ConstantTypes DEF FetchInv, ClientInv, Trusted
    <3> QED
      BY <1>1, <3>1, <3>2 DEF FetchInv, ClientInv, Trusted
  <2>2. CASE Copy \/ Copied \/ CopyFail \/ DropTemp
    BY <1>1, <2>2 DEF Copy, Copied, CopyFail, DropTemp, disk, FetchInv, ClientInv, Trusted
  <2> QED
    BY <2>1, <2>2
<1>7. ClientInv'
  BY <1>1, <1>2, <1>3, <1>4, <1>5, <1>6 DEF FetchInv, ClientInv
<1>8. ServerInv' /\ NetInv'
  <2>1. /\ c2s' \in [Attempts -> Seq(Commands)] /\ s2c' \in [Attempts -> Seq(LegalAnswers)]
        /\ up' \in [Attempts -> BOOLEAN]
    BY <1>1 DEF FetchInv, NetInv
  <2> QED
    BY <1>1, <2>1, ChannelsKept
<1> QED
  BY <1>7, <1>8

-----------------------------------------------------------------------------
(* The steps of a session and of the environment.                          *)

\* What the client trusts stays trusted when more is announced.
LEMMA ClientKept ==
  ASSUME FetchInv, UNCHANGED <<client, disk>>, announced \subseteq announced'
  PROVE  ClientInv'
<1>1. UNCHANGED <<cpc, try, want, left, off, result, temp, dest, unchecked>>
  BY DEF client, disk
<1>2. Placed'
  BY <1>1 DEF FetchInv, ClientInv, Placed
<1>3. Trusted'
  BY <1>1 DEF FetchInv, ClientInv, Trusted
<1>4. result' \in BOOLEAN
  BY <1>1 DEF FetchInv, ClientInv
<1> QED
  BY <1>1, <1>2, <1>3, <1>4 DEF FetchInv, ClientInv

LEMMA AnswersGrow ==
  ASSUME FetchInv, announced \subseteq announced'
  PROVE  s2c \in [Attempts -> Seq(LegalAnswers')]
<1>1. LegalAnswers \subseteq LegalAnswers'
  BY DEF LegalAnswers
<1>2. Seq(LegalAnswers) \subseteq Seq(LegalAnswers')
  BY <1>1
<1> QED
  BY <1>2 DEF FetchInv, NetInv

LEMMA SayType ==
  ASSUME FetchInv, announced \subseteq announced', NEW k \in Attempts,
         NEW m \in LegalAnswers', NEW s, Say(k, m, s)
  PROVE  /\ s2c' \in [Attempts -> Seq(LegalAnswers')] /\ up' \in [Attempts -> BOOLEAN]
         /\ \E t \in {s, "ended"} : spc' = [spc EXCEPT ![k] = t]
<1>1. s2c \in [Attempts -> Seq(LegalAnswers')]
  BY AnswersGrow
<1>2. Sends(s2c, k, m) \in [Attempts -> Seq(LegalAnswers')]
  BY <1>1, ChannelType
<1>3. s2c' \in [Attempts -> Seq(LegalAnswers')]
  BY <1>1, <1>2 DEF Say
<1>4. up' \in [Attempts -> BOOLEAN]
  BY DEF Say, FetchInv, NetInv
<1> QED
  BY <1>3, <1>4 DEF Say, Goto

LEMMA InputType ==
  ASSUME FetchInv, NEW k \in Attempts, c2s[k] # <<>>
  PROVE  /\ Input(k).n \in Nat
         /\ TakeInput(k) => c2s' \in [Attempts -> Seq(Commands)]
<1>1. c2s \in [Attempts -> Seq(Commands)]
  BY DEF FetchInv, NetInv
<1>2. Input(k) \in Commands /\ [c2s EXCEPT ![k] = Tail(@)] \in [Attempts -> Seq(Commands)]
  BY <1>1, ChannelType DEF Input
<1> QED
  BY <1>2 DEF TakeInput, Commands

LEMMA DoubtKept ==
  ASSUME FetchInv, UNCHANGED source
  PROVE  doubtful' \in BOOLEAN
BY DEF FetchInv, ServerInv, source

\* A session moves to t; the source is as it was while someone sends it.
LEMMA SessionMoves ==
  ASSUME FetchInv, NEW k \in Attempts, NEW t \in Live \cup {"ended"},
         spc' = [spc EXCEPT ![k] = t], t \in Sending => src \in Content,
         UNCHANGED src, doubtful' \in BOOLEAN, hashed' \in [Attempts -> Content \cup {NoFile}],
         blk' \in [Attempts -> Nat], pages' \in [Attempts -> Nat], announced' \subseteq Content
  PROVE  ServerInv'
<1>1. spc' \in [Attempts -> Live \cup {"none", "ended"}]
  BY DEF FetchInv, ServerInv
<1> QED
  BY <1>1 DEF FetchInv, ServerInv

\* A session answers from where it is with m and goes to s.
LEMMA AnswerStep ==
  ASSUME FetchInv, NEW k \in Attempts, NEW m \in LegalAnswers,
         NEW s \in {"idle", "ack", "send"}, s = "send" => spc[k] = "send",
         Say(k, m, s), c2s' \in [Attempts -> Seq(Commands)],
         UNCHANGED <<source, client, disk, hashed, pages, announced>>,
         blk' \in [Attempts -> Nat]
  PROVE  ClientInv' /\ ServerInv' /\ NetInv'
<1>1. LegalAnswers' = LegalAnswers
  BY DEF LegalAnswers
<1>2. ClientInv'
  BY ClientKept
<1>3. /\ s2c' \in [Attempts -> Seq(LegalAnswers')] /\ up' \in [Attempts -> BOOLEAN]
      /\ \E t \in {s, "ended"} : spc' = [spc EXCEPT ![k] = t]
  BY <1>1, SayType
<1>4. PICK t \in {s, "ended"} : spc' = [spc EXCEPT ![k] = t]
  BY <1>3
<1>5. t \in Live \cup {"ended"} /\ (t \in Sending => src \in Content)
  BY DEF Live, Sending, FetchInv, ServerInv
<1>6. /\ UNCHANGED src /\ hashed' \in [Attempts -> Content \cup {NoFile}]
      /\ pages' \in [Attempts -> Nat] /\ announced' \subseteq Content
  BY DEF FetchInv, ServerInv, source
<1>7. ServerInv'
  BY <1>4, <1>5, <1>6, DoubtKept, SessionMoves
<1> QED
  BY <1>2, <1>3, <1>7 DEF NetInv

\* The answers that need nothing but the source.
LEMMA SimpleAnswers ==
  ASSUME FetchInv, NEW k \in Attempts, SrvGetHash(k) \/ SrvInvalidCommand(k)
  PROVE  ClientInv' /\ ServerInv' /\ NetInv'
<1>1. /\ c2s[k] # <<>> /\ TakeInput(k)
      /\ UNCHANGED <<source, client, disk, hashed, pages, announced>> /\ UNCHANGED blk
  BY DEF SrvGetHash, SrvInvalidCommand
<1>2. c2s' \in [Attempts -> Seq(Commands)] /\ blk' \in [Attempts -> Nat]
  BY <1>1, InputType DEF FetchInv, ServerInv
<1>3. ErrorFrame \in LegalAnswers
  BY FrameTypes DEF ErrorFrame
<1>4. src # NoFile => Frame("hash", src, 0) \in LegalAnswers
  BY FrameTypes DEF FetchInv, ServerInv
<1>5. \E m \in LegalAnswers : Say(k, m, "idle")
  BY <1>3, <1>4 DEF SrvGetHash, SrvInvalidCommand
<1> QED
  BY <1>1, <1>2, <1>5, AnswerStep

LEMMA GetFileStep ==
  ASSUME FetchInv, NEW k \in Attempts, SrvGetFile(k)
  PROVE  ClientInv' /\ ServerInv' /\ NetInv'
<1>1. /\ c2s[k] # <<>> /\ TakeInput(k)
      /\ UNCHANGED <<src, client, disk, pages, announced>>
  BY DEF SrvGetFile
<1>2. c2s' \in [Attempts -> Seq(Commands)] /\ Input(k).n \in Nat
  BY <1>1, InputType
<1>3. CASE Say(k, ErrorFrame, "idle") /\ UNCHANGED <<doubtful, hashed, blk, faults>>
  <2>1. ErrorFrame \in LegalAnswers /\ blk' \in [Attempts -> Nat] /\ UNCHANGED source
    BY <1>1, <1>3, FrameTypes DEF ErrorFrame, FetchInv, ServerInv, source
  <2> QED
    BY <1>1, <1>2, <1>3, <2>1, AnswerStep
<1>4. CASE /\ src # NoFile /\ Goto(k, "hashed")
           /\ \E h \in {src, NoFile} : hashed' = [hashed EXCEPT ![k] = h]
           /\ doubtful' = doubtful \/ doubtful' = TRUE
           /\ blk' = [blk EXCEPT ![k] = Input(k).n] /\ UNCHANGED <<s2c, up>>
  <2>1. src \in Content
    BY <1>4 DEF FetchInv, ServerInv
  <2>2. /\ hashed' \in [Attempts -> Content \cup {NoFile}] /\ blk' \in [Attempts -> Nat]
        /\ pages' \in [Attempts -> Nat] /\ announced' \subseteq Content /\ UNCHANGED src
    BY <1>1, <1>2, <1>4, <2>1 DEF FetchInv, ServerInv
  <2>6. doubtful' \in BOOLEAN
    BY <1>4 DEF FetchInv, ServerInv
  <2>3. ServerInv'
    BY <1>4, <2>1, <2>2, <2>6, SessionMoves DEF Goto, Live, Sending
  <2>4. LegalAnswers' = LegalAnswers
    BY <1>1 DEF LegalAnswers
  <2>5. NetInv'
    BY <1>2, <1>4, <2>4 DEF FetchInv, NetInv
  <2> QED
    BY <1>1, <2>3, <2>5, ClientKept
<1> QED
  BY <1>3, <1>4 DEF SrvGetFile

\* The hash is announced; what goes with it may be the size of a later content.
LEMMA StartStep ==
  ASSUME FetchInv, NEW k \in Attempts, SrvStart(k)
  PROVE  ClientInv' /\ ServerInv' /\ NetInv'
<1> DEFINE s == IF src = <<>> THEN "ack" ELSE "send"
           m == Frame("file", hashed[k], Len(src))
<1>1. /\ spc[k] = "hashed" /\ announced' = announced \cup ({hashed[k]} \ {NoFile})
      /\ pages' = [pages EXCEPT ![k] = Len(src) \div BlockSize] /\ Say(k, m, s)
      /\ UNCHANGED <<source, client, disk, hashed, blk, c2s>>
  BY DEF SrvStart
<1>2. src \in Content /\ hashed[k] \in Content \cup {NoFile}
  BY <1>1 DEF FetchInv, ServerInv, Sending
<1>3. Len(src) \in Nat
  BY <1>2, LenProperties DEF Content
<1>4. Len(src) \div BlockSize \in Nat
  BY <1>3, BlockBounds
<1>5. m \in LegalAnswers'
  <2>1. m \in Answers /\ m.kind = "file" /\ m.data = hashed[k]
    BY <1>2, <1>3 DEF Frame, Answers
  <2> QED
    BY <1>1, <2>1 DEF LegalAnswers
<1>6. announced \subseteq announced' /\ announced' \subseteq Content
  BY <1>1, <1>2 DEF FetchInv, ServerInv
<1>7. s \in {"ack", "send"}
  OBVIOUS
<1> HIDE DEF s, m
<1>8. /\ s2c' \in [Attempts -> Seq(LegalAnswers')] /\ up' \in [Attempts -> BOOLEAN]
      /\ \E t \in {s, "ended"} : spc' = [spc EXCEPT ![k] = t]
  BY <1>1, <1>5, <1>6, SayType
<1>9. ServerInv'
  <2>1. PICK t \in {s, "ended"} : spc' = [spc EXCEPT ![k] = t]
    BY <1>8
  <2>2. t \in Live \cup {"ended"}
    BY <1>7 DEF Live, Sending
  <2>3. /\ hashed' \in [Attempts -> Content \cup {NoFile}] /\ blk' \in [Attempts -> Nat]
        /\ pages' \in [Attempts -> Nat] /\ UNCHANGED src
    BY <1>1, <1>4 DEF FetchInv, ServerInv, source
  <2> QED
    BY <1>1, <1>2, <1>6, <2>1, <2>2, <2>3, DoubtKept, SessionMoves
<1>10. NetInv'
  BY <1>1, <1>8 DEF FetchInv, NetInv
<1> QED
  BY <1>1, <1>6, <1>9, <1>10, ClientKept

\* The block a session sends is a piece of the source.
LEMMA BlockType ==
  ASSUME FetchInv, NEW k \in Attempts, spc[k] = "send", CanRead(k)
  PROVE  /\ blk[k] + 1 \in Nat
         /\ SubSeq(src, blk[k] * BlockSize + 1, blk[k] * BlockSize + NextSize(k)) \in Content
<1>1. src \in Content /\ blk[k] \in Nat /\ pages[k] \in Nat
  BY DEF FetchInv, ServerInv, Sending
<1>2. Len(src) \in Nat
  BY <1>1, LenProperties DEF Content
<1>3. blk[k] * BlockSize \in Nat /\ pages[k] * BlockSize \in Nat
  BY <1>1, BlockBounds
<1>4. NextSize(k) \in Int
  BY <1>2, <1>3, ConstantTypes DEF NextSize
<1>5. /\ blk[k] * BlockSize + NextSize(k) \in Int
      /\ blk[k] * BlockSize + NextSize(k) <= Len(src)
  BY <1>3, <1>4 DEF CanRead
<1>6. blk[k] * BlockSize + 1 \in Nat \ {0}
  BY <1>3
<1> QED
  BY <1>1, <1>5, <1>6, SubSeqType

LEMMA SendStep ==
  ASSUME FetchInv, NEW k \in Attempts, SrvSend(k)
  PROVE  ClientInv' /\ ServerInv' /\ NetInv'
<1> DEFINE d == SubSeq(src, blk[k] * BlockSize + 1, blk[k] * BlockSize + NextSize(k))
           s == IF blk[k] < pages[k] THEN "send" ELSE "ack"
<1>1. /\ spc[k] = "send" /\ CanRead(k) /\ Say(k, Frame("data", d, 0), s)
      /\ blk' = [blk EXCEPT ![k] = blk[k] + 1]
      /\ UNCHANGED <<source, client, disk, hashed, pages, announced>> /\ UNCHANGED c2s
  BY DEF SrvSend
<1>2. blk[k] + 1 \in Nat /\ d \in Content
  BY <1>1, BlockType
<1>3. s \in {"idle", "ack", "send"}
  OBVIOUS
<1> HIDE DEF d, s
<1>4. Frame("data", d, 0) \in LegalAnswers
  BY <1>2, FrameTypes
<1>5. c2s' \in [Attempts -> Seq(Commands)] /\ blk' \in [Attempts -> Nat]
  BY <1>1, <1>2 DEF FetchInv, ServerInv, NetInv
<1> QED
  BY <1>1, <1>3, <1>4, <1>5, AnswerStep

\* A session goes on without saying anything.
LEMMA SilentStep ==
  ASSUME FetchInv, NEW k \in Attempts, NEW t \in {"idle", "ack", "ended"},
         spc' = [spc EXCEPT ![k] = t], c2s' \in [Attempts -> Seq(Commands)],
         up' \in [Attempts -> BOOLEAN], UNCHANGED s2c,
         UNCHANGED <<source, client, disk, hashed, blk, pages, announced>>
  PROVE  ClientInv' /\ ServerInv' /\ NetInv'
<1>1. LegalAnswers' = LegalAnswers
  BY DEF LegalAnswers
<1>2. NetInv'
  BY <1>1 DEF FetchInv, NetInv
<1>3. /\ hashed' \in [Attempts -> Content \cup {NoFile}] /\ blk' \in [Attempts -> Nat]
      /\ pages' \in [Attempts -> Nat] /\ announced' \subseteq Content
      /\ UNCHANGED src
  BY DEF FetchInv, ServerInv, source
<1>4. t \in Live \cup {"ended"} /\ t \notin Sending
  BY DEF Live, Sending
<1>5. ServerInv'
  BY <1>3, <1>4, DoubtKept, SessionMoves
<1> QED
  BY <1>2, <1>5, ClientKept

LEMMA EndOfFileSteps ==
  ASSUME FetchInv, NEW k \in Attempts,
         SrvSentAll(k) \/ SrvAck(k) \/ SrvGiveUp(k) \/ \E f \in BOOLEAN : SrvReadError(k, f)
  PROVE  ClientInv' /\ ServerInv' /\ NetInv'
<1>1. UNCHANGED <<source, client, disk, hashed, blk, pages, announced>>
  BY DEF SrvSentAll, SrvAck, SrvGiveUp, SrvReadError
<1>2. /\ c2s \in [Attempts -> Seq(Commands)] /\ up \in [Attempts -> BOOLEAN]
      /\ [c2s EXCEPT ![k] = <<>>] \in [Attempts -> Seq(Commands)]
      /\ [up EXCEPT ![k] = FALSE] \in [Attempts -> BOOLEAN]
  <2>1. c2s \in [Attempts -> Seq(Commands)] /\ up \in [Attempts -> BOOLEAN]
    BY DEF FetchInv, NetInv
  <2> QED
    BY <2>1, ChannelType
<1>3. CASE SrvSentAll(k)
  BY <1>1, <1>2, <1>3, SilentStep DEF SrvSentAll, Goto, net
<1>4. CASE SrvAck(k)
  <2>1. c2s' \in [Attempts -> Seq(Commands)]
    BY <1>4, InputType DEF SrvAck
  <2> QED
    BY <1>1, <1>2, <1>4, <2>1, SilentStep DEF SrvAck, Goto
<1>5. CASE SrvGiveUp(k)
  <2>1. UNCHANGED s2c /\ up' \in {up, [up EXCEPT ![k] = FALSE]}
        /\ c2s' \in {c2s, [c2s EXCEPT ![k] = <<>>]}
        /\ \E t \in {"idle", "ended"} : spc' = [spc EXCEPT ![k] = t]
    BY <1>5 DEF SrvGiveUp, EndSession, Goto
  <2> QED
    BY <1>1, <1>2, <2>1, SilentStep
<1>6. ASSUME NEW f \in BOOLEAN, SrvReadError(k, f)
      PROVE  ClientInv' /\ ServerInv' /\ NetInv'
  <2>1. UNCHANGED c2s
    BY <1>6 DEF SrvReadError
  <2>2. CASE Say(k, ErrorFrame, "idle")
    <3>1. ErrorFrame \in LegalAnswers /\ blk' \in [Attempts -> Nat]
      BY <1>1, FrameTypes DEF ErrorFrame, FetchInv, ServerInv
    <3> QED
      BY <1>1, <1>2, <2>1, <2>2, <3>1, AnswerStep
  <2>3. CASE Goto(k, "idle") /\ UNCHANGED <<s2c, up>>
    BY <1>1, <1>2, <2>1, <2>3, SilentStep DEF Goto
  <2> QED
    BY <1>6, <2>2, <2>3 DEF SrvReadError
<1> QED
  BY <1>3, <1>4, <1>5, <1>6

\* The source is only deleted while no session has it open.
LEMMA DeleteStep ==
  ASSUME FetchInv, NEW k \in Attempts, SrvDeleteFile(k)
  PROVE  ClientInv' /\ ServerInv' /\ NetInv'
<1>1. /\ c2s[k] # <<>> /\ TakeInput(k)
      /\ UNCHANGED <<client, disk, hashed, blk, pages, announced>>
  BY DEF SrvDeleteFile
<1>2. c2s' \in [Attempts -> Seq(Commands)]
  BY <1>1, InputType
<1>3. /\ ErrorFrame \in LegalAnswers /\ Frame("deleted", NoFile, 0) \in LegalAnswers
      /\ blk' \in [Attempts -> Nat]
  BY <1>1, FrameTypes DEF ErrorFrame, FetchInv, ServerInv
<1>4. CASE UNCHANGED source /\ Say(k, ErrorFrame, "idle")
  BY <1>1, <1>2, <1>3, <1>4, AnswerStep
<1>5. CASE /\ \A j \in Attempts : spc[j] \notin Sending
           /\ src' = NoFile /\ UNCHANGED doubtful /\ Say(k, Frame("deleted", NoFile, 0), "idle")
  <2>1. LegalAnswers' = LegalAnswers
    BY <1>1 DEF LegalAnswers
  <2>2. /\ s2c' \in [Attempts -> Seq(LegalAnswers')] /\ up' \in [Attempts -> BOOLEAN]
        /\ \E t \in {"idle", "ended"} : spc' = [spc EXCEPT ![k] = t]
    BY <1>1, <1>3, <1>5, <2>1, SayType
  <2>3. /\ spc' \in [Attempts -> Live \cup {"none", "ended"}]
        /\ \A j \in Attempts : spc'[j] \notin Sending
    BY <1>5, <2>2 DEF FetchInv, ServerInv, Live, Sending
  <2>4. doubtful' \in BOOLEAN
    BY <1>5 DEF FetchInv, ServerInv
  <2>5. ServerInv'
    BY <1>1, <1>5, <2>3, <2>4 DEF FetchInv, ServerInv
  <2> QED
    BY <1>1, <1>2, <2>2, <2>5, ClientKept DEF NetInv
<1> QED
  BY <1>4, <1>5 DEF SrvDeleteFile

LEMMA SessionStep ==
  ASSUME FetchInv, NEW k \in Attempts, Session(k) \/ SrvReadError(k, TRUE)
  PROVE  ClientInv' /\ ServerInv' /\ NetInv'
BY SimpleAnswers, GetFileStep, StartStep, SendStep, EndOfFileSteps, DeleteStep DEF Session

LEMMA EnvironmentStep ==
  ASSUME FetchInv, SourceChange \/ ServerCrash \/ \E k \in Attempts : Break(k)
  PROVE  ClientInv' /\ ServerInv' /\ NetInv'
<1>1. UNCHANGED <<client, disk>> /\ UNCHANGED <<hashed, blk, pages, announced>>
  BY DEF SourceChange, ServerCrash, Break, sessions
<1>2. ClientInv' /\ LegalAnswers' = LegalAnswers
  BY <1>1, ClientKept DEF LegalAnswers
<1>3. CASE SourceChange
  <2>1. /\ src' \in Content \cup {NoFile} /\ doubtful' = TRUE /\ UNCHANGED <<sessions, net>>
        /\ src' = NoFile => \A k \in Attempts : spc[k] \notin Sending
    BY <1>3, ConstantTypes DEF SourceChange
  <2>2. ServerInv'
    BY <1>1, <2>1 DEF FetchInv, ServerInv, sessions
  <2>3. NetInv'
    BY <1>2, <2>1 DEF FetchInv, NetInv, net
  <2> QED
    BY <1>2, <2>2, <2>3
<1>4. CASE ServerCrash
  <2>1. NetInv'
    BY <1>2, <1>4 DEF ServerCrash, NetInv
  <2>2. /\ spc' \in [Attempts -> Live \cup {"none", "ended"}]
        /\ \A k \in Attempts : spc'[k] \in {"none", "ended"}
    BY <1>4 DEF ServerCrash
  <2>3. UNCHANGED <<src, doubtful>>
    BY <1>4 DEF ServerCrash, source
  <2>4. doubtful' \in BOOLEAN
    BY <2>3 DEF FetchInv, ServerInv
  <2>5. ServerInv'
    BY <1>1, <2>2, <2>3, <2>4 DEF FetchInv, ServerInv, Sending
  <2> QED
    BY <1>2, <2>1, <2>5
<1>5. ASSUME NEW k \in Attempts, Break(k)
      PROVE  ServerInv' /\ NetInv'
  <2>1. /\ UNCHANGED <<source, sessions>> /\ up' = [up EXCEPT ![k] = FALSE]
        /\ c2s' = [c2s EXCEPT ![k] = <<>>] /\ s2c' = [s2c EXCEPT ![k] = <<>>]
    BY <1>5 DEF Break
  <2>2. /\ c2s \in [Attempts -> Seq(Commands)] /\ s2c \in [Attempts -> Seq(LegalAnswers)]
        /\ up \in [Attempts -> BOOLEAN]
    BY DEF FetchInv, NetInv
  <2>3. /\ c2s' \in [Attempts -> Seq(Commands)] /\ s2c' \in [Attempts -> Seq(LegalAnswers)]
        /\ up' \in [Attempts -> BOOLEAN]
    BY <2>1, <2>2, ChannelType
  <2> QED
    BY <2>1, <2>3, ChannelsKept
<1> QED
  BY <1>2, <1>3, <1>4, <1>5

-----------------------------------------------------------------------------
(* The theorems.                                                           *)

LEMMA FaultsType ==
  ASSUME FetchInv, [Next]_vars
  PROVE  faults' \in 0..MaxFaults
<1>1. faults' = faults \/ Fault
  <2>1. CASE Client
    BY <2>1 DEF Client, Connect, Begin, CompareHash, Refused, OpenTemp, StartReceiving, Receive,
       BadStream, NoAnswer, Mismatch, Match, Acknowledge, Copy, Copied, DropTemp, PostProcess, Deleted
  <2>2. CASE \E k \in Attempts : Session(k)
    BY <2>2 DEF Session, SrvGetHash, SrvGetFile, SrvStart, SrvSend, SrvSentAll, SrvReadError,
       SrvAck, SrvDeleteFile, SrvInvalidCommand, SrvGiveUp
  <2>3. CASE Environment
    BY <2>3 DEF Environment, ConnectFail, WriteError, HashFail, NoAnswer, CopyFail, SourceChange,
       ServerCrash, ClientCrash, Break, SrvReadError
  <2>4. CASE UNCHANGED vars
    BY <2>4 DEF vars
  <2> QED
    BY <2>1, <2>2, <2>3, <2>4 DEF Next, Finished
<1>2. faults \in 0..MaxFaults
  BY DEF FetchInv
<1> QED
  BY <1>1, <1>2, ConstantTypes DEF Fault

LEMMA ClientStep ==
  ASSUME FetchInv,
         Client \/ ConnectFail \/ WriteError \/ HashFail \/ NoAnswer(TRUE) \/ CopyFail \/ ClientCrash
  PROVE  ClientInv' /\ ServerInv' /\ NetInv'
BY GivesUp, ConnectStep, BeginStep, CompareHashStep, PostProcessStep, OpenTempStep,
   StartReceivingStep, ReceiveStep, RejectStep, AcknowledgeStep, InstallStep DEF Client

LEMMA FetchInvStep ==
  ASSUME FetchInv, [Next]_vars
  PROVE  FetchInv'
<1>1. CASE UNCHANGED vars
  <2>1. UNCHANGED <<source, sessions>> /\ UNCHANGED <<client, disk>> /\ UNCHANGED <<net, announced>>
    BY <1>1 DEF vars, sessions
  <2>2. /\ c2s' \in [Attempts -> Seq(Commands)] /\ s2c' \in [Attempts -> Seq(LegalAnswers)]
        /\ up' \in [Attempts -> BOOLEAN]
    BY <2>1 DEF FetchInv, NetInv, net
  <2> QED
    BY <2>1, <2>2, ClientKept, ChannelsKept, FaultsType DEF FetchInv
<1>2. CASE Client \/ ConnectFail \/ WriteError \/ HashFail \/ NoAnswer(TRUE) \/ CopyFail \/ ClientCrash
  BY <1>2, ClientStep, FaultsType DEF FetchInv
<1>3. CASE \E k \in Attempts : Session(k) \/ SrvReadError(k, TRUE)
  BY <1>3, SessionStep, FaultsType DEF FetchInv
<1>4. CASE SourceChange \/ ServerCrash \/ \E k \in Attempts : Break(k)
  BY <1>4, EnvironmentStep, FaultsType DEF FetchInv
<1> QED
  BY <1>1, <1>2, <1>3, <1>4 DEF Next, Environment, Finished

LEMMA FetchInvAlways == Spec => []FetchInv
BY FetchInvInit, FetchInvStep, PTL DEF Spec

\* The variables of a fetch keep their types, whatever the sessions of earlier
\* attempts still do: no frame is read for what it is not, and the client
\* never writes outside its temporary file (do_get_file, command_get_file).
THEOREM FetchTypeCorrect == Spec => []TypeOK
<1>1. FetchInv => TypeOK
  <2>1. ASSUME NetInv PROVE s2c \in [Attempts -> Seq(Answers)]
    <3>1. LegalAnswers \subseteq Answers
      BY DEF LegalAnswers
    <3>2. Seq(LegalAnswers) \subseteq Seq(Answers)
      BY <3>1
    <3> QED
      BY <2>1, <3>2 DEF NetInv
  <2> QED
    BY <2>1 DEF FetchInv, ClientInv, ServerInv, NetInv, TypeOK
<1> QED
  BY <1>1, FetchInvAlways, PTL

\* "delete only if CopyFile succeed", "delete file with bad hash !!!": the
\* client deletes its temporary file only when the destination has become its
\* copy or its hash is not the announced one.
THEOREM FetchKeepsTemp == Spec => TempKept
<1>1. ASSUME FetchInv, [Next]_vars
      PROVE  [temp # NoFile /\ temp' = NoFile => dest = temp \/ temp # want.hash]_vars
  <2>1. CASE DropTemp
    BY <1>1, <2>1 DEF DropTemp, FetchInv, ClientInv, Trusted
  <2>2. CASE Mismatch
    BY <2>2 DEF Mismatch
  <2>3. CASE OpenTemp \/ Receive
    <3>1. ClientInv'
      BY <1>1, <2>3, OpenTempStep, ReceiveStep
    <3>2. temp' \in Content
      <4>1. CASE OpenTemp
        BY <1>1, <4>1, ConstantTypes DEF OpenTemp, FetchInv, ClientInv, Content
      <4>2. CASE Receive
        BY <3>1, <4>2 DEF Receive, ClientInv, Placed
      <4> QED
        BY <2>3, <4>1, <4>2
    <3> QED
      BY <3>2, ConstantTypes
  <2>4. CASE Client /\ ~DropTemp /\ ~Mismatch /\ ~OpenTemp /\ ~Receive
    BY <2>4 DEF Client, Connect, Begin, CompareHash, Refused, StartReceiving,
       BadStream, NoAnswer, Match, Acknowledge, Copy, Copied, PostProcess, Deleted, disk
  <2>5. CASE \E k \in Attempts : Session(k)
    BY <2>5 DEF Session, SrvGetHash, SrvGetFile, SrvStart, SrvSend, SrvSentAll, SrvReadError,
       SrvAck, SrvDeleteFile, SrvInvalidCommand, SrvGiveUp, disk
  <2>6. CASE Environment
    BY <2>6 DEF Environment, ConnectFail, WriteError, HashFail, NoAnswer, CopyFail, SourceChange,
       ServerCrash, ClientCrash, Break, SrvReadError, disk
  <2>7. CASE UNCHANGED vars
    BY <2>7
  <2> QED
    BY <1>1, <2>1, <2>2, <2>3, <2>4, <2>5, <2>6, <2>7 DEF Next, Finished
<1> QED
  BY <1>1, FetchInvAlways, PTL DEF Spec, TempKept

\* Every behaviour of a fetch is one of VerifiedFile, for any number of
\* sessions at work: the destination is only replaced by a content whose hash
\* was announced and checked, or by what nobody checks because the announced
\* size is 0 (571-604, 686-775).
THEOREM FetchImplementsVerifiedFile == Spec => ReplacesVerified
<1> USE DEF Replaced!Init, Replaced!Next, Replaced!vars, Replaced!Announce,
        Replaced!BeginCopy, Replaced!EndCopy
<1>1. Init => Replaced!Init
  BY ConstantTypes DEF Init
<1>2. ASSUME FetchInv, FetchInv', [Next]_vars
      PROVE  [Replaced!Next]_(Replaced!vars)
  <2>1. announced' \subseteq Content /\ unchecked' \subseteq Content
    BY <1>2 DEF FetchInv, ClientInv, ServerInv
  <2>2. CASE Copy
    BY <1>2, <2>2 DEF Copy, FetchInv, ClientInv, Trusted, sessions
  <2>3. CASE Copied
    BY <1>2, <2>3 DEF Copied, FetchInv, ClientInv, Trusted, sessions
  <2>4. CASE Client /\ ~Copy /\ ~Copied
    <3>1. UNCHANGED <<dest, announced>> /\ unchecked \subseteq unchecked'
      BY <2>4 DEF Client, Connect, Begin, CompareHash, Refused, OpenTemp, StartReceiving, Receive,
         BadStream, NoAnswer, Mismatch, Match, Acknowledge, DropTemp, PostProcess, Deleted,
         disk, sessions
    <3> QED
      BY <2>1, <3>1
  <2>5. CASE \E k \in Attempts : Session(k)
    <3>1. UNCHANGED <<dest, unchecked>> /\ announced \subseteq announced'
      BY <2>5 DEF Session, SrvGetHash, SrvGetFile, SrvStart, SrvSend, SrvSentAll, SrvReadError,
         SrvAck, SrvDeleteFile, SrvInvalidCommand, SrvGiveUp, disk
    <3> QED
      BY <2>1, <3>1
  <2>6. CASE Environment
    BY <2>6 DEF Environment, ConnectFail, WriteError, HashFail, NoAnswer, CopyFail, SourceChange,
       ServerCrash, ClientCrash, Break, SrvReadError, disk, sessions
  <2>7. CASE UNCHANGED vars
    BY <2>7 DEF vars, disk, sessions
  <2> QED
    BY <1>2, <2>2, <2>3, <2>4, <2>5, <2>6, <2>7 DEF Next, Finished
<1>3. FetchInv /\ [Next]_vars => FetchInv'
  BY FetchInvStep
<1> QED
  BY <1>1, <1>2, <1>3, FetchInvAlways, PTL DEF Spec, ReplacesVerified, Replaced!Spec
-----------------------------------------------------------------------------
(* Why the source is kept.                                                 *)

\* The source is what it was, and the server could take its hash.
Intact == ~doubtful /\ src \in Content

\* What a session says of a source that is intact is true.
TrueAnswers ==
  {m \in Answers : /\ m.kind = "hash" => m.data = src
                   /\ m.kind = "file" => m.data = src /\ m.n = Len(src)}
Honest ==
  /\ s2c \in [Attempts -> Seq(TrueAnswers)]
  /\ \A k \in Attempts : spc[k] = "hashed" => hashed[k] = src

\* Nothing is sent before an attempt connects.
Fresh ==
  \A k \in Attempts : k > try \/ (k = try /\ cpc = "connect") =>
    spc[k] = "none" /\ c2s[k] = <<>> /\ s2c[k] = <<>>

\* After h frames of another kind the blocks of the source, from p on; the
\* session that still sends goes on with the next one.
Train(h, p) ==
  /\ c2s[try] = <<>> /\ spc[try] \in {"send", "ack", "idle", "ended"}
  /\ \A i \in DOMAIN s2c[try] :
       i > h /\ s2c[try][i].kind = "data" => s2c[try][i].data = Piece(src, p + i - 1 - h)
  /\ spc[try] = "send" /\ up[try] =>
       /\ pages[try] = Len(src) \div BlockSize /\ h <= Len(s2c[try])
       /\ blk[try] = p + Len(s2c[try]) - h

\* How far the session of the attempt is with what the client waits for.
Silent  == c2s[try] = <<>> /\ s2c[try] = <<>> /\ spc[try] \in {"idle", "ended"}
Hashing ==
  /\ spc[try] \in {"idle", "ended"} /\ Len(s2c[try]) <= 1
  /\ \/ c2s[try] = <<>>
     \/ c2s[try] = <<Frame("get_hash", NoFile, 0)>> /\ s2c[try] = <<>>
Opening(p) ==
  \/ /\ c2s[try] = <<Frame("get_file", NoFile, p)>> /\ s2c[try] = <<>>
     /\ spc[try] \in {"idle", "ended"}
  \/ c2s[try] = <<>> /\ s2c[try] = <<>> /\ spc[try] = "hashed" /\ blk[try] = p
  \/ Train(1, p)

InStep ==
  /\ cpc \in {"begin", "open"} => Silent
  /\ cpc = "wait_hash" => Hashing
  /\ cpc = "wait_file" => \E p \in Nat : off = p * BlockSize /\ Opening(p)
  /\ cpc = "recv" => \E p \in Nat : off = p * BlockSize /\ left = Len(src) - off /\ Train(0, p)

\* What the client holds of the source.
Sure ==
  /\ src = <<>> => temp \in {NoFile, <<>>}
  /\ cpc \in {"recv", "check"} => want.hash = src /\ src # <<>>
  /\ cpc \in {"ack", "copy", "copying", "drop"} => temp = src

\* The deletion of the source is asked for, or about to be.
Asked ==
  \/ cpc \in {"post", "wait_del"}
  \/ \E k \in Attempts : \E i \in DOMAIN c2s[k] : c2s[k][i].kind = "delete"

Kept == Intact => Honest /\ InStep /\ Sure /\ (Asked => src \in {dest, temp})
KeptInv == Fresh /\ Kept

ClientActs == Client \/ ConnectFail \/ WriteError \/ HashFail \/ NoAnswer(TRUE) \/ CopyFail \/ ClientCrash
SessionActs(k) == Session(k) \/ SrvReadError(k, TRUE)
Cuts == ServerCrash \/ \E k \in Attempts : Break(k)

LEMMA Channels ==
  ASSUME FetchInv, NEW k \in Attempts
  PROVE  /\ c2s[k] \in Seq(Commands) /\ s2c[k] \in Seq(Answers) /\ try \in Attempts
         /\ c2s \in [Attempts -> Seq(Commands)] /\ s2c \in [Attempts -> Seq(Answers)]
         /\ spc \in [Attempts -> Live \cup {"none", "ended"}] /\ up \in [Attempts -> BOOLEAN]
         /\ blk \in [Attempts -> Nat] /\ pages \in [Attempts -> Nat]
         /\ hashed \in [Attempts -> Content \cup {NoFile}]
<1>1. LegalAnswers \subseteq Answers
  BY DEF LegalAnswers
<1>2. Seq(LegalAnswers) \subseteq Seq(Answers)
  BY <1>1
<1> QED
  BY <1>2 DEF FetchInv, ClientInv, ServerInv, NetInv

\* A client step: a connection, the end of the attempt, or a step of
\* do_get_file that leaves the sessions alone.
LEMMA ClientFrame ==
  ASSUME FetchInv, ClientActs
  PROVE  /\ UNCHANGED <<source, hashed, blk, pages, announced>>
         /\ \A k \in Attempts \ {try} :
              c2s'[k] = c2s[k] /\ s2c'[k] = s2c[k] /\ up'[k] = up[k] /\ spc'[k] = spc[k]
         /\ \/ Connect
            \/ UNCHANGED spc /\ try' = try /\ cpc' \notin {"connect", "begin", "done"}
            \/ UNCHANGED spc /\ \E r \in BOOLEAN : Hangup(r)
<1> USE Channels DEF sessions, source, net, Hangup, NextBlock, Request, Sends, TakeAnswer
<1>1. CASE Connect
  BY <1>1 DEF Connect
<1>2. CASE ConnectFail
  BY <1>2 DEF ConnectFail
<1>3. CASE Begin
  BY <1>3 DEF Begin
<1>4. CASE CompareHash
  BY <1>4 DEF CompareHash
<1>5. CASE Refused
  BY <1>5 DEF Refused
<1>6. CASE OpenTemp
  BY <1>6 DEF OpenTemp
<1>7. CASE StartReceiving
  BY <1>7 DEF StartReceiving
<1>8. CASE Receive
  BY <1>8 DEF Receive
<1>9. CASE WriteError
  BY <1>9 DEF WriteError
<1>10. CASE BadStream
  BY <1>10 DEF BadStream
<1>11. CASE \E slow \in BOOLEAN : NoAnswer(slow)
  BY <1>11 DEF NoAnswer
<1>12. CASE Mismatch
  BY <1>12 DEF Mismatch
<1>13. CASE Match
  BY <1>13 DEF Match
<1>14. CASE HashFail
  BY <1>14 DEF HashFail
<1>15. CASE Acknowledge
  BY <1>15 DEF Acknowledge
<1>16. CASE Copy \/ Copied
  BY <1>16 DEF Copy, Copied
<1>17. CASE CopyFail \/ DropTemp
  BY <1>17 DEF CopyFail, DropTemp
<1>18. CASE PostProcess
  BY <1>18 DEF PostProcess
<1>19. CASE Deleted
  BY <1>19 DEF Deleted
<1>20. CASE ClientCrash
  BY <1>20 DEF ClientCrash
<1> QED
  BY <1>1, <1>2, <1>3, <1>4, <1>5, <1>6, <1>7, <1>8, <1>9, <1>10, <1>11, <1>12, <1>13, <1>14,
     <1>15, <1>16, <1>17, <1>18, <1>19, <1>20 DEF ClientActs, Client

\* The end of an attempt.
LEMMA HangupFrame ==
  ASSUME FetchInv, NEW r \in BOOLEAN, Hangup(r)
  PROVE  /\ s2c'[try] = <<>> /\ ~up'[try] /\ result' = r
         /\ \/ cpc' = "done" /\ try' = try
            \/ cpc' = "connect" /\ try' = try + 1
<1>1. try \in Attempts /\ s2c \in [Attempts -> Seq(LegalAnswers)] /\ up \in [Attempts -> BOOLEAN]
  BY DEF FetchInv, ClientInv, NetInv
<1> QED
  BY <1>1 DEF Hangup

\* A session's step touches its own connection only.
LEMMA SessionFrame ==
  ASSUME FetchInv, NEW k \in Attempts, SessionActs(k)
  PROVE  /\ UNCHANGED <<client, disk>> /\ spc[k] \in Live /\ spc'[k] \in Live \cup {"ended"}
         /\ c2s'[k] \in {c2s[k], <<>>} \/ (c2s[k] # <<>> /\ c2s'[k] = Tail(c2s[k]))
         /\ src' = src \/ SrvDeleteFile(k)
         /\ \A j \in Attempts \ {k} :
              /\ c2s'[j] = c2s[j] /\ s2c'[j] = s2c[j] /\ up'[j] = up[j] /\ spc'[j] = spc[j]
              /\ blk'[j] = blk[j] /\ pages'[j] = pages[j] /\ hashed'[j] = hashed[j]
<1> USE Channels DEF Live, Sending, source, net, Goto, Sends, Say, EndSession, TakeInput
<1>1. CASE SrvGetHash(k)
  BY <1>1 DEF SrvGetHash
<1>2. CASE SrvGetFile(k)
  BY <1>2 DEF SrvGetFile
<1>3. CASE SrvStart(k)
  BY <1>3 DEF SrvStart
<1>4. CASE SrvSend(k)
  BY <1>4 DEF SrvSend
<1>5. CASE SrvSentAll(k)
  BY <1>5 DEF SrvSentAll
<1>6. CASE \E f \in BOOLEAN : SrvReadError(k, f)
  BY <1>6 DEF SrvReadError
<1>7. CASE SrvAck(k)
  BY <1>7 DEF SrvAck
<1>8. CASE SrvDeleteFile(k)
  BY <1>8 DEF SrvDeleteFile
<1>9. CASE SrvInvalidCommand(k)
  BY <1>9 DEF SrvInvalidCommand
<1>10. CASE SrvGiveUp(k)
  BY <1>10 DEF SrvGiveUp
<1> QED
  BY <1>1, <1>2, <1>3, <1>4, <1>5, <1>6, <1>7, <1>8, <1>9, <1>10 DEF SessionActs, Session

\* The connection breaks, or the server dies.
LEMMA CutFrame ==
  ASSUME FetchInv, Cuts
  PROVE  /\ UNCHANGED <<source, client, disk, hashed, blk, pages, announced>>
         /\ \A k \in Attempts :
              \/ /\ c2s'[k] = c2s[k] /\ s2c'[k] = s2c[k] /\ spc'[k] = spc[k] /\ up'[k] = up[k]
              \/ /\ c2s'[k] = <<>> /\ s2c'[k] = <<>> /\ ~up'[k]
                 /\ spc'[k] = spc[k] \/ (spc[k] # "none" /\ spc'[k] = "ended")
<1> USE Channels DEF sessions, source
<1>1. CASE ServerCrash
  BY <1>1 DEF ServerCrash
<1>2. ASSUME NEW j \in Attempts, Break(j)
      PROVE  /\ UNCHANGED <<source, client, disk, hashed, blk, pages, announced>>
             /\ \A k \in Attempts :
                  \/ /\ c2s'[k] = c2s[k] /\ s2c'[k] = s2c[k] /\ spc'[k] = spc[k] /\ up'[k] = up[k]
                  \/ c2s'[k] = <<>> /\ s2c'[k] = <<>> /\ ~up'[k] /\ spc'[k] = spc[k]
  BY <1>2 DEF Break
<1> QED
  BY <1>1, <1>2 DEF Cuts

\* What a step is.
LEMMA Steps ==
  ASSUME [Next]_vars
  PROVE  \/ ClientActs
         \/ \E k \in Attempts : SessionActs(k)
         \/ SourceChange \/ Cuts \/ UNCHANGED vars
BY DEF Next, Environment, Finished, ClientActs, SessionActs, Cuts

\* Nobody repairs a source.
LEMMA IntactBefore ==
  ASSUME FetchInv, [Next]_vars, Intact'
  PROVE  Intact /\ src' = src /\ ~SourceChange
<1>1. ~SourceChange
  BY DEF SourceChange, Intact
<1>2. CASE ClientActs
  <2>1. src' = src /\ doubtful' = doubtful
    BY <1>2, ClientFrame DEF source
  <2> QED
    BY <1>1, <2>1, Zenon DEF Intact
<1>3. ASSUME NEW k \in Attempts, SessionActs(k)
      PROVE  Intact /\ src' = src
  <2>1. src' = src
    BY <1>3, SessionFrame, ConstantTypes DEF SrvDeleteFile, Intact, source
  <2>2. doubtful' = doubtful \/ doubtful'
    BY <1>3 DEF SessionActs, Session, SrvGetHash, SrvGetFile, SrvStart, SrvSend, SrvSentAll,
       SrvReadError, SrvAck, SrvDeleteFile, SrvInvalidCommand, SrvGiveUp, source
  <2> QED
    BY <2>1, <2>2 DEF Intact
<1>4. CASE Cuts \/ UNCHANGED vars
  <2>1. src' = src /\ doubtful' = doubtful
    BY <1>4, CutFrame DEF vars, source
  <2> QED
    BY <1>1, <2>1, Zenon DEF Intact
<1> QED
  BY <1>1, <1>2, <1>3, <1>4, Steps

LEMMA FreshStep ==
  ASSUME FetchInv, Fresh, [Next]_vars
  PROVE  Fresh'
<1>1. CASE ClientActs
  <2> SUFFICES ASSUME NEW k \in Attempts, k > try' \/ (k = try' /\ cpc' = "connect")
               PROVE  spc'[k] = "none" /\ c2s'[k] = <<>> /\ s2c'[k] = <<>>
    BY DEF Fresh
  <2>1. try \in Nat /\ k \in Nat
    BY Channels, ConstantTypes DEF Attempts
  <2>2. try' \in {try, try + 1} /\ (cpc' = "connect" => try' = try + 1)
    <3>1. CASE Connect
      BY <3>1 DEF Connect
    <3>2. CASE \E r \in BOOLEAN : Hangup(r)
      BY <3>2, HangupFrame
    <3> QED
      BY <1>1, <3>1, <3>2, ClientFrame
  <2>3. k > try
    BY <2>1, <2>2
  <2>4. k \in Attempts \ {try}
    BY <2>1, <2>3
  <2> QED
    BY <1>1, <2>3, <2>4, ClientFrame DEF Fresh
<1>2. ASSUME NEW j \in Attempts, SessionActs(j)
      PROVE  Fresh'
  <2>1. UNCHANGED <<try, cpc>> /\ spc[j] # "none"
    BY <1>2, SessionFrame DEF client, Live, Sending
  <2> QED
    BY <1>2, <2>1, SessionFrame DEF Fresh
<1>3. CASE Cuts
  BY <1>3, CutFrame DEF Fresh, client
<1>4. CASE SourceChange \/ UNCHANGED vars
  BY <1>4 DEF SourceChange, vars, client, sessions, net, Fresh
<1> QED
  BY <1>1, <1>2, <1>3, <1>4, Steps

LEMMA HonestStep ==
  ASSUME FetchInv, Intact, Intact', Honest, src' = src, [Next]_vars
  PROVE  Honest'
<1>1. TrueAnswers' = TrueAnswers
  BY DEF TrueAnswers
<1>2. s2c \in [Attempts -> Seq(TrueAnswers)]
  BY DEF Honest
<1>3. CASE ClientActs
  <2>1. \/ s2c' = s2c \/ s2c' = [s2c EXCEPT ![try] = <<>>]
        \/ /\ s2c[try] # <<>>
           /\ \/ s2c' = [s2c EXCEPT ![try] = Tail(@)]
              \/ s2c' = [s2c EXCEPT ![try] = [@ EXCEPT ![1] = Frame("rest", NoFile, 0)]]
    <3> USE DEF net, Hangup, NextBlock, Request, TakeAnswer
    <3>1. CASE Connect \/ ConnectFail \/ Begin \/ CompareHash \/ Refused \/ OpenTemp \/ StartReceiving
      BY <3>1 DEF Connect, ConnectFail, Begin, CompareHash, Refused, OpenTemp, StartReceiving
    <3>2. CASE Receive
      BY <3>2 DEF Receive, HasBlock
    <3>3. CASE WriteError \/ BadStream \/ (\E slow \in BOOLEAN : NoAnswer(slow)) \/ Mismatch \/ Match \/ HashFail
      BY <3>3 DEF WriteError, BadStream, NoAnswer, Mismatch, Match, HashFail
    <3>4. CASE Acknowledge \/ Copy \/ Copied \/ CopyFail \/ DropTemp \/ PostProcess \/ Deleted \/ ClientCrash
      BY <3>4 DEF Acknowledge, Copy, Copied, CopyFail, DropTemp, PostProcess, Deleted, ClientCrash
    <3> QED
      BY <1>3, <3>1, <3>2, <3>3, <3>4 DEF ClientActs, Client
  <2>2. Frame("rest", NoFile, 0) \in TrueAnswers
    BY FrameTypes DEF TrueAnswers, Frame, Answers
  <2>3. try \in Attempts
    BY DEF FetchInv, ClientInv
  <2>4. s2c' \in [Attempts -> Seq(TrueAnswers)]
    <3>1. /\ [s2c EXCEPT ![try] = <<>>] \in [Attempts -> Seq(TrueAnswers)]
          /\ s2c[try] # <<>> =>
               /\ [s2c EXCEPT ![try] = Tail(@)] \in [Attempts -> Seq(TrueAnswers)]
               /\ [s2c EXCEPT ![try] = [@ EXCEPT ![1] = Frame("rest", NoFile, 0)]]
                    \in [Attempts -> Seq(TrueAnswers)]
      BY <1>2, <2>2, <2>3, ChannelType
    <3> QED
      BY <1>2, <2>1, <3>1
  <2>5. \A k \in Attempts : spc'[k] = "hashed" => spc[k] = "hashed" /\ hashed'[k] = hashed[k]
    <3>1. CASE Connect
      BY <3>1, Channels DEF Connect
    <3> QED
      BY <1>3, <3>1, ClientFrame
  <2> QED
    BY <1>1, <2>4, <2>5 DEF Honest
<1>4. ASSUME NEW k \in Attempts, SessionActs(k)
      PROVE  Honest'
  <2> USE Channels
  <2>1. \/ s2c' = s2c
        \/ \E m \in TrueAnswers : s2c' = Sends(s2c, k, m)
    <3>1. ErrorFrame \in TrueAnswers
      BY DEF ErrorFrame, TrueAnswers, Frame, Answers
    <3>2. CASE SrvGetHash(k)
      <4>1. Frame("hash", src, 0) \in TrueAnswers
        BY DEF Intact, TrueAnswers, Frame, Answers
      <4> QED
        BY <3>1, <3>2, <4>1 DEF SrvGetHash, Say
    <3>3. CASE SrvStart(k)
      <4>1. hashed[k] = src
        BY <3>3 DEF SrvStart, Honest
      <4>2. Len(src) \in Nat
        BY LenProperties DEF Intact, Content
      <4>3. Frame("file", hashed[k], Len(src)) \in TrueAnswers
        BY <4>1, <4>2 DEF Intact, TrueAnswers, Frame, Answers
      <4> QED
        BY <3>3, <4>3 DEF SrvStart, Say
    <3>4. CASE SrvSend(k)
      <4> DEFINE m == Frame("data", SubSeq(src, blk[k] * BlockSize + 1, blk[k] * BlockSize + NextSize(k)), 0)
      <4>1. m.data \in Content /\ m.kind = "data" /\ m.n = 0
        BY <3>4, BlockType DEF SrvSend, Frame
      <4>2. m \in TrueAnswers
        BY <4>1 DEF TrueAnswers, Answers, Frame
      <4> HIDE DEF m
      <4>3. s2c' = s2c \/ s2c' = Sends(s2c, k, m)
        BY <3>4 DEF SrvSend, Say, m
      <4> QED
        BY <4>2, <4>3
    <3>5. CASE SrvGetFile(k) \/ SrvDeleteFile(k) \/ SrvInvalidCommand(k)
      <4>1. ~(SrvDeleteFile(k) /\ src' = NoFile)
        BY ConstantTypes DEF Intact
      <4> QED
        BY <3>1, <3>5, <4>1, ConstantTypes DEF SrvGetFile, SrvDeleteFile, SrvInvalidCommand, Say, Intact
    <3>6. CASE \E f \in BOOLEAN : SrvReadError(k, f)
      BY <3>1, <3>6 DEF SrvReadError, Say
    <3>7. CASE SrvSentAll(k) \/ SrvAck(k) \/ SrvGiveUp(k)
      BY <3>7 DEF SrvSentAll, SrvAck, SrvGiveUp, net, EndSession
    <3> QED
      BY <1>4, <3>2, <3>3, <3>4, <3>5, <3>6, <3>7 DEF SessionActs, Session
  <2>2. s2c' \in [Attempts -> Seq(TrueAnswers)]
    <3>1. \A m \in TrueAnswers : Sends(s2c, k, m) \in [Attempts -> Seq(TrueAnswers)]
      BY <1>2, ChannelType
    <3> QED
      BY <1>2, <2>1, <3>1
  <2>3. ASSUME NEW j \in Attempts, spc'[j] = "hashed"
        PROVE  hashed'[j] = src'
    <3>1. CASE j # k
      BY <1>4, <2>3, <3>1, SessionFrame DEF Honest
    <3>2. CASE j = k /\ SrvGetFile(k)
      <4>1. ~doubtful'
        BY DEF Intact
      <4>2. src # NoFile
        BY ConstantTypes DEF Intact
      <4>3. hashed' = [hashed EXCEPT ![k] = src]
        BY <3>2, <4>1, <4>2 DEF SrvGetFile
      <4> QED
        BY <3>2, <4>3
    <3>3. CASE j = k /\ ~SrvGetFile(k)
      <4>1. spc'[k] # "hashed"
        BY <1>4, <3>3 DEF SessionActs, Session, SrvGetHash, SrvStart, SrvSend, SrvSentAll, SrvReadError,
           SrvAck, SrvDeleteFile, SrvInvalidCommand, SrvGiveUp, Say, Goto, EndSession
      <4> QED
        BY <2>3, <3>3, <4>1
    <3> QED
      BY <3>1, <3>2, <3>3
  <2> QED
    BY <1>1, <2>2, <2>3 DEF Honest
<1>5. CASE Cuts
  <2>1. \A k \in Attempts : s2c'[k] \in {s2c[k], <<>>}
                            /\ (spc'[k] = "hashed" => spc[k] = "hashed") /\ hashed'[k] = hashed[k]
    BY <1>5, CutFrame
  <2>2. s2c' \in [Attempts -> Seq(TrueAnswers)]
    <3>1. DOMAIN s2c' = Attempts /\ s2c' = [k \in Attempts |-> s2c'[k]]
      BY <1>5, Channels DEF Cuts, ServerCrash, Break
    <3>2. \A k \in Attempts : s2c'[k] \in Seq(TrueAnswers)
      <4>1. <<>> \in Seq(TrueAnswers)
        OBVIOUS
      <4> QED
        BY <1>2, <2>1, <4>1
    <3> QED
      BY <3>1, <3>2
  <2> QED
    BY <1>1, <2>1, <2>2 DEF Honest
<1>6. CASE SourceChange \/ UNCHANGED vars
  <2>1. UNCHANGED <<s2c, spc, hashed>>
    BY <1>6 DEF SourceChange, vars, sessions, net
  <2> QED
    BY <1>1, <2>1 DEF Honest
<1> QED
  BY <1>3, <1>4, <1>5, <1>6, Steps

\* The client asks for the deletion only when it has come to it.
LEMMA AskedStep ==
  ASSUME FetchInv, [Next]_vars, Asked'
  PROVE  Asked \/ cpc' = "post"
<1> DEFINE Wants(k) == \E i \in DOMAIN c2s[k] : c2s[k][i].kind = "delete"
<1>1. CASE ClientActs
  <2>1. try \in Attempts /\ c2s[try] \in Seq(Commands) /\ c2s \in [Attempts -> Seq(Commands)]
    BY DEF FetchInv, ClientInv, NetInv
  <2>2. CASE PostProcess
    BY <2>2 DEF PostProcess, Asked
  <2>3. CASE ~PostProcess
    <3>1. \/ c2s' = c2s
          \/ \E c \in {"get_hash", "get_file", "ok", "error"}, n \in Nat :
               c2s' = Sends(c2s, try, Frame(c, NoFile, n))
      <4> USE DEF net, NextBlock, Request, Hangup
      <4>1. CASE Begin \/ Mismatch \/ HashFail \/ Acknowledge
        <5>1. 0 \in Nat
          OBVIOUS
        <5> QED
          BY <4>1, <5>1 DEF Begin, Mismatch, HashFail, Acknowledge
      <4>2. CASE OpenTemp
        <5> DEFINE file == IF temp = NoFile THEN <<>> ELSE temp
        <5>1. file \in Content
          BY <2>1 DEF FetchInv, ClientInv, Content
        <5>2. StartBlock(file) \in Nat
          BY <5>1, StartBlockBounds
        <5> QED
          BY <4>2, <5>2 DEF OpenTemp
      <4>3. CASE Connect \/ ConnectFail \/ CompareHash \/ Refused \/ StartReceiving \/ Receive
        BY <4>3 DEF Connect, ConnectFail, CompareHash, Refused, StartReceiving, Receive
      <4>4. CASE WriteError \/ BadStream \/ (\E slow \in BOOLEAN : NoAnswer(slow)) \/ Match
        BY <4>4 DEF WriteError, BadStream, NoAnswer, Match
      <4>5. CASE Copy \/ Copied \/ CopyFail \/ DropTemp \/ Deleted \/ ClientCrash
        BY <4>5 DEF Copy, Copied, CopyFail, DropTemp, Deleted, ClientCrash
      <4> QED
        BY <1>1, <2>3, <4>1, <4>2, <4>3, <4>4, <4>5 DEF ClientActs, Client
    <3>2. ASSUME NEW k \in Attempts, Wants(k)'
          PROVE  Wants(k)
      <4>1. CASE c2s' = c2s
        BY <3>2, <4>1
      <4>2. ASSUME NEW c \in {"get_hash", "get_file", "ok", "error"}, NEW n \in Nat,
                   c2s' = Sends(c2s, try, Frame(c, NoFile, n))
            PROVE  Wants(k)
        <5>1. CASE ~up[try] \/ k # try
          BY <2>1, <3>2, <4>2, <5>1 DEF Sends
        <5>2. CASE up[try] /\ k = try
          <6> DEFINE m == Frame(c, NoFile, n)
          <6>1. m \in Commands /\ m.kind # "delete"
            BY FrameTypes DEF Frame
          <6>2. c2s'[k] = Append(c2s[try], m)
            BY <2>1, <4>2, <5>2 DEF Sends
          <6> HIDE DEF m
          <6>3. \A i \in DOMAIN c2s'[k] : (i \in DOMAIN c2s[try] /\ c2s'[k][i] = c2s[try][i]) \/ c2s'[k][i] = m
            BY <2>1, <6>1, <6>2, AppendFrames
          <6> QED
            BY <3>2, <5>2, <6>1, <6>3
        <5> QED
          BY <5>1, <5>2
      <4> QED
        BY <3>1, <4>1, <4>2
    <3>3. cpc' = "wait_del" => cpc = "wait_del"
      BY <1>1, <2>3 DEF ClientActs, Client, Connect, ConnectFail, Begin, CompareHash, Refused,
         OpenTemp, StartReceiving, Receive, WriteError, BadStream, NoAnswer, Mismatch, Match, HashFail,
         Acknowledge, Copy, Copied, CopyFail, DropTemp, Deleted, ClientCrash, Request, NextBlock, Hangup
    <3> QED
      BY <3>2, <3>3 DEF Asked
  <2> QED
    BY <2>2, <2>3
<1>2. ASSUME NEW k \in Attempts, SessionActs(k)
      PROVE  Asked
  <2>1. cpc' = cpc
    BY <1>2, SessionFrame DEF client
  <2>2. ASSUME NEW j \in Attempts, Wants(j)' PROVE Wants(j)
    <3>1. CASE c2s'[j] = c2s[j] \/ c2s'[j] = <<>>
      BY <2>2, <3>1
    <3>2. CASE c2s[j] # <<>> /\ c2s'[j] = Tail(c2s[j])
      <4>1. c2s[j] \in Seq(Commands)
        BY Channels
      <4>2. \A i \in DOMAIN c2s'[j] : i + 1 \in DOMAIN c2s[j] /\ c2s'[j][i] = c2s[j][i + 1]
        BY <3>2, <4>1, TailFrames
      <4> QED
        BY <2>2, <4>2
    <3> QED
      BY <1>2, <3>1, <3>2, SessionFrame
  <2> QED
    BY <2>1, <2>2 DEF Asked
<1>3. CASE SourceChange \/ Cuts \/ UNCHANGED vars
  <2>1. cpc' = cpc /\ \A j \in Attempts : c2s'[j] = c2s[j] \/ c2s'[j] = <<>>
    BY <1>3, CutFrame DEF SourceChange, vars, net, client
  <2> QED
    BY <2>1 DEF Asked
<1> QED
  BY <1>1, <1>2, <1>3, Steps

\* A block that is received is the next one of the source; a client that has
\* all of it writes nothing new.
LEMMA ReceiveMeans ==
  ASSUME FetchInv, Intact, Honest, InStep, Receive, src' = src
  PROVE  /\ temp = src => temp' = src
         /\ cpc' = "recv" =>
              \E p \in Nat : off' = p * BlockSize /\ left' = Len(src) - off' /\ Train(0, p)'
<1>1. PICK p \in Nat : off = p * BlockSize /\ left = Len(src) - off /\ Train(0, p)
  BY DEF InStep, Receive, HasBlock
<1> DEFINE a == p * BlockSize
           d == Answer.data
<1>2. try \in Attempts /\ s2c[try] \in Seq(Answers) /\ s2c \in [Attempts -> Seq(Answers)] /\ s2c[try] # <<>>
  <2>1. try \in Attempts
    BY DEF FetchInv, ClientInv
  <2> QED
    BY <2>1, Channels DEF Receive, HasBlock
<1>3. 1 \in DOMAIN s2c[try] /\ s2c[try][1] = Answer
  BY <1>2, TailFrames DEF Answer
<1>4. d = Piece(src, p)
  <2>1. p + 1 - 1 - 0 = p /\ 1 > 0
    OBVIOUS
  <2> QED
    BY <1>1, <1>3, <2>1 DEF Train, Receive, HasBlock
<1>5. src \in Content /\ Len(src) \in Nat /\ a \in Nat /\ left = Len(src) - a /\ d \in Content
  BY <1>1, <1>2, BlockBounds, LenProperties, AnswerType DEF Intact, Content, Receive, HasBlock
<1>6. /\ left >= 0 /\ Need <= Len(d) /\ temp' = WriteAt(temp, off, SubSeq(d, 1, Need))
      /\ off' = off + Need /\ left' = left - Need
      /\ cpc' = IF left - Need <= 0 THEN "check" ELSE "recv"
      /\ s2c' = [s2c EXCEPT ![try] = IF Len(d) > Need THEN [@ EXCEPT ![1] = Frame("rest", NoFile, 0)]
                                                      ELSE Tail(@)]
      /\ UNCHANGED <<try, c2s, up, spc, pages, blk>>
  BY DEF Receive, HasBlock, sessions
<1>7. CASE left = 0
  <2>1. Need = 0
    BY <1>7, BlocksAssumption DEF Need, Lesser
  <2>2. cpc' = "check"
    BY <1>6, <1>7, <2>1
  <2>3. temp = src => temp' = src
    <3>1. a \in 0..Len(src)
      BY <1>5, <1>7
    <3> QED
      BY <1>1, <1>5, <1>6, <2>1, <3>1, WholeFile, PieceRewritten
  <2> QED
    BY <2>2, <2>3
<1>8. CASE left # 0
  <2>1. a < Len(src)
    BY <1>5, <1>6, <1>8
  <2>2. Need = Lesser(BlockSize, Len(src) - a)
    BY <1>5 DEF Need
  <2>3. /\ Need \in Nat /\ Need > 0 /\ Need = Len(d) /\ SubSeq(d, 1, Need) = d
        /\ a + Need < Len(src) => a + Need = (p + 1) * BlockSize
    BY <1>4, <1>5, <2>1, <2>2, PieceTaken
  <2>4. temp = src => temp' = src
    <3>1. WriteAt(src, a, Piece(src, p)) = src
      BY <1>1, <1>5, <2>1, PieceRewritten
    <3>2. temp' = WriteAt(temp, a, Piece(src, p))
      BY <1>1, <1>4, <1>6, <2>3
    <3> QED
      BY <3>1, <3>2
  <2>5. ASSUME cpc' = "recv"
        PROVE  \E q \in Nat : off' = q * BlockSize /\ left' = Len(src) - off' /\ Train(0, q)'
    <3>1. a + Need < Len(src) /\ left' = Len(src) - off' /\ off' = a + Need
      BY <1>1, <1>5, <1>6, <2>3, <2>5
    <3>2. off' = (p + 1) * BlockSize /\ p + 1 \in Nat
      BY <2>3, <3>1
    <3>3. s2c' = [s2c EXCEPT ![try] = Tail(@)]
      <4>1. ~(Len(d) > Need)
        BY <2>3
      <4> HIDE DEF d
      <4> QED
        BY <1>6, <4>1
    <3>4. s2c'[try'] = Tail(s2c[try])
      BY <1>2, <1>6, <3>3
    <3>5. ASSUME NEW i \in DOMAIN s2c'[try'], i > 0, s2c'[try'][i].kind = "data"
          PROVE  s2c'[try'][i].data = Piece(src', p + 1 + i - 1 - 0)
      <4>1. i + 1 \in DOMAIN s2c[try] /\ s2c'[try'][i] = s2c[try][i + 1] /\ i \in Nat
        BY <1>2, <3>4, <3>5, TailFrames, LenProperties
      <4>2. p + (i + 1) - 1 - 0 = p + 1 + i - 1 - 0 /\ i + 1 > 0
        BY <4>1
      <4> QED
        BY <1>1, <3>5, <4>1, <4>2 DEF Train
    <3>6. ASSUME spc'[try'] = "send", up'[try']
          PROVE  /\ pages'[try'] = Len(src') \div BlockSize /\ 0 <= Len(s2c'[try'])
                 /\ blk'[try'] = p + 1 + Len(s2c'[try']) - 0
      <4>1. Len(s2c'[try']) = Len(s2c[try]) - 1 /\ Len(s2c[try]) \in Nat /\ Len(s2c'[try']) \in Nat
        BY <1>2, <3>4, TailFrames, LenProperties, HeadTailProperties
      <4>2. pages[try] = Len(src) \div BlockSize /\ blk[try] = p + Len(s2c[try]) - 0
        BY <1>1, <1>6, <3>6 DEF Train
      <4>3. blk'[try'] = p + 1 + Len(s2c'[try']) - 0
        BY <1>6, <4>1, <4>2
      <4> QED
        BY <1>6, <4>1, <4>2, <4>3
    <3>7. Train(0, p + 1)'
      BY <1>1, <1>6, <3>5, <3>6 DEF Train
    <3> QED
      BY <3>1, <3>2, <3>7
  <2> QED
    BY <2>4, <2>5
<1> QED
  BY <1>7, <1>8

\* What the client holds of a source that is intact.
LEMMA SureStep ==
  ASSUME FetchInv, Intact, Honest, InStep, Sure, src' = src, [Next]_vars
  PROVE  Sure'
<1>0. src \in Content /\ src # NoFile
  BY ConstantTypes DEF Intact
<1>1. CASE ClientActs
  <2>1. CASE StartReceiving
    <3>1. PICK p \in Nat : off = p * BlockSize /\ Opening(p)
      BY <2>1 DEF InStep, StartReceiving
    <3>2. s2c \in [Attempts -> Seq(TrueAnswers)] /\ try \in Attempts /\ s2c[try] # <<>>
      BY <2>1 DEF Honest, StartReceiving, FetchInv, ClientInv
    <3>3. Answer \in TrueAnswers /\ Answer.kind = "file"
      BY <2>1, <3>2, ChannelType DEF Answer, StartReceiving
    <3>4. Answer.data = src /\ Answer.n = Len(src)
      BY <3>3 DEF TrueAnswers
    <3>5. src = <<>> <=> Answer.n = 0
      BY <1>0, <3>4, EmptySeq DEF Content
    <3>6. temp \in Content /\ temp' = temp
      BY <2>1 DEF FetchInv, ClientInv, Placed, StartReceiving
    <3>7. Answer.n \in Nat
      BY <3>2, AnswerType
    <3>8. \/ cpc' = "ack" /\ src = <<>>
          \/ cpc' = "recv" /\ want'.hash = src /\ src # <<>>
      BY <2>1, <3>4, <3>5, <3>7 DEF StartReceiving
    <3>9. temp # NoFile
      BY <3>6, ConstantTypes
    <3> QED
      BY <3>6, <3>8, <3>9 DEF Sure
  <2>2. CASE Receive
    <3>1. src # <<>> /\ want.hash = src /\ UNCHANGED want /\ cpc' \in {"check", "recv"}
      BY <2>2 DEF Receive, HasBlock, Sure
    <3> QED
      BY <3>1 DEF Sure
  <2>3. CASE OpenTemp
    <3>1. temp' = (IF temp = NoFile THEN <<>> ELSE temp) /\ cpc' \in {"wait_file", "connect", "done"}
      BY <2>3 DEF OpenTemp, Request, Hangup
    <3> QED
      BY <3>1 DEF Sure
  <2>4. CASE Mismatch \/ DropTemp
    <3>1. temp' = NoFile /\ cpc' \in {"connect", "done", "post"}
      BY <2>4 DEF Mismatch, DropTemp, NextBlock, Hangup
    <3> QED
      BY <3>1 DEF Sure
  <2>5. CASE Match
    <3>1. temp = src /\ cpc' = "ack" /\ temp' = temp
      BY <2>5 DEF Match, Sure, disk
    <3> QED
      BY <3>1 DEF Sure
  <2>6. CASE Acknowledge \/ Copy \/ Copied
    <3>1. temp = src /\ temp' = temp /\ cpc' \in {"copy", "copying", "drop", "connect", "done"}
      BY <2>6 DEF Acknowledge, Copy, Copied, Sure, disk, Hangup
    <3> QED
      BY <3>1 DEF Sure
  <2>7. CASE Connect \/ ConnectFail \/ Begin \/ CompareHash \/ Refused \/ WriteError \/ BadStream
             \/ (\E slow \in BOOLEAN : NoAnswer(slow))
    <3>1. temp' = temp /\ cpc' \in {"begin", "wait_hash", "open", "post", "connect", "done"}
      BY <2>7 DEF Connect, ConnectFail, Begin, CompareHash, Refused, WriteError, BadStream,
         NoAnswer, NextBlock, Request, Hangup, disk
    <3> QED
      BY <3>1 DEF Sure
  <2>8. CASE HashFail \/ CopyFail \/ PostProcess \/ Deleted \/ ClientCrash
    <3>1. temp' = temp /\ cpc' \in {"post", "wait_del", "connect", "done"}
      BY <2>8 DEF HashFail, CopyFail, PostProcess, Deleted, ClientCrash, NextBlock, Request, Hangup, disk
    <3> QED
      BY <3>1 DEF Sure
  <2> QED
    BY <1>1, <2>1, <2>2, <2>3, <2>4, <2>5, <2>6, <2>7, <2>8 DEF ClientActs, Client
<1>2. CASE ~ClientActs
  <2>1. UNCHANGED <<cpc, want, temp>>
    <3>1. CASE \E k \in Attempts : SessionActs(k)
      BY <3>1, SessionFrame DEF client, disk
    <3>2. CASE Cuts
      BY <3>2, CutFrame DEF client, disk
    <3>3. CASE SourceChange \/ UNCHANGED vars
      BY <3>3 DEF SourceChange, vars, client, disk
    <3> QED
      BY <1>2, <3>1, <3>2, <3>3, Steps
  <2> QED
    BY <2>1 DEF Sure
<1> QED
  BY <1>1, <1>2

\* The client holds the source as long as its deletion is asked for.
LEMMA HeldStep ==
  ASSUME FetchInv, Intact, Honest, InStep, Sure, Asked => src \in {dest, temp},
         src' = src, [Next]_vars, Asked'
  PROVE  src' \in {dest', temp'}
<1>0. src \in Content /\ src # NoFile
  BY ConstantTypes DEF Intact
<1>1. Asked \/ cpc' = "post"
  BY AskedStep
<1>2. CASE ClientActs
  <2>1. CASE CompareHash
    <3>1. s2c \in [Attempts -> Seq(TrueAnswers)] /\ try \in Attempts /\ s2c[try] # <<>>
      BY <2>1 DEF Honest, CompareHash, FetchInv, ClientInv
    <3>2. Answer \in TrueAnswers
      BY <3>1, ChannelType DEF Answer
    <3>3. Answer.data = src /\ UNCHANGED <<dest, temp>>
      BY <2>1, <3>2 DEF TrueAnswers, CompareHash, disk
    <3>4. cpc' = "post" => dest = src
      BY <2>1, <3>3 DEF CompareHash
    <3> QED
      BY <1>1, <3>3, <3>4
  <2>2. CASE CopyFail \/ Copied \/ Acknowledge
    BY <2>2 DEF CopyFail, Copied, Acknowledge, Sure, disk
  <2>3. CASE Copy
    BY <2>3 DEF Copy, Sure
  <2>4. CASE DropTemp
    BY <2>4 DEF DropTemp, Sure, FetchInv, ClientInv, Trusted
  <2>5. CASE OpenTemp
    <3>1. cpc' # "post"
      BY <2>5 DEF OpenTemp, Request, Hangup
    <3> QED
      BY <1>0, <1>1, <2>5, <3>1 DEF OpenTemp
  <2>6. CASE Receive
    <3>1. cpc' # "post" /\ dest' = dest
      BY <2>6 DEF Receive
    <3> QED
      BY <1>1, <2>6, <3>1, ReceiveMeans
  <2>7. CASE Mismatch
    <3>1. cpc' # "post" /\ dest' = dest /\ temp # src
      BY <2>7 DEF Mismatch, NextBlock, Hangup, Sure
    <3> QED
      BY <1>1, <3>1
  <2>8. CASE Connect \/ ConnectFail \/ Begin \/ Refused \/ StartReceiving \/ WriteError \/ BadStream
             \/ (\E slow \in BOOLEAN : NoAnswer(slow))
    <3>1. UNCHANGED <<dest, temp>> /\ cpc' # "post"
      BY <2>8 DEF Connect, ConnectFail, Begin, Refused, StartReceiving, WriteError, BadStream,
         NoAnswer, NextBlock, Request, Hangup, disk
    <3> QED
      BY <1>1, <3>1
  <2>9. CASE Match \/ HashFail \/ PostProcess \/ Deleted \/ ClientCrash
    <3>1. UNCHANGED <<dest, temp>> /\ cpc' # "post"
      BY <2>9 DEF Match, HashFail, PostProcess, Deleted, ClientCrash, NextBlock, Request, Hangup, disk
    <3> QED
      BY <1>1, <3>1
  <2> QED
    BY <1>2, <2>1, <2>2, <2>3, <2>4, <2>5, <2>6, <2>7, <2>8, <2>9 DEF ClientActs, Client
<1>3. CASE ~ClientActs
  <2>1. UNCHANGED <<cpc, dest, temp>>
    <3>1. CASE \E k \in Attempts : SessionActs(k)
      BY <3>1, SessionFrame DEF client, disk
    <3>2. CASE Cuts
      BY <3>2, CutFrame DEF client, disk
    <3>3. CASE SourceChange \/ UNCHANGED vars
      BY <3>3 DEF SourceChange, vars, client, disk
    <3> QED
      BY <1>3, <3>1, <3>2, <3>3, Steps
  <2>2. Asked
    BY <1>1, <2>1 DEF Asked
  <2> QED
    BY <2>1, <2>2
<1> QED
  BY <1>2, <1>3

\* The client goes on from what the session has said.
LEMMA InStepClient ==
  ASSUME FetchInv, Intact, Honest, Fresh, InStep, src' = src, ClientActs
  PROVE  InStep'
<1>0. /\ try \in Attempts /\ src \in Content
      /\ c2s \in [Attempts -> Seq(Commands)] /\ c2s[try] \in Seq(Commands)
      /\ s2c \in [Attempts -> Seq(Answers)] /\ s2c[try] \in Seq(Answers)
      /\ spc \in [Attempts -> Live \cup {"none", "ended"}]
  <2>1. try \in Attempts
    BY DEF FetchInv, ClientInv
  <2> QED
    BY <2>1, Channels DEF Intact
<1>1. CASE \E r \in BOOLEAN : Hangup(r)
  BY <1>1 DEF Hangup, InStep
<1>2. CASE Connect
  <2>1. c2s[try] = <<>> /\ s2c[try] = <<>>
    BY <1>0, <1>2 DEF Connect, Fresh
  <2>2. cpc' = "begin" /\ spc'[try] = "idle" /\ UNCHANGED <<try, c2s, s2c>>
    BY <1>0, <1>2 DEF Connect
  <2> QED
    BY <2>1, <2>2 DEF InStep, Silent
<1>3. CASE Begin /\ ~NextBlock
  <2>1. Silent /\ UNCHANGED spc
    BY <1>3 DEF Begin, InStep, sessions
  <2>2. CASE Request(Frame("get_hash", NoFile, 0), "wait_hash") /\ cpc' = "wait_hash"
    <3>1. /\ cpc' = "wait_hash" /\ UNCHANGED <<s2c, try>>
          /\ c2s' = Sends(c2s, try, Frame("get_hash", NoFile, 0))
      BY <2>2 DEF Request, Hangup
    <3>2. c2s'[try] \in {<<>>, <<Frame("get_hash", NoFile, 0)>>}
      BY <1>0, <2>1, <3>1, TwoFrames DEF Sends, Silent
    <3>3. Hashing'
      BY <2>1, <2>2, <3>1, <3>2 DEF Silent, Hashing
    <3> QED
      BY <3>1, <3>3 DEF InStep
  <2>3. CASE Request(Frame("get_hash", NoFile, 0), "wait_hash") /\ cpc' # "wait_hash"
    BY <2>3 DEF Request, Hangup, InStep
  <2>4. CASE cpc' = "open" /\ UNCHANGED <<try, result, net>>
    BY <2>1, <2>4 DEF Silent, InStep, net
  <2> QED
    BY <1>3, <2>2, <2>3, <2>4 DEF Begin
<1>4. CASE CompareHash
  <2>1. Hashing /\ s2c[try] # <<>> /\ s2c' = [s2c EXCEPT ![try] = Tail(@)]
        /\ UNCHANGED <<try, c2s, spc>> /\ cpc' \in {"post", "open"}
    BY <1>4 DEF CompareHash, InStep, TakeAnswer, sessions
  <2>2. s2c'[try] = <<>>
    BY <1>0, <2>1, OneFrame DEF Hashing
  <2>3. Silent'
    BY <2>1, <2>2 DEF Hashing, Silent
  <2> QED
    BY <2>1, <2>3 DEF InStep
<1>5. CASE OpenTemp /\ cpc' = "wait_file"
  <2> DEFINE file == IF temp = NoFile THEN <<>> ELSE temp
  <2>1. PICK p \in Nat : p = StartBlock(file)
    <3>1. file \in Content
      BY DEF FetchInv, ClientInv, Content
    <3>2. Len(file) \in Nat
      BY <3>1, LenProperties DEF Content
    <3> QED
      BY <3>2, StartBlockBounds
  <2>2. Silent /\ UNCHANGED spc
    BY <1>5 DEF OpenTemp, InStep, sessions
  <2>3. off' = p * BlockSize /\ Request(Frame("get_file", NoFile, p), "wait_file")
    BY <1>5, <2>1 DEF OpenTemp
  <2>4. c2s' = Sends(c2s, try, Frame("get_file", NoFile, p)) /\ UNCHANGED <<try, s2c, up>>
    BY <1>5, <2>3 DEF Request, Hangup
  <2>5. c2s'[try] \in {<<>>, <<Frame("get_file", NoFile, p)>>}
    BY <1>0, <2>2, <2>4, TwoFrames DEF Sends, Silent
  <2>6. s2c'[try'] = <<>> /\ spc'[try'] \in {"idle", "ended"} /\ try' = try
    BY <2>2, <2>4 DEF Silent
  <2>7. CASE c2s'[try] = <<>>
    <3>1. Train(1, p)'
      BY <2>6, <2>7 DEF Train
    <3> QED
      BY <1>5, <2>1, <2>3, <3>1 DEF InStep, Opening
  <2>8. CASE c2s'[try] = <<Frame("get_file", NoFile, p)>>
    <3>1. Opening(p)'
      BY <2>6, <2>8 DEF Opening
    <3> QED
      BY <1>5, <2>1, <2>3, <3>1 DEF InStep
  <2> QED
    BY <2>5, <2>7, <2>8
<1>6. CASE StartReceiving
  <2>1. PICK p \in Nat : off = p * BlockSize /\ Opening(p)
    BY <1>6 DEF InStep, StartReceiving
  <2>2. /\ s2c[try] # <<>> /\ Answer.kind = "file" /\ s2c' = [s2c EXCEPT ![try] = Tail(@)]
        /\ left' = Answer.n - off /\ cpc' \in {"ack", "recv"}
        /\ UNCHANGED <<off, try, c2s, up, spc, blk, pages>>
    BY <1>6 DEF StartReceiving, TakeAnswer, sessions
  <2>3. Train(1, p)
    BY <2>1, <2>2 DEF Opening
  <2>4. Answer.n = Len(src)
    <3>1. s2c \in [Attempts -> Seq(TrueAnswers)]
      BY DEF Honest
    <3>2. Answer \in TrueAnswers
      BY <1>0, <2>2, <3>1, ChannelType DEF Answer
    <3> QED
      BY <2>2, <3>2 DEF TrueAnswers
  <2>5. s2c'[try'] = Tail(s2c[try])
    BY <1>0, <2>2
  <2>6. ASSUME NEW i \in DOMAIN s2c'[try'], i > 0, s2c'[try'][i].kind = "data"
        PROVE  s2c'[try'][i].data = Piece(src', p + i - 1 - 0)
    <3>1. i + 1 \in DOMAIN s2c[try] /\ s2c'[try'][i] = s2c[try][i + 1] /\ i \in Nat
      BY <1>0, <2>2, <2>5, <2>6, TailFrames, LenProperties
    <3>2. p + (i + 1) - 1 - 1 = p + i - 1 - 0 /\ i + 1 > 1
      BY <2>6, <3>1
    <3> QED
      BY <2>3, <2>6, <3>1, <3>2 DEF Train
  <2>7. ASSUME spc'[try'] = "send", up'[try']
        PROVE  /\ pages'[try'] = Len(src') \div BlockSize /\ 0 <= Len(s2c'[try'])
               /\ blk'[try'] = p + Len(s2c'[try']) - 0
    <3>1. Len(s2c'[try']) = Len(s2c[try]) - 1 /\ Len(s2c[try]) \in Nat /\ Len(s2c'[try']) \in Nat
      BY <1>0, <2>2, <2>5, TailFrames, LenProperties, HeadTailProperties
    <3>2. pages[try] = Len(src) \div BlockSize /\ blk[try] = p + Len(s2c[try]) - 1
      BY <2>2, <2>3, <2>7 DEF Train
    <3>3. blk'[try'] = p + Len(s2c'[try']) - 0
      BY <2>2, <3>1, <3>2
    <3> QED
      BY <2>2, <3>1, <3>2, <3>3
  <2>8. Train(0, p)'
    BY <2>2, <2>3, <2>6, <2>7 DEF Train
  <2>9. off' = p * BlockSize /\ left' = Len(src') - off'
    BY <2>1, <2>2, <2>4
  <2> QED
    BY <2>2, <2>8, <2>9 DEF InStep
<1>7. CASE Receive
  <2>1. cpc' \in {"recv", "check"}
    BY <1>7 DEF Receive
  <2>2. cpc' = "recv" =>
          \E p \in Nat : off' = p * BlockSize /\ left' = Len(src) - off' /\ Train(0, p)'
    BY <1>7, ReceiveMeans
  <2> QED
    BY <2>1, <2>2 DEF InStep
<1>8. CASE Match \/ Copy \/ Copied \/ CopyFail \/ DropTemp
  BY <1>8 DEF Match, Copy, Copied, CopyFail, DropTemp, InStep
<1>9. CASE Acknowledge \/ PostProcess
  BY <1>9 DEF Acknowledge, PostProcess, Request, NextBlock, Hangup, InStep
<1>10. CASE OpenTemp /\ cpc' # "wait_file"
  BY <1>10 DEF OpenTemp, Request, Hangup, InStep
<1> QED
  BY <1>1, <1>2, <1>3, <1>4, <1>5, <1>6, <1>7, <1>8, <1>9, <1>10 DEF ClientActs, Client,
     ConnectFail, Refused, WriteError, BadStream, NoAnswer, Mismatch, HashFail, Deleted, ClientCrash,
     NextBlock

\* The next frame of the session is the next block.
LEMMA TrainStep ==
  ASSUME FetchInv, Intact, src' = src, NEW h \in {0, 1}, NEW p \in Nat, Train(h, p), SessionActs(try)
  PROVE  Train(h, p)'
<1>0. /\ try \in Attempts /\ src \in Content /\ try' = try
      /\ c2s \in [Attempts -> Seq(Commands)] /\ s2c \in [Attempts -> Seq(Answers)]
      /\ s2c[try] \in Seq(Answers) /\ up \in [Attempts -> BOOLEAN]
      /\ spc \in [Attempts -> Live \cup {"none", "ended"}]
      /\ blk \in [Attempts -> Nat] /\ pages \in [Attempts -> Nat]
  <2>1. try \in Attempts
    BY DEF FetchInv, ClientInv
  <2> QED
    BY <2>1, Channels, SessionFrame DEF Intact, client
<1>1. c2s[try] = <<>> /\ spc[try] \in {"send", "ack", "idle", "ended"}
  BY DEF Train
<1>2. CASE SrvSend(try)
  <2> DEFINE b == blk[try]
             n == NextSize(try)
             m == Frame("data", SubSeq(src, b * BlockSize + 1, b * BlockSize + n), 0)
  <2>1. /\ spc[try] = "send" /\ n > 0 /\ b * BlockSize + n <= Len(src)
        /\ UNCHANGED <<c2s, pages>> /\ blk' = [blk EXCEPT ![try] = @ + 1]
        /\ \/ /\ s2c' = Sends(s2c, try, m) /\ up' = up
              /\ spc' = [spc EXCEPT ![try] = IF b < pages[try] THEN "send" ELSE "ack"]
           \/ ~up[try] /\ up' = [up EXCEPT ![try] = FALSE] /\ s2c' = s2c
              /\ spc' = [spc EXCEPT ![try] = "ended"]
    BY <1>2 DEF SrvSend, CanRead, Say, Goto
  <2>2. m \in Answers
    <3>1. SubSeq(src, b * BlockSize + 1, b * BlockSize + n) \in Content
      BY <1>0, <1>2, BlockType DEF SrvSend
    <3> QED
      BY <3>1 DEF Frame, Answers
  <2>3. c2s'[try'] = <<>> /\ spc'[try'] \in {"send", "ack", "ended"}
    BY <1>0, <1>1, <2>1
  <2>4. CASE up[try] /\ s2c' = Sends(s2c, try, m) /\ up' = up
    <3>1. pages[try] = Len(src) \div BlockSize /\ h <= Len(s2c[try]) /\ b = p + Len(s2c[try]) - h
      BY <2>1, <2>4 DEF Train
    <3>2. SubSeq(src, b * BlockSize + 1, b * BlockSize + n) = Piece(src, b)
      <4>1. b \in Nat /\ n = IF b < Len(src) \div BlockSize THEN BlockSize
                             ELSE Len(src) - (Len(src) \div BlockSize) * BlockSize
        BY <1>0, <3>1 DEF NextSize
      <4> QED
        BY <1>0, <2>1, <4>1, BlockRead
    <3>3. m.data = Piece(src, b)
      BY <3>2 DEF Frame
    <3> HIDE DEF m, n
    <3>4. s2c'[try'] = Append(s2c[try], m) /\ Len(s2c[try]) \in Nat
      BY <1>0, <2>4, LenProperties DEF Sends
    <3>5. ASSUME NEW i \in DOMAIN s2c'[try'], i > h, s2c'[try'][i].kind = "data"
          PROVE  s2c'[try'][i].data = Piece(src', p + i - 1 - h)
      <4>1. CASE i \in DOMAIN s2c[try] /\ s2c'[try'][i] = s2c[try][i]
        BY <1>0, <3>5, <4>1 DEF Train
      <4>2. CASE i = Len(s2c[try]) + 1 /\ s2c'[try'][i] = m
        <5>1. p + i - 1 - h = b
          BY <3>1, <3>4, <4>2
        <5> QED
          BY <3>3, <4>2, <5>1
      <4> QED
        BY <1>0, <2>2, <3>4, <3>5, <4>1, <4>2, AppendFrames
    <3>6. ASSUME spc'[try'] = "send", up'[try']
          PROVE  /\ pages'[try'] = Len(src') \div BlockSize /\ h <= Len(s2c'[try'])
                 /\ blk'[try'] = p + Len(s2c'[try']) - h
      <4>1. Len(s2c'[try']) = Len(s2c[try]) + 1
        BY <1>0, <2>2, <3>4, AppendProperties
      <4>2. blk'[try'] = b + 1
        BY <1>0, <2>1
      <4>3. blk'[try'] = p + Len(s2c'[try']) - h /\ h <= Len(s2c'[try'])
        BY <3>1, <3>4, <4>1, <4>2
      <4> QED
        BY <1>0, <2>1, <3>1, <4>3
    <3> QED
      BY <2>3, <3>5, <3>6 DEF Train
  <2>5. CASE s2c' = s2c /\ ~up'[try']
    BY <1>0, <2>3, <2>5 DEF Train
  <2> QED
    BY <1>0, <2>1, <2>4, <2>5 DEF Sends
<1>3. CASE SrvSentAll(try) \/ SrvGiveUp(try)
  <2>1. s2c' = s2c /\ c2s'[try'] = <<>> /\ spc'[try'] \in {"ack", "idle", "ended"}
    BY <1>0, <1>1, <1>3 DEF SrvSentAll, SrvGiveUp, EndSession, Goto, net
  <2> QED
    BY <1>0, <2>1 DEF Train
<1>4. CASE \E f \in BOOLEAN : SrvReadError(try, f)
  <2>1. c2s'[try'] = <<>> /\ spc'[try'] \in {"idle", "ended"} /\ (s2c' = s2c \/ s2c' = Sends(s2c, try, ErrorFrame))
    BY <1>0, <1>1, <1>4 DEF SrvReadError, Say, Goto
  <2>2. CASE s2c' = s2c
    BY <1>0, <2>1, <2>2 DEF Train
  <2>3. CASE s2c' # s2c
    <3>1. s2c'[try'] = Append(s2c[try], ErrorFrame)
      BY <1>0, <2>1, <2>3 DEF Sends
    <3>2. ErrorFrame \in Answers /\ ErrorFrame.kind # "data"
      BY DEF ErrorFrame, Frame, Answers
    <3>3. \A i \in DOMAIN s2c'[try'] :
             (i \in DOMAIN s2c[try] /\ s2c'[try'][i] = s2c[try][i]) \/ s2c'[try'][i].kind # "data"
      BY <1>0, <3>1, <3>2, AppendFrames
    <3> QED
      BY <1>0, <2>1, <3>3 DEF Train
  <2> QED
    BY <2>2, <2>3
<1> QED
  BY <1>0, <1>1, <1>2, <1>3, <1>4 DEF SessionActs, Session, SrvGetHash, SrvGetFile, SrvStart, SrvAck,
     SrvDeleteFile, SrvInvalidCommand

\* What is asked of a session is what it does next.
LEMMA InStepSession ==
  ASSUME FetchInv, Intact, Intact', src' = src, InStep, NEW k \in Attempts, SessionActs(k)
  PROVE  InStep'
<1>0. /\ try \in Attempts /\ src \in Content /\ UNCHANGED <<cpc, try, off, left>>
      /\ c2s \in [Attempts -> Seq(Commands)] /\ s2c \in [Attempts -> Seq(Answers)]
      /\ c2s[try] \in Seq(Commands) /\ up \in [Attempts -> BOOLEAN]
      /\ spc \in [Attempts -> Live \cup {"none", "ended"}]
      /\ blk \in [Attempts -> Nat] /\ pages \in [Attempts -> Nat]
  <2>1. try \in Attempts
    BY DEF FetchInv, ClientInv
  <2> QED
    BY <2>1, Channels, SessionFrame DEF Intact, client
<1>1. CASE k # try
  <2>1. /\ c2s'[try'] = c2s[try] /\ s2c'[try'] = s2c[try] /\ up'[try'] = up[try] /\ spc'[try'] = spc[try]
        /\ blk'[try'] = blk[try] /\ pages'[try'] = pages[try]
    BY <1>0, <1>1, SessionFrame
  <2>2. \A h, p \in Nat : Train(h, p) => Train(h, p)'
    BY <1>0, <2>1 DEF Train
  <2>3. \A p \in Nat : Opening(p) => Opening(p)'
    BY <2>1, <2>2 DEF Opening
  <2>4. (Silent => Silent') /\ (Hashing => Hashing')
    BY <2>1 DEF Silent, Hashing
  <2> QED
    BY <1>0, <2>2, <2>3, <2>4 DEF InStep
<1>2. CASE k = try
  <2>1. ASSUME Silent PROVE Silent'
    <3>1. SrvGiveUp(try) /\ spc[try] = "idle"
      BY <1>0, <1>2, <2>1 DEF Silent, SessionActs, Session, SrvGetHash, SrvGetFile, SrvStart, SrvSend,
         SrvSentAll, SrvReadError, SrvAck, SrvDeleteFile, SrvInvalidCommand, SrvGiveUp
    <3> QED
      BY <1>0, <2>1, <3>1 DEF SrvGiveUp, Silent, EndSession, Goto
  <2>2. ASSUME Hashing PROVE Hashing'
    <3>1. CASE c2s[try] = <<>>
      <4>1. SrvGiveUp(try) /\ spc[try] = "idle"
        BY <1>0, <1>2, <2>2, <3>1 DEF Hashing, SessionActs, Session, SrvGetHash, SrvGetFile, SrvStart,
           SrvSend, SrvSentAll, SrvReadError, SrvAck, SrvDeleteFile, SrvInvalidCommand, SrvGiveUp
      <4> QED
        BY <1>0, <2>2, <3>1, <4>1 DEF SrvGiveUp, Hashing, EndSession, Goto
    <3>2. CASE c2s[try] = <<Frame("get_hash", NoFile, 0)>> /\ s2c[try] = <<>>
      <4>1. Input(try).kind = "get_hash" /\ c2s[try] # <<>> /\ Tail(c2s[try]) = <<>>
        BY <3>2, TwoFrames DEF Input, Frame
      <4>2. spc[try] \in {"idle", "ended"}
        BY <2>2 DEF Hashing
      <4>3. SrvGetHash(try)
        BY <1>2, <4>1, <4>2 DEF SessionActs, Session, SrvGetHash, SrvGetFile, SrvStart,
           SrvSend, SrvSentAll, SrvReadError, SrvAck, SrvDeleteFile, SrvInvalidCommand, SrvGiveUp
      <4>4. /\ c2s'[try'] = <<>> /\ spc'[try'] \in {"idle", "ended"}
            /\ s2c' = s2c \/ (\E m \in Answers : s2c' = Sends(s2c, try, m))
        <5>1. src # NoFile /\ Frame("hash", src, 0) \in Answers
          BY <1>0, ConstantTypes DEF Frame, Answers
        <5> QED
          BY <1>0, <4>1, <4>3, <5>1 DEF SrvGetHash, Say, Goto, TakeInput
      <4>5. Len(s2c'[try']) <= 1
        <5>1. CASE s2c' = s2c
          BY <1>0, <3>2, <5>1
        <5>2. ASSUME NEW m \in Answers, s2c' = Sends(s2c, try, m)
              PROVE  Len(s2c'[try']) <= 1
          <6>1. s2c'[try'] \in {<<>>, <<m>>}
            BY <1>0, <3>2, <5>2, TwoFrames DEF Sends
          <6>2. Len(<<>>) = 0 /\ Len(<<m>>) = 1
            OBVIOUS
          <6>3. \A t : t \in {<<>>, <<m>>} => Len(t) <= 1
            BY <6>2
          <6> QED
            BY <6>1, <6>3
        <5> QED
          BY <4>4, <5>1, <5>2
      <4> QED
        BY <4>4, <4>5 DEF Hashing
    <3> QED
      BY <2>2, <3>1, <3>2 DEF Hashing
  <2>3. ASSUME NEW p \in Nat, Opening(p) PROVE Opening(p)'
    <3>1. CASE c2s[try] = <<Frame("get_file", NoFile, p)>> /\ s2c[try] = <<>> /\ spc[try] \in {"idle", "ended"}
      <4>1. Input(try) = Frame("get_file", NoFile, p) /\ c2s[try] # <<>> /\ Tail(c2s[try]) = <<>>
        BY <3>1, TwoFrames DEF Input
      <4>2. Input(try).kind = "get_file" /\ Input(try).n = p
        BY <4>1 DEF Frame
      <4>3. SrvGetFile(try)
        BY <1>2, <3>1, <4>1, <4>2 DEF SessionActs, Session, SrvGetHash, SrvGetFile, SrvStart,
           SrvSend, SrvSentAll, SrvReadError, SrvAck, SrvDeleteFile, SrvInvalidCommand, SrvGiveUp
      <4>4. src # NoFile
        BY <1>0, ConstantTypes
      <4>5. c2s'[try'] = <<>> /\ s2c'[try'] = <<>> /\ spc'[try'] = "hashed" /\ blk'[try'] = p
        BY <1>0, <3>1, <4>1, <4>2, <4>3, <4>4 DEF SrvGetFile, Goto, TakeInput
      <4> QED
        BY <4>5 DEF Opening
    <3>2. CASE c2s[try] = <<>> /\ s2c[try] = <<>> /\ spc[try] = "hashed" /\ blk[try] = p
      <4>1. SrvStart(try)
        BY <1>2, <3>2 DEF SessionActs, Session, SrvGetHash, SrvGetFile, SrvStart,
           SrvSend, SrvSentAll, SrvReadError, SrvAck, SrvDeleteFile, SrvInvalidCommand, SrvGiveUp
      <4> DEFINE m == Frame("file", hashed[try], Len(src))
      <4>2. /\ c2s'[try'] = <<>> /\ spc'[try'] \in {"ack", "send", "ended"}
            /\ blk'[try'] = p /\ pages'[try'] = Len(src) \div BlockSize
            /\ \/ s2c' = Sends(s2c, try, m) /\ up' = up
               \/ s2c' = s2c /\ ~up'[try'] /\ spc'[try'] = "ended"
        BY <1>0, <3>2, <4>1 DEF SrvStart, Say, Goto
      <4> HIDE DEF m
      <4>3. s2c'[try'] \in {<<>>, <<m>>} /\ (up'[try'] /\ spc'[try'] = "send" => s2c'[try'] = <<m>>)
        BY <1>0, <3>2, <4>2, TwoFrames DEF Sends
      <4>4. \A i \in DOMAIN s2c'[try'] : ~(i > 1)
        BY <4>3
      <4>5. ASSUME up'[try'], spc'[try'] = "send"
            PROVE  1 <= Len(s2c'[try']) /\ blk'[try'] = p + Len(s2c'[try']) - 1
        <5>1. Len(<<m>>) = 1 /\ p + 1 - 1 = p
          OBVIOUS
        <5>2. s2c'[try'] = <<m>>
          BY <4>3, <4>5, Zenon
        <5>3. Len(s2c'[try']) = 1
          BY <5>1, <5>2, Zenon
        <5> QED
          BY <4>2, <5>1, <5>3
      <4>6. Train(1, p)'
        BY <1>0, <4>2, <4>4, <4>5 DEF Train
      <4> QED
        BY <4>6 DEF Opening
    <3>3. CASE Train(1, p)
      <4>1. Train(1, p)'
        BY <1>2, <3>3, TrainStep
      <4> QED
        BY <4>1 DEF Opening
    <3> QED
      BY <2>3, <3>1, <3>2, <3>3 DEF Opening
  <2>4. \A p \in Nat : Train(0, p) => Train(0, p)'
    BY <1>2, TrainStep
  <2> QED
    BY <1>0, <2>1, <2>2, <2>3, <2>4 DEF InStep
<1> QED
  BY <1>1, <1>2

\* A break leaves nothing to read.
LEMMA InStepCuts ==
  ASSUME FetchInv, InStep, Cuts
  PROVE  InStep'
<1>0. try \in Attempts /\ UNCHANGED <<src, cpc, try, off, left>> /\ UNCHANGED <<blk, pages>>
  BY CutFrame DEF FetchInv, ClientInv, source, client
<1>1. CASE c2s'[try] = c2s[try] /\ s2c'[try] = s2c[try] /\ spc'[try] = spc[try] /\ up'[try] = up[try]
  <2>1. \A h, p \in Nat : Train(h, p) => Train(h, p)'
    BY <1>0, <1>1 DEF Train
  <2>2. \A p \in Nat : Opening(p) => Opening(p)'
    BY <1>0, <1>1, <2>1 DEF Opening
  <2>3. (Silent => Silent') /\ (Hashing => Hashing')
    BY <1>0, <1>1 DEF Silent, Hashing
  <2> QED
    BY <1>0, <2>1, <2>2, <2>3 DEF InStep
<1>2. CASE c2s'[try] = <<>> /\ s2c'[try] = <<>> /\ ~up'[try] /\ spc'[try] \in {spc[try], "ended"}
  <2>1. \A h, p \in Nat : Train(h, p) => Train(h, p)'
    BY <1>0, <1>2 DEF Train
  <2>2. ASSUME NEW p \in Nat, Opening(p) PROVE Opening(p)'
    <3>1. CASE Train(1, p)
      <4>1. Train(1, p)'
        BY <2>1, <3>1
      <4> QED
        BY <4>1 DEF Opening
    <3>2. CASE spc[try] \in {"idle", "ended"} \/ spc'[try] = "ended"
      <4>1. Train(1, p)'
        BY <1>0, <1>2, <3>2 DEF Train
      <4> QED
        BY <4>1 DEF Opening
    <3>3. CASE spc[try] = "hashed" /\ blk[try] = p /\ spc'[try] = spc[try]
      BY <1>0, <1>2, <3>3 DEF Opening
    <3> QED
      BY <1>2, <2>2, <3>1, <3>2, <3>3 DEF Opening
  <2>3. (Silent => Silent') /\ (Hashing => Hashing')
    <3>1. Len(<<>>) = 0
      OBVIOUS
    <3> QED
      BY <1>0, <1>2, <3>1 DEF Silent, Hashing
  <2> QED
    BY <1>0, <2>1, <2>2, <2>3 DEF InStep
<1> QED
  BY <1>0, <1>1, <1>2, CutFrame

LEMMA KeptInvInit == Init => KeptInv
<1> SUFFICES ASSUME Init PROVE KeptInv
  OBVIOUS
<1>1. try \in Attempts
  BY FetchInvInit DEF FetchInv, ClientInv
<1>2. Fresh
  BY DEF Init, Fresh
<1>3. Honest
  <2>1. <<>> \in Seq(TrueAnswers)
    OBVIOUS
  <2> QED
    BY <2>1 DEF Init, Honest
<1>4. InStep /\ Sure /\ ~Asked
  BY DEF Init, InStep, Sure, Asked
<1> QED
  BY <1>2, <1>3, <1>4 DEF KeptInv, Kept

LEMMA KeptInvStep ==
  ASSUME FetchInv, KeptInv, [Next]_vars
  PROVE  KeptInv'
<1>1. Fresh'
  BY FreshStep DEF KeptInv
<1>2. ASSUME Intact'
      PROVE  (Honest /\ InStep /\ Sure /\ (Asked => src \in {dest, temp}))'
  <2>1. Intact /\ src' = src /\ ~SourceChange
    BY <1>2, IntactBefore
  <2>2. Fresh /\ Honest /\ InStep /\ Sure /\ (Asked => src \in {dest, temp})
    BY <2>1 DEF KeptInv, Kept
  <2>3. Honest'
    BY <1>2, <2>1, <2>2, HonestStep
  <2>4. Sure'
    BY <2>1, <2>2, SureStep
  <2>5. Asked' => src' \in {dest', temp'}
    BY <2>1, <2>2, HeldStep
  <2>6. InStep'
    <3>1. CASE ClientActs
      BY <2>1, <2>2, <3>1, InStepClient
    <3>2. CASE \E k \in Attempts : SessionActs(k)
      BY <1>2, <2>1, <2>2, <3>2, InStepSession
    <3>3. CASE Cuts
      BY <2>2, <3>3, InStepCuts
    <3>4. CASE UNCHANGED vars
      <4>1. UNCHANGED <<src, cpc, try, off, left, c2s, s2c, up, spc, blk, pages>>
        BY <3>4 DEF vars, source, client, sessions, net
      <4>2. \A h, p \in Nat : Train(h, p)' <=> Train(h, p)
        BY <4>1 DEF Train
      <4>3. \A p \in Nat : Opening(p)' <=> Opening(p)
        BY <4>1, <4>2 DEF Opening
      <4>4. (Silent' <=> Silent) /\ (Hashing' <=> Hashing)
        BY <4>1 DEF Silent, Hashing
      <4> QED
        BY <2>2, <4>1, <4>2, <4>3, <4>4 DEF InStep
    <3> QED
      BY <2>1, <3>1, <3>2, <3>3, <3>4, Steps
  <2> QED
    BY <2>3, <2>4, <2>5, <2>6
<1> QED
  BY <1>1, <1>2 DEF KeptInv, Kept

\* A source that no user has changed is deleted only while the client has its
\* content, in the destination or in its temporary file, whatever requests of
\* attempts given up are still on their way (post_process, 778-819, and
\* command_delete_file, 1285).
THEOREM FetchKeepsSource == Spec => SourceKept
<1>1. ASSUME FetchInv, KeptInv, [Next]_vars
      PROVE  [~doubtful' /\ src # NoFile /\ src' = NoFile => src \in {dest, temp}]_vars
  <2> SUFFICES ASSUME ~doubtful', src # NoFile, src' = NoFile
               PROVE  src \in {dest, temp}
    OBVIOUS
  <2>1. ~SourceChange
    BY DEF SourceChange
  <2>2. PICK k \in Attempts : SrvDeleteFile(k)
    <3>1. \E k \in Attempts : SessionActs(k)
      BY <1>1, <2>1, Steps, ClientFrame, CutFrame DEF source, vars
    <3> QED
      BY <1>1, <3>1, SessionFrame, ConstantTypes
  <2>3. doubtful' = doubtful
    BY <2>2 DEF SrvDeleteFile, source
  <2>4. Intact
    <3>1. src \in Content
      BY <1>1 DEF FetchInv, ServerInv
    <3>2. ~doubtful
      BY <2>3, Zenon
    <3> QED
      BY <3>1, <3>2 DEF Intact
  <2>5. Asked
    <3>1. c2s[k] \in Seq(Commands) /\ c2s[k] # <<>> /\ Head(c2s[k]).kind = "delete"
      BY <1>1, <2>2, Channels DEF SrvDeleteFile, Input
    <3>2. 1 \in DOMAIN c2s[k] /\ c2s[k][1] = Head(c2s[k])
      BY <3>1, TailFrames
    <3> QED
      BY <3>1, <3>2 DEF Asked
  <2> QED
    BY <1>1, <2>4, <2>5 DEF KeptInv, Kept
<1>2. FetchInv /\ KeptInv /\ [Next]_vars => KeptInv'
  BY KeptInvStep
<1>3. FetchInv /\ KeptInv /\ [Next]_vars
        => [~doubtful' /\ src # NoFile /\ src' = NoFile => src \in {dest, temp}]_vars
  BY <1>1
<1> QED
  BY <1>2, <1>3, KeptInvInit, FetchInvAlways, PTL DEF Spec, SourceKept

-----------------------------------------------------------------------------
(* When nothing goes wrong the file is delivered, whatever its size.       *)

\* The session has nothing more to send.
SentAll == spc[1] = "ack" \/ (spc[1] = "send" /\ NextSize(1) = 0)

\* The client has written the first blocks up to off; the others are on their
\* way, behind h frames of another kind, or still with the session.
FlowAt(h, p, n) ==
  /\ off = p * BlockSize /\ off < Len(src) /\ temp = SubSeq(src, 1, off)
  /\ Len(s2c[1]) = h + n
  /\ \A i \in DOMAIN s2c[1] : i > h => s2c[1][i] = Frame("data", Piece(src, p + i - 1 - h), 0)
  /\ blk[1] = p + n /\ (p + n) * BlockSize < Len(src) + BlockSize
  /\ \/ spc[1] = "send" /\ pages[1] = Len(src) \div BlockSize /\ blk[1] <= pages[1]
     \/ spc[1] = "ack" /\ (p + n) * BlockSize >= Len(src)

Flow(h) == \E p, n \in Nat : FlowAt(h, p, n)

\* The stages of the only attempt, by the place of the client.
Before ==
  /\ cpc \in {"connect", "begin"} /\ temp = NoFile /\ c2s[1] = <<>> /\ s2c[1] = <<>>
  /\ cpc = "connect" => spc[1] = "none"
  /\ cpc = "begin" => spc[1] = "idle" /\ up[1]

Comparing ==
  /\ temp = NoFile /\ spc[1] = "idle"
  /\ \/ cpc = "wait_hash" /\ c2s[1] = <<Frame("get_hash", NoFile, 0)>> /\ s2c[1] = <<>>
     \/ cpc = "wait_hash" /\ c2s[1] = <<>> /\ s2c[1] = <<Frame("hash", src, 0)>>
     \/ cpc = "open" /\ c2s[1] = <<>> /\ s2c[1] = <<>>

Asking ==
  /\ cpc = "wait_file" /\ off = 0 /\ temp = <<>>
  /\ \/ /\ c2s[1] = <<Frame("get_file", NoFile, 0)>> /\ s2c[1] = <<>> /\ spc[1] = "idle"
     \/ /\ c2s[1] = <<>> /\ s2c[1] = <<>> /\ spc[1] = "hashed" /\ hashed[1] = src /\ blk[1] = 0
     \/ /\ c2s[1] = <<>> /\ src = <<>> /\ spc[1] = "ack"
        /\ s2c[1] = <<Frame("file", src, Len(src))>>
     \/ /\ c2s[1] = <<>> /\ src # <<>> /\ s2c[1] # <<>> /\ Flow(1)
        /\ Head(s2c[1]) = Frame("file", src, Len(src))

Receiving ==
  /\ cpc = "recv" /\ c2s[1] = <<>> /\ want.hash = src /\ left = Len(src) - off /\ Flow(0)

Installing ==
  /\ s2c[1] = <<>>
  /\ \/ cpc \in {"check", "ack"} /\ temp = src /\ c2s[1] = <<>> /\ SentAll
     \/ /\ \/ cpc \in {"copy", "copying"} /\ temp = src
           \/ cpc = "drop" /\ dest = src
           \/ cpc = "post" /\ dest = src /\ temp = NoFile
        /\ \/ c2s[1] = <<Frame("ok", NoFile, 0)>> /\ SentAll
           \/ c2s[1] = <<>> /\ spc[1] = "idle"
  /\ cpc = "check" => want.hash = src

Deleting ==
  /\ cpc = "wait_del" /\ DeleteSrc /\ temp = NoFile
  /\ \/ /\ src \in Content /\ s2c[1] = <<>>
        /\ \/ /\ c2s[1] = <<Frame("ok", NoFile, 0), Frame("delete", NoFile, 0)>> /\ SentAll
           \/ c2s[1] = <<Frame("delete", NoFile, 0)>> /\ spc[1] = "idle"
     \/ /\ src = NoFile /\ s2c[1] = <<Frame("deleted", NoFile, 0)>>
        /\ c2s[1] = <<>> /\ spc[1] = "idle"

Ending ==
  /\ cpc = "done" /\ result /\ temp = NoFile
  /\ c2s[1] \in {<<>>, <<Frame("ok", NoFile, 0)>>}
  /\ Overwrite => src = IF DeleteSrc THEN NoFile ELSE dest

\* Only the session of the first attempt lives.
Single == try = 1 /\ \A k \in Attempts \ {1} : spc[k] = "none"

Stage ==
  \/ src \in Content /\ Before
  \/ up[1] /\ src \in Content /\ (Comparing \/ Asking \/ Receiving \/ Installing)
  \/ up[1] /\ Deleting
  \/ Ending

Straight == faults = 0 => Single /\ Stage

\* A step that is no fault leaves the count of faults alone.
LEMMA FaultCounted ==
  ASSUME FetchInv, [Next]_vars, faults' = 0
  PROVE  /\ ~Fault /\ faults = 0
         /\ \/ Client
            \/ \E k \in Attempts : Session(k)
            \/ UNCHANGED vars
<1>1. faults \in Nat
  BY ConstantTypes DEF FetchInv
<1>2. ~Fault
  BY <1>1 DEF Fault
<1>3. Client \/ (\E k \in Attempts : Session(k)) \/ UNCHANGED vars
  BY <1>2 DEF Next, Environment, Finished, ConnectFail, WriteError, HashFail, NoAnswer, CopyFail,
     SourceChange, ServerCrash, ClientCrash, Break, SrvReadError
<1>4. faults' = faults
  <2>1. CASE Client
    BY <1>2, <2>1 DEF Client, Connect, Begin, CompareHash, Refused, OpenTemp, StartReceiving, Receive,
       BadStream, NoAnswer, Mismatch, Match, Acknowledge, Copy, Copied, DropTemp, PostProcess, Deleted
  <2>2. ASSUME NEW k \in Attempts, Session(k)
        PROVE  faults' = faults
    BY <1>2, <2>2 DEF Session, SrvGetHash, SrvGetFile, SrvStart, SrvSend, SrvSentAll, SrvReadError,
       SrvAck, SrvDeleteFile, SrvInvalidCommand, SrvGiveUp
  <2>3. CASE UNCHANGED vars
    BY <2>3 DEF vars
  <2> QED
    BY <1>3, <2>1, <2>2, <2>3
<1> QED
  BY <1>2, <1>3, <1>4

\* Of several sessions the first takes the step.
LEMMA SingleSession ==
  ASSUME FetchInv, Single, NEW k \in Attempts, Session(k)
  PROVE  k = 1 /\ Single' /\ 1 \in Attempts /\ UNCHANGED <<client, disk>>
<1>1. SessionActs(k)
  BY DEF SessionActs
<1>2. k = 1
  BY <1>1, SessionFrame DEF Single, Live, Sending
<1>3. Single'
  BY <1>1, <1>2, SessionFrame DEF Single, client
<1> QED
  BY <1>1, <1>2, <1>3, SessionFrame

\* The first session has nothing to do while its connection is up.
LEMMA IdleWaits ==
  ASSUME FetchInv, c2s[1] = <<>>, spc[1] \in {"idle", "ack"}, up[1]
  PROVE  ~Session(1)
BY DEF Session, SrvGetHash, SrvGetFile, SrvStart, SrvSend, SrvSentAll, SrvReadError, SrvAck,
   SrvDeleteFile, SrvInvalidCommand, SrvGiveUp

\* The first session reads a command.
LEMMA OneChannel ==
  ASSUME FetchInv
  PROVE  /\ 1 \in Attempts /\ NoFile \notin Content
         /\ c2s \in [Attempts -> Seq(Commands)] /\ s2c \in [Attempts -> Seq(Answers)]
         /\ c2s[1] \in Seq(Commands) /\ s2c[1] \in Seq(Answers)
         /\ spc \in [Attempts -> Live \cup {"none", "ended"}] /\ up \in [Attempts -> BOOLEAN]
         /\ blk \in [Attempts -> Nat] /\ pages \in [Attempts -> Nat]
         /\ hashed \in [Attempts -> Content \cup {NoFile}]
<1>1. 1 \in Attempts
  BY ConstantTypes DEF Attempts
<1> QED
  BY <1>1, Channels, ConstantTypes

\* Before anything is asked.
LEMMA BeforeStep ==
  ASSUME FetchInv, Single, ~Fault, src \in Content, Before, Client \/ Session(1)
  PROVE  try' = 1 /\ Stage'
<1>1. ~Session(1)
  BY IdleWaits DEF Before, Session, SrvGetHash, SrvGetFile, SrvStart, SrvSend, SrvSentAll,
     SrvReadError, SrvAck, SrvDeleteFile, SrvInvalidCommand, SrvGiveUp
<1>2. Connect \/ Begin
  BY <1>1 DEF Before, Client, CompareHash, Refused, OpenTemp, StartReceiving, Receive, HasBlock,
     BadStream, NoAnswer, Mismatch, Match, Acknowledge, Copy, Copied, DropTemp, PostProcess, Deleted,
     Waiting
<1>3. CASE Connect
  <2>1. /\ up'[1] /\ spc'[1] = "idle" /\ try' = 1 /\ UNCHANGED <<src, temp, c2s, s2c>>
        /\ cpc' = "begin"
    BY <1>3, OneChannel DEF Connect, Single, source, disk
  <2> QED
    BY <2>1 DEF Before, Stage
<1>4. CASE Begin
  <2>1. cpc = "begin" /\ spc[1] = "idle" /\ up[1] /\ c2s[1] = <<>> /\ s2c[1] = <<>> /\ temp = NoFile
    BY <1>4 DEF Begin, Before
  <2>2. UNCHANGED <<src, temp, dest, spc>>
    BY <1>4 DEF Begin, source, disk, sessions
  <2>3. CASE ~MayReplace
    <3>1. NextBlock /\ UNCHANGED c2s
      BY <1>4, <2>3 DEF Begin, MayReplace
    <3>2. cpc' = "done" /\ result' /\ try' = 1
      BY <3>1 DEF NextBlock, Hangup, Single
    <3>3. Ending'
      BY <2>1, <2>2, <2>3, <3>1, <3>2 DEF Ending, MayReplace
    <3> QED
      BY <3>2, <3>3 DEF Stage
  <2>4. CASE MayReplace /\ dest # NoFile
    <3>1. /\ c2s' = Sends(c2s, 1, Frame("get_hash", NoFile, 0)) /\ cpc' = "wait_hash"
          /\ UNCHANGED <<try, s2c, up>>
      BY <1>4, <2>1, <2>4 DEF Begin, Request, Single
    <3>2. c2s'[1] = <<Frame("get_hash", NoFile, 0)>>
      BY <2>1, <3>1, OneChannel, TwoFrames DEF Sends
    <3>3. Comparing' /\ up'[1] /\ try' = 1
      BY <2>1, <2>2, <3>1, <3>2 DEF Comparing, Single
    <3> QED
      BY <2>2, <3>3 DEF Stage
  <2>5. CASE dest = NoFile
    <3>1. cpc' = "open" /\ UNCHANGED <<try, result, net>>
      BY <1>4, <2>5 DEF Begin, MayReplace
    <3>2. Comparing' /\ up'[1] /\ try' = 1
      BY <2>1, <2>2, <3>1 DEF Comparing, Single, net
    <3> QED
      BY <2>2, <3>2 DEF Stage
  <2> QED
    BY <2>3, <2>4, <2>5 DEF MayReplace
<1> QED
  BY <1>2, <1>3, <1>4

\* The hash is asked for, answered and compared; temp is created.
LEMMA ComparingStep ==
  ASSUME FetchInv, Single, ~Fault, src \in Content, up[1], Comparing, Client \/ Session(1)
  PROVE  try' = 1 /\ Stage'
<1> USE OneChannel
<1>1. CASE Session(1)
  <2>1. c2s[1] = <<Frame("get_hash", NoFile, 0)>> /\ s2c[1] = <<>> /\ cpc = "wait_hash"
        /\ spc[1] = "idle" /\ temp = NoFile
    BY <1>1, IdleWaits DEF Comparing
  <2>2. Input(1).kind = "get_hash" /\ Tail(c2s[1]) = <<>> /\ c2s[1] # <<>>
    BY <2>1, TwoFrames DEF Input, Frame
  <2>3. SrvGetHash(1)
    BY <1>1, <2>1, <2>2 DEF Session, SrvGetFile, SrvStart, SrvSend, SrvSentAll,
       SrvReadError, SrvAck, SrvDeleteFile, SrvInvalidCommand, SrvGiveUp
  <2>4. /\ spc' = [spc EXCEPT ![1] = "idle"] /\ c2s' = [c2s EXCEPT ![1] = Tail(@)]
        /\ s2c' = [s2c EXCEPT ![1] = Append(@, Frame("hash", src, 0))] /\ UNCHANGED up
        /\ UNCHANGED <<src, cpc, try, temp>>
    BY <2>3 DEF SrvGetHash, Say, Goto, TakeInput, Sends, source, client, disk
  <2>5. spc'[1] = "idle" /\ c2s'[1] = <<>> /\ s2c'[1] = <<Frame("hash", src, 0)>>
    BY <2>1, <2>2, <2>4, TwoFrames
  <2>6. Comparing'
    BY <2>1, <2>4, <2>5 DEF Comparing
  <2> QED
    BY <2>4, <2>6 DEF Stage, Single
<1>2. CASE Client /\ cpc = "open"
  <2>1. OpenTemp
    BY <1>2 DEF Client, Connect, Begin, CompareHash, Refused, StartReceiving, Receive, HasBlock,
       BadStream, NoAnswer, Mismatch, Match, Acknowledge, Copy, Copied, DropTemp, PostProcess, Deleted,
       Waiting
  <2>2. c2s[1] = <<>> /\ s2c[1] = <<>> /\ spc[1] = "idle" /\ temp = NoFile
    BY <1>2 DEF Comparing
  <2>3. StartBlock(<<>>) = 0 /\ 0 * BlockSize = 0
    BY ConstantTypes, BlockOrder DEF StartBlock
  <2>4. temp' = <<>> /\ off' = 0 /\ Request(Frame("get_file", NoFile, 0), "wait_file")
        /\ UNCHANGED <<src, spc>>
    BY <2>1, <2>2, <2>3 DEF OpenTemp, source, sessions
  <2>5. /\ c2s' = Sends(c2s, 1, Frame("get_file", NoFile, 0)) /\ cpc' = "wait_file"
        /\ UNCHANGED <<try, s2c, up>>
    BY <2>4 DEF Request, Single
  <2>6. c2s'[1] = <<Frame("get_file", NoFile, 0)>>
    BY <2>2, <2>5, TwoFrames DEF Sends
  <2>7. Asking'
    BY <2>2, <2>4, <2>5, <2>6 DEF Asking
  <2> QED
    BY <2>4, <2>5, <2>7 DEF Stage, Single
<1>3. CASE Client /\ cpc = "wait_hash"
  <2>1. CompareHash \/ Refused \/ NoAnswer(FALSE)
    BY <1>3 DEF Client, Connect, Begin, OpenTemp, StartReceiving, Receive, HasBlock,
       BadStream, Mismatch, Match, Acknowledge, Copy, Copied, DropTemp, PostProcess, Deleted
  <2>2. CASE c2s[1] = <<Frame("get_hash", NoFile, 0)>> /\ s2c[1] = <<>>
    <3>1. c2s[1] # <<>>
      BY <2>2, TwoFrames
    <3> QED
      BY <2>1, <2>2, <3>1 DEF CompareHash, Refused, NoAnswer, SessionWaits, Single
  <2>3. CASE c2s[1] = <<>> /\ s2c[1] = <<Frame("hash", src, 0)>> /\ spc[1] = "idle" /\ temp = NoFile
    <3>1. s2c[1] # <<>> /\ Answer.kind = "hash" /\ Answer.data = src /\ Tail(s2c[1]) = <<>>
      BY <2>3, TwoFrames DEF Answer, Frame, Single
    <3>2. CompareHash
      BY <1>3, <2>1, <3>1 DEF Refused, NoAnswer, Starved, Single
    <3>3. /\ s2c' = [s2c EXCEPT ![1] = Tail(@)] /\ cpc' = IF src = dest THEN "post" ELSE "open"
          /\ UNCHANGED <<src, temp, dest, try, spc, c2s, up>>
      BY <3>1, <3>2 DEF CompareHash, TakeAnswer, Single, source, disk, sessions
    <3>4. s2c'[1] = <<>>
      BY <3>1, <3>3
    <3>5. CASE src = dest
      <4>1. Installing'
        BY <2>3, <3>3, <3>4, <3>5 DEF Installing
      <4> QED
        BY <3>3, <4>1 DEF Stage, Single
    <3>6. CASE src # dest
      <4>1. Comparing'
        BY <2>3, <3>3, <3>4, <3>6 DEF Comparing
      <4> QED
        BY <3>3, <4>1 DEF Stage, Single
    <3> QED
      BY <3>5, <3>6
  <2> QED
    BY <1>3, <2>2, <2>3 DEF Comparing
<1> QED
  BY <1>1, <1>2, <1>3 DEF Comparing

\* What the session reads for its next block, while it sends the source.
LEMMA NextRead ==
  ASSUME FetchInv, src \in Content, pages[1] = Len(src) \div BlockSize, blk[1] <= pages[1]
  PROVE  /\ blk[1] * BlockSize \in Nat /\ blk[1] * BlockSize <= Len(src) /\ NextSize(1) \in Nat
         /\ blk[1] * BlockSize < Len(src) =>
              /\ NextSize(1) > 0 /\ CanRead(1)
              /\ SubSeq(src, blk[1] * BlockSize + 1, blk[1] * BlockSize + NextSize(1)) = Piece(src, blk[1])
              /\ blk[1] < pages[1] \/ (blk[1] + 1) * BlockSize >= Len(src)
         /\ blk[1] * BlockSize = Len(src) => NextSize(1) = 0
<1> DEFINE z == NextSize(1)
<1>1. PICK b \in Nat : b = blk[1]
  BY OneChannel
<1>2. z = IF b < Len(src) \div BlockSize THEN BlockSize
          ELSE Len(src) - (Len(src) \div BlockSize) * BlockSize
  BY <1>1 DEF NextSize
<1>3. CanRead(1) <=> b * BlockSize + z <= Len(src)
  BY <1>1 DEF CanRead
<1> HIDE DEF z
<1>4. /\ z \in Nat
      /\ z > 0 /\ b * BlockSize + z <= Len(src) =>
           /\ SubSeq(src, b * BlockSize + 1, b * BlockSize + z) = Piece(src, b)
           /\ b < pages[1] \/ (b + 1) * BlockSize >= Len(src)
      /\ b * BlockSize <= Len(src)
      /\ b * BlockSize < Len(src) => z > 0 /\ b * BlockSize + z <= Len(src)
      /\ b * BlockSize = Len(src) => z = 0
  BY <1>1, <1>2, BlockRead
<1>5. b * BlockSize \in Nat
  BY BlockBounds
<1> QED
  BY <1>1, <1>3, <1>4, <1>5 DEF z

\* The session sends a block, which joins the flow, or has sent them all.
LEMMA FlowStep ==
  ASSUME FetchInv, Single, ~Fault, up[1], src \in Content, c2s[1] = <<>>, NEW h \in {0, 1}, Flow(h),
         Session(1)
  PROVE  /\ UNCHANGED <<up, c2s, src>> /\ Flow(h)'
         /\ s2c'[1] = s2c[1] \/ (\E m \in Answers : s2c'[1] = Append(s2c[1], m))
<1> USE OneChannel
<1>1. PICK p \in Nat : \E n \in Nat : FlowAt(h, p, n)
  BY DEF Flow
<1>2. PICK n \in Nat : FlowAt(h, p, n)
  BY <1>1
<1> DEFINE b == p + n
<1>3. /\ b \in Nat /\ blk[1] = b /\ b * BlockSize < Len(src) + BlockSize /\ Len(src) \in Nat
      /\ BlockSize \in Nat \ {0} /\ Len(s2c[1]) = h + n
      /\ spc[1] = "send" /\ pages[1] = Len(src) \div BlockSize /\ b <= pages[1]
  <2>1. spc[1] # "ack"
    BY IdleWaits
  <2> QED
    BY <1>2, <2>1, LenProperties, ConstantTypes DEF FlowAt, Content
<1>4. /\ b * BlockSize \in Nat /\ b * BlockSize <= Len(src) /\ NextSize(1) \in Nat
      /\ b * BlockSize < Len(src) =>
           /\ NextSize(1) > 0 /\ CanRead(1)
           /\ SubSeq(src, b * BlockSize + 1, b * BlockSize + NextSize(1)) = Piece(src, b)
           /\ b < pages[1] \/ (b + 1) * BlockSize >= Len(src)
      /\ b * BlockSize = Len(src) => NextSize(1) = 0
  BY <1>3, NextRead
<1>5. b * BlockSize < Len(src) \/ b * BlockSize = Len(src)
  <2> DEFINE y == b * BlockSize
             l == Len(src)
  <2>1. y \in Nat /\ l \in Nat /\ y <= l
    BY <1>3, <1>4
  <2> HIDE DEF y, l
  <2>2. y < l \/ y = l
    BY <2>1
  <2> QED
    BY <2>2 DEF y, l
<1>6. SrvSend(1) \/ SrvSentAll(1)
  <2>1. ~SrvReadError(1, FALSE)
    BY <1>4, <1>5 DEF SrvReadError
  <2> QED
    BY <1>3, <2>1 DEF Session, SrvGetHash, SrvGetFile, SrvStart, SrvAck, SrvDeleteFile,
       SrvInvalidCommand, SrvGiveUp
<1>7. UNCHANGED <<off, temp>>
  BY SingleSession DEF client, disk
<1>8. CASE SrvSentAll(1)
  <2>1. b * BlockSize >= Len(src)
    BY <1>4, <1>5, <1>8 DEF SrvSentAll
  <2>2. UNCHANGED <<src, blk, pages, c2s, s2c, up>> /\ spc'[1] = "ack"
    BY <1>8 DEF SrvSentAll, Goto, net, source
  <2>3. FlowAt(h, p, n)'
    BY <1>2, <1>7, <2>1, <2>2 DEF FlowAt
  <2> QED
    BY <2>2, <2>3 DEF Flow
<1>9. CASE SrvSend(1)
  <2> DEFINE m == Frame("data", Piece(src, b), 0)
  <2>1. b * BlockSize < Len(src)
    BY <1>4, <1>5, <1>9 DEF SrvSend
  <2>2. /\ UNCHANGED <<src, pages, c2s, up>> /\ blk' = [blk EXCEPT ![1] = @ + 1]
        /\ s2c' = [s2c EXCEPT ![1] = Append(@, m)]
        /\ spc' = [spc EXCEPT ![1] = IF b < pages[1] THEN "send" ELSE "ack"]
    <3>1. SubSeq(src, blk[1] * BlockSize + 1, blk[1] * BlockSize + NextSize(1)) = Piece(src, b)
      BY <1>3, <1>4, <2>1
    <3>2. Say(1, m, IF b < pages[1] THEN "send" ELSE "ack")
      BY <1>3, <1>9, <3>1 DEF SrvSend
    <3> QED
      BY <1>3, <1>9, <3>2 DEF SrvSend, Say, Goto, Sends, source
  <2>3. m \in Answers
    <3>1. Piece(src, b) \in Content
      BY <1>3, <2>1, PieceWritten
    <3> QED
      BY <3>1 DEF Answers, Frame
  <2>4. blk'[1] = b + 1 /\ spc'[1] = (IF b < pages[1] THEN "send" ELSE "ack")
    BY <1>3, <2>2
  <2> HIDE DEF m
  <2>5. s2c'[1] = Append(s2c[1], m)
    BY <2>2
  <2>6. Len(s2c'[1]) = h + (n + 1)
    BY <1>3, <2>3, <2>5, AppendProperties
  <2>7. ASSUME NEW i \in DOMAIN s2c'[1], i > h
        PROVE  s2c'[1][i] = Frame("data", Piece(src, p + i - 1 - h), 0)
    <3>1. CASE i \in DOMAIN s2c[1] /\ s2c'[1][i] = s2c[1][i]
      BY <1>2, <2>7, <3>1 DEF FlowAt
    <3>2. CASE i = Len(s2c[1]) + 1 /\ s2c'[1][i] = m
      <4>1. p + i - 1 - h = b
        BY <1>3, <3>2
      <4> QED
        BY <3>2, <4>1 DEF m
    <3> QED
      BY <2>3, <2>5, <2>7, <3>1, <3>2, AppendFrames
  <2>8. (b + 1) * BlockSize < Len(src) + BlockSize
    <3> DEFINE y == b * BlockSize
               l == Len(src)
    <3>1. (b + 1) * BlockSize = y + BlockSize /\ y \in Nat /\ l \in Nat /\ y < l /\ BlockSize \in Nat
      BY <1>3, <1>4, <2>1, BlockOrder
    <3> HIDE DEF y, l
    <3>2. y + BlockSize < l + BlockSize
      BY <3>1
    <3> QED
      BY <3>1, <3>2 DEF l
  <2>9. p + (n + 1) = b + 1 /\ n + 1 \in Nat
    OBVIOUS
  <2>10. \/ spc'[1] = "send" /\ pages[1] = Len(src) \div BlockSize /\ b + 1 <= pages[1]
         \/ spc'[1] = "ack" /\ (b + 1) * BlockSize >= Len(src)
    <3>1. b < pages[1] => b + 1 <= pages[1]
      BY <1>3
    <3> QED
      BY <1>3, <1>4, <2>1, <2>4, <3>1
  <2> HIDE DEF b
  <2>11. FlowAt(h, p, n + 1)'
    BY <1>2, <1>7, <2>2, <2>4, <2>6, <2>7, <2>8, <2>9, <2>10 DEF FlowAt
  <2> QED
    BY <2>2, <2>3, <2>5, <2>9, <2>11 DEF Flow
<1> QED
  BY <1>6, <1>8, <1>9

\* The request is taken, the source is announced.
LEMMA AnnounceStep ==
  ASSUME FetchInv, Single, ~Fault, up[1], src \in Content, Asking, Session(1),
         ~(c2s[1] = <<>> /\ s2c[1] # <<>>)
  PROVE  UNCHANGED <<src, up, client>> /\ Asking'
<1> USE OneChannel
<1>1. UNCHANGED <<client, disk>> /\ cpc = "wait_file" /\ off = 0 /\ temp = <<>>
  BY SingleSession DEF Asking
<1>2. CASE c2s[1] = <<Frame("get_file", NoFile, 0)>> /\ s2c[1] = <<>> /\ spc[1] = "idle"
  <2>1. Input(1) = Frame("get_file", NoFile, 0) /\ c2s[1] # <<>> /\ Tail(c2s[1]) = <<>>
    BY <1>2, TwoFrames DEF Input
  <2>2. Input(1).kind = "get_file" /\ Input(1).n = 0
    BY <2>1 DEF Frame
  <2>3. SrvGetFile(1)
    BY <1>2, <2>1, <2>2 DEF Session, SrvGetHash, SrvStart, SrvSend, SrvSentAll, SrvReadError, SrvAck,
       SrvDeleteFile, SrvInvalidCommand, SrvGiveUp
  <2>4. /\ hashed' = [hashed EXCEPT ![1] = src] /\ blk' = [blk EXCEPT ![1] = 0]
        /\ spc' = [spc EXCEPT ![1] = "hashed"] /\ c2s' = [c2s EXCEPT ![1] = Tail(@)]
        /\ UNCHANGED <<src, s2c, up>>
    BY <2>2, <2>3 DEF SrvGetFile, Goto, TakeInput
  <2>5. c2s'[1] = <<>> /\ s2c'[1] = <<>> /\ spc'[1] = "hashed" /\ hashed'[1] = src /\ blk'[1] = 0
    BY <1>2, <2>1, <2>4
  <2> QED
    BY <1>1, <2>4, <2>5 DEF Asking, client, disk
<1>3. CASE c2s[1] = <<>> /\ s2c[1] = <<>> /\ spc[1] = "hashed" /\ hashed[1] = src /\ blk[1] = 0
  <2> DEFINE m == Frame("file", src, Len(src))
             s == IF src = <<>> THEN "ack" ELSE "send"
  <2>1. SrvStart(1)
    BY <1>3 DEF Session, SrvGetHash, SrvGetFile, SrvSend, SrvSentAll, SrvReadError, SrvAck,
       SrvDeleteFile, SrvInvalidCommand, SrvGiveUp
  <2>2. /\ spc' = [spc EXCEPT ![1] = s] /\ s2c' = [s2c EXCEPT ![1] = Append(@, m)]
        /\ pages' = [pages EXCEPT ![1] = Len(src) \div BlockSize]
        /\ UNCHANGED <<src, blk, c2s, up>>
    BY <1>3, <2>1 DEF SrvStart, Say, Goto, Sends, source
  <2> HIDE DEF m
  <2>3. /\ spc'[1] = s /\ s2c'[1] = <<m>> /\ pages'[1] = Len(src) \div BlockSize
        /\ blk'[1] = 0 /\ c2s'[1] = <<>>
    BY <1>3, <2>2, TwoFrames
  <2>4. CASE src = <<>>
    BY <1>1, <2>2, <2>3, <2>4 DEF Asking, client, disk, m
  <2>5. CASE src # <<>>
    <3>1. /\ Len(src) \in Nat /\ Len(src) > 0 /\ 0 * BlockSize = 0 /\ BlockSize \in Nat \ {0}
          /\ Len(src) \div BlockSize \in Nat
      <4>1. Len(src) \in Nat /\ Len(src) # 0
        BY <2>5, LenProperties, EmptySeq DEF Content
      <4> QED
        BY <4>1, BlockOrder, BlockBounds, ConstantTypes
    <3>2. Len(s2c'[1]) = 1 /\ \A i \in DOMAIN s2c'[1] : ~(i > 1)
      BY <2>3
    <3>3. FlowAt(1, 0, 0)'
      <4>1. SubSeq(src, 1, 0) = <<>>
        BY WholeFile
      <4>2. 0 + 0 = 0 /\ 1 + 0 = 1 /\ 0 < Len(src) + BlockSize /\ 0 <= Len(src) \div BlockSize
        BY <3>1
      <4> QED
        BY <1>1, <2>2, <2>3, <2>5, <3>1, <3>2, <4>1, <4>2 DEF FlowAt, client, disk
    <3>4. Flow(1)' /\ s2c'[1] # <<>> /\ Head(s2c'[1]) = m
      BY <2>3, <3>3, TwoFrames DEF Flow
    <3> QED
      BY <1>1, <2>2, <2>3, <2>5, <3>4 DEF Asking, client, disk, m
  <2> QED
    BY <1>1, <2>2, <2>4, <2>5
<1> QED
  BY <1>1, <1>2, <1>3, TwoFrames DEF Asking

LEMMA AskingStep ==
  ASSUME FetchInv, Single, ~Fault, src \in Content, up[1], Asking, Client \/ Session(1)
  PROVE  try' = 1 /\ Stage'
<1> USE OneChannel
<1>1. CASE Session(1)
  <2>1. UNCHANGED <<src, up, client>> /\ Asking'
    <3>1. CASE ~(c2s[1] = <<>> /\ s2c[1] # <<>>)
      BY <1>1, <3>1, AnnounceStep
    <3>2. CASE c2s[1] = <<>> /\ s2c[1] # <<>>
      <4>1. spc[1] # "ack"
        BY <1>1, <3>2, IdleWaits
      <4>2. /\ src # <<>> /\ Flow(1) /\ Head(s2c[1]) = Frame("file", src, Len(src))
            /\ cpc = "wait_file" /\ off = 0 /\ temp = <<>>
        BY <3>2, <4>1 DEF Asking
      <4>3. /\ UNCHANGED <<up, c2s, src>> /\ Flow(1)'
            /\ s2c'[1] = s2c[1] \/ (\E m \in Answers : s2c'[1] = Append(s2c[1], m))
        BY <1>1, <3>2, <4>2, FlowStep
      <4>4. s2c'[1] # <<>> /\ Head(s2c'[1]) = Head(s2c[1])
        <5>1. CASE s2c'[1] = s2c[1]
          BY <3>2, <5>1
        <5>2. ASSUME NEW m \in Answers, s2c'[1] = Append(s2c[1], m)
              PROVE  s2c'[1] # <<>> /\ Head(s2c'[1]) = Head(s2c[1])
          <6>1. Len(s2c[1]) \in Nat /\ Len(s2c[1]) # 0
            BY <3>2, EmptySeq, LenProperties
          <6>2. s2c'[1] \in Seq(Answers) /\ Len(s2c'[1]) = Len(s2c[1]) + 1 /\ s2c'[1][1] = s2c[1][1]
            BY <5>2, <6>1, AppendProperties
          <6>3. s2c'[1] # <<>>
            BY <6>1, <6>2, EmptySeq
          <6> QED
            BY <3>2, <6>2, <6>3, TailFrames
        <5> QED
          BY <4>3, <5>1, <5>2
      <4>5. UNCHANGED <<client, disk>>
        BY <1>1, SingleSession
      <4>6. Asking'
        BY <3>2, <4>2, <4>3, <4>4, <4>5 DEF Asking, client, disk
      <4> QED
        BY <4>3, <4>5, <4>6
    <3> QED
      BY <3>1, <3>2
  <2> QED
    BY <2>1 DEF Stage, Single, client
<1>2. CASE Client
  <2>1. StartReceiving \/ Refused \/ NoAnswer(FALSE)
    BY <1>2 DEF Asking, Client, Connect, Begin, CompareHash, OpenTemp, Receive, HasBlock,
       BadStream, Mismatch, Match, Acknowledge, Copy, Copied, DropTemp, PostProcess, Deleted
  <2>2. CASE s2c[1] = <<>>
    <3>1. c2s[1] # <<>> \/ spc[1] = "hashed"
      BY <2>2, TwoFrames DEF Asking
    <3> QED
      BY <2>1, <2>2, <3>1 DEF StartReceiving, Refused, NoAnswer, SessionWaits, Single
  <2>3. CASE s2c[1] # <<>>
    <3>1. /\ c2s[1] = <<>> /\ Head(s2c[1]) = Frame("file", src, Len(src))
          /\ cpc = "wait_file" /\ off = 0 /\ temp = <<>>
          /\ \/ src = <<>> /\ spc[1] = "ack" /\ s2c[1] = <<Frame("file", src, Len(src))>>
             \/ src # <<>> /\ Flow(1)
      BY <2>3, TwoFrames DEF Asking
    <3>2. Answer.kind = "file" /\ Answer.data = src /\ Answer.n = Len(src)
      BY <3>1 DEF Answer, Frame, Single
    <3>3. StartReceiving
      BY <2>1, <2>3, <3>1, <3>2 DEF Refused, NoAnswer, Starved, Single
    <3>4. /\ s2c' = [s2c EXCEPT ![1] = Tail(@)] /\ want'.hash = src /\ left' = Len(src) - off
          /\ UNCHANGED <<src, try, off, temp, c2s, up, spc, blk, pages>>
      BY <3>2, <3>3 DEF StartReceiving, TakeAnswer, Single, source, sessions
    <3>5. s2c'[1] = Tail(s2c[1]) /\ Len(src) \in Nat
      BY <3>4, LenProperties DEF Content
    <3>6. CASE src = <<>> /\ spc[1] = "ack" /\ s2c[1] = <<Frame("file", src, Len(src))>>
      <4>1. cpc' = "ack" /\ s2c'[1] = <<>>
        BY <3>2, <3>3, <3>5, <3>6, TwoFrames DEF StartReceiving
      <4>2. Installing'
        BY <3>1, <3>4, <3>6, <4>1 DEF Installing, SentAll
      <4> QED
        BY <3>4, <4>2 DEF Stage, Single
    <3>7. CASE src # <<>> /\ Flow(1)
      <4>1. cpc' = "recv"
        <5>1. Answer.n # 0
          BY <3>2, <3>5, <3>7, EmptySeq DEF Content
        <5> QED
          BY <3>3, <5>1 DEF StartReceiving
      <4>2. PICK p \in Nat : \E n \in Nat : FlowAt(1, p, n)
        BY <3>7 DEF Flow
      <4>3. PICK n \in Nat : FlowAt(1, p, n)
        BY <4>2
      <4>4. Len(s2c'[1]) = 0 + n
        <5>1. Len(s2c'[1]) = Len(s2c[1]) - 1
          BY <2>3, <3>5, TailFrames
        <5>2. Len(s2c[1]) = 1 + n
          BY <4>3 DEF FlowAt
        <5> QED
          BY <5>1, <5>2
      <4>5. ASSUME NEW i \in DOMAIN s2c'[1], i > 0
            PROVE  s2c'[1][i] = Frame("data", Piece(src, p + i - 1 - 0), 0)
        <5>1. i + 1 \in DOMAIN s2c[1] /\ s2c'[1][i] = s2c[1][i + 1]
          BY <2>3, <3>5, <4>5, TailFrames
        <5>2. i \in Nat
          <6>1. Tail(s2c[1]) \in Seq(Answers)
            BY <2>3, HeadTailProperties
          <6> QED
            BY <3>5, <4>5, <6>1, LenProperties
        <5>3. p + (i + 1) - 1 - 1 = p + i - 1 - 0 /\ i + 1 > 1
          BY <4>5, <5>2
        <5>4. s2c[1][i + 1] = Frame("data", Piece(src, p + (i + 1) - 1 - 1), 0)
          BY <4>3, <5>1, <5>3 DEF FlowAt
        <5> QED
          BY <5>1, <5>3, <5>4
      <4>6. FlowAt(0, p, n)'
        BY <3>4, <4>3, <4>4, <4>5 DEF FlowAt
      <4>7. Receiving'
        BY <3>1, <3>4, <4>1, <4>6 DEF Receiving, Flow
      <4> QED
        BY <3>4, <4>7 DEF Stage, Single
    <3> QED
      BY <3>1, <3>6, <3>7
  <2> QED
    BY <2>2, <2>3
<1> QED
  BY <1>1, <1>2

\* The client takes the next block of the flow, which goes on or was the last.
LEMMA FlowTaken ==
  ASSUME FetchInv, Single, src \in Content, up[1], Receiving, Receive
  PROVE  try' = 1 /\ Stage'
<1> USE OneChannel
<1>1. PICK p \in Nat : \E n \in Nat : FlowAt(0, p, n)
  BY DEF Receiving, Flow
<1>2. PICK n \in Nat : FlowAt(0, p, n)
  BY <1>1
<1> DEFINE a == p * BlockSize
           d == Piece(src, p)
           e == Edge(src, p + 1)
           l == Len(src)
<1>3. /\ off = a /\ left = l - a /\ a < l /\ temp = SubSeq(src, 1, a) /\ l \in Nat /\ a \in Nat
      /\ Len(s2c[1]) = n /\ s2c[1] # <<>> /\ c2s[1] = <<>> /\ want.hash = src
  <2>1. off = a /\ off < l /\ temp = SubSeq(src, 1, off) /\ Len(s2c[1]) = 0 + n
    BY <1>2 DEF FlowAt
  <2>2. left = l - off /\ s2c[1] # <<>> /\ c2s[1] = <<>> /\ want.hash = src
    BY DEF Receiving, Receive, HasBlock, Single
  <2>3. l \in Nat /\ 0 + n = n
    BY LenProperties DEF Content
  <2>4. a \in Nat
    BY BlockBounds
  <2> HIDE DEF a, l
  <2> QED
    BY <2>1, <2>2, <2>3, <2>4
<1>4. Answer = Frame("data", d, 0)
  <2>1. 1 \in DOMAIN s2c[1] /\ s2c[1][1] = Answer
    BY <1>3, TailFrames DEF Answer, Single
  <2>2. p + 1 - 1 - 0 = p /\ 1 > 0
    OBVIOUS
  <2> QED
    BY <1>2, <2>1, <2>2 DEF FlowAt
<1>5. /\ Need \in Nat /\ Need > 0 /\ Need = Len(d) /\ SubSeq(d, 1, Need) = d /\ a + Need = e
      /\ a + Need < l => a + Need = (p + 1) * BlockSize
      /\ WriteAt(SubSeq(src, 1, a), a, d) = SubSeq(src, 1, e) /\ e <= l /\ e \in Nat
  <2>1. Need = Lesser(BlockSize, l - a)
    BY <1>3 DEF Need
  <2> QED
    BY <1>3, <2>1, PieceTaken, PieceWritten
<1>6. /\ temp' = SubSeq(src, 1, e) /\ off' = e
      /\ s2c' = [s2c EXCEPT ![1] = Tail(@)]
      /\ UNCHANGED <<src, try, want, c2s, up, spc, blk, pages>>
  <2>1. Answer.data = d
    BY <1>4 DEF Frame
  <2>2. ~(Len(d) > Need)
    BY <1>5
  <2> HIDE DEF a, d, e, l
  <2> QED
    BY <1>3, <1>5, <2>1, <2>2 DEF Receive, Single, source, sessions
<1>7. left' = l - e /\ cpc' = IF l - e <= 0 THEN "check" ELSE "recv"
  <2> HIDE DEF a, e, l, d
  <2>1. left - Need = l - e /\ left' = left - Need
    BY <1>3, <1>5 DEF Receive
  <2> QED
    BY <2>1 DEF Receive
<1>8. /\ s2c'[1] = Tail(s2c[1]) /\ n # 0 /\ Len(s2c'[1]) = n - 1
  <2>1. s2c'[1] = Tail(s2c[1])
    BY <1>6
  <2> QED
    BY <1>3, <2>1, TailFrames, EmptySeq
<1>9. p + n = p + 1 + (n - 1) /\ n - 1 \in Nat /\ p + 1 \in Nat
  BY <1>8
<1> DEFINE b == p + n
<1>10. /\ blk[1] = b /\ b * BlockSize < l + BlockSize
       /\ \/ spc[1] = "send" /\ pages[1] = l \div BlockSize /\ b <= pages[1]
          \/ spc[1] = "ack" /\ b * BlockSize >= l
  BY <1>2 DEF FlowAt
<1>11. CASE e < l
  <2>1. e = (p + 1) * BlockSize /\ cpc' = "recv"
    BY <1>3, <1>5, <1>7, <1>11
  <2>2. ASSUME NEW i \in DOMAIN s2c'[1], i > 0
        PROVE  s2c'[1][i] = Frame("data", Piece(src, p + 1 + i - 1 - 0), 0)
    <3>1. i + 1 \in DOMAIN s2c[1] /\ s2c'[1][i] = s2c[1][i + 1]
      BY <1>3, <1>8, <2>2, TailFrames
    <3>2. i \in Nat
      <4>1. Tail(s2c[1]) \in Seq(Answers)
        BY <1>3, HeadTailProperties
      <4> QED
        BY <1>8, <2>2, <4>1, LenProperties
    <3>3. p + (i + 1) - 1 - 0 = p + 1 + i - 1 - 0 /\ i + 1 > 0
      BY <3>2
    <3>4. s2c[1][i + 1] = Frame("data", Piece(src, p + (i + 1) - 1 - 0), 0)
      BY <1>2, <3>1, <3>3 DEF FlowAt
    <3> QED
      BY <3>1, <3>3, <3>4
  <2>3. Len(s2c'[1]) = 0 + (n - 1)
    BY <1>8, <1>9
  <2>4. FlowAt(0, p + 1, n - 1)'
    <3> HIDE DEF e, b, a
    <3>1. b = p + 1 + (n - 1)
      BY <1>9 DEF b
    <3> QED
      BY <1>6, <1>10, <1>11, <2>1, <2>2, <2>3, <3>1 DEF FlowAt
  <2>5. Flow(0)'
    BY <1>9, <2>4 DEF Flow
  <2>6. Receiving'
    BY <1>3, <1>6, <1>7, <2>1, <2>5 DEF Receiving
  <2> QED
    BY <1>6, <2>6 DEF Stage, Single
<1>12. CASE e = l
  <2>1. cpc' = "check" /\ temp' = src
    <3>1. l - e <= 0
      BY <1>5, <1>12
    <3> QED
      BY <1>6, <1>7, <1>12, <3>1, WholeFile
  <2>2. (p + 1) * BlockSize >= l
    <3> DEFINE x == (p + 1) * BlockSize
    <3>1. l = (IF x < l THEN x ELSE l)
      BY <1>12 DEF Edge, Lesser
    <3>0. x \in Nat
      BY <1>9, BlockBounds
    <3> HIDE DEF x, l
    <3>2. x >= l
      BY <1>3, <3>0, <3>1
    <3> QED
      BY <3>2 DEF x
  <2>3. n - 1 = 0
    <3>1. SUFFICES ASSUME n >= 2 PROVE FALSE
      BY <1>8
    <3>2. (p + 2) * BlockSize <= b * BlockSize
      BY <3>1, BlockOrder
    <3>3. (p + 2) * BlockSize = (p + 1) * BlockSize + BlockSize
      <4>1. p + 2 = p + 1 + 1
        OBVIOUS
      <4> QED
        BY <4>1, BlockOrder
    <3> DEFINE x == (p + 1) * BlockSize
               y == b * BlockSize
    <3>4. x \in Nat /\ y \in Nat /\ BlockSize \in Nat /\ x + BlockSize <= y /\ y < l + BlockSize /\ x >= l
      BY <1>10, <2>2, <3>2, <3>3, BlockBounds, ConstantTypes
    <3> HIDE DEF x, y, l
    <3> QED
      BY <1>3, <3>4
  <2>4. s2c'[1] = <<>>
    <3>1. Tail(s2c[1]) \in Seq(Answers)
      BY <1>3, HeadTailProperties
    <3> QED
      BY <1>8, <2>3, <3>1, EmptySeq
  <2>5. SentAll
    <3>1. CASE spc[1] = "send"
      <4>1. /\ b * BlockSize <= l /\ b * BlockSize \in Nat
            /\ b * BlockSize = l => NextSize(1) = 0
        BY <1>10, <3>1, NextRead
      <4>2. b = p + 1
        BY <2>3
      <4> DEFINE y == b * BlockSize
      <4>3. y >= l /\ y <= l /\ y \in Nat
        BY <2>2, <4>1, <4>2
      <4> HIDE DEF y, l
      <4>4. y = l
        BY <1>3, <4>3
      <4> QED
        BY <3>1, <4>1, <4>4 DEF SentAll, y, l
    <3> QED
      BY <1>10, <3>1 DEF SentAll
  <2>6. SentAll'
    BY <1>6, <2>5 DEF SentAll, NextSize
  <2>7. Installing'
    BY <1>3, <1>6, <2>1, <2>4, <2>6 DEF Installing
  <2> QED
    BY <1>6, <2>7 DEF Stage, Single
<1> QED
  BY <1>3, <1>5, <1>11, <1>12

LEMMA ReceivingStep ==
  ASSUME FetchInv, Single, ~Fault, src \in Content, up[1], Receiving, Client \/ Session(1)
  PROVE  try' = 1 /\ Stage'
<1> USE OneChannel
<1>1. cpc = "recv" /\ c2s[1] = <<>> /\ want.hash = src /\ left = Len(src) - off /\ Flow(0)
  BY DEF Receiving
<1>2. CASE Session(1)
  <2>1. UNCHANGED <<up, c2s, src>> /\ Flow(0)'
    BY <1>1, <1>2, FlowStep
  <2>2. UNCHANGED <<client, disk>>
    BY <1>2, SingleSession
  <2>3. Receiving'
    BY <1>1, <2>1, <2>2 DEF Receiving, client
  <2> QED
    BY <2>1, <2>2, <2>3 DEF Stage, Single, client
<1>3. CASE Client
  <2>1. Receive \/ BadStream \/ NoAnswer(FALSE)
    BY <1>1, <1>3 DEF Client, Connect, Begin, CompareHash, Refused, OpenTemp, StartReceiving,
       Mismatch, Match, Acknowledge, Copy, Copied, DropTemp, PostProcess, Deleted, Waiting
  <2>2. PICK p \in Nat : \E n \in Nat : FlowAt(0, p, n)
    BY <1>1 DEF Flow
  <2>3. PICK n \in Nat : FlowAt(0, p, n)
    BY <2>2
  <2>4. off = p * BlockSize /\ off < Len(src) /\ off \in Nat /\ Len(src) \in Nat /\ left > 0
    <3>1. off = p * BlockSize /\ off < Len(src) /\ off \in Nat /\ Len(src) \in Nat
      BY <2>3, BlockBounds, LenProperties DEF FlowAt, Content
    <3> QED
      BY <1>1, <3>1
  <2>5. s2c[1] # <<>> => Answer.kind = "data" /\ Need <= Len(Answer.data)
    <3>1. SUFFICES ASSUME s2c[1] # <<>> PROVE Answer.kind = "data" /\ Need <= Len(Answer.data)
      OBVIOUS
    <3>2. 1 \in DOMAIN s2c[1] /\ s2c[1][1] = Answer
      BY <3>1, TailFrames DEF Answer, Single
    <3>3. p + 1 - 1 - 0 = p /\ 1 > 0
      OBVIOUS
    <3>4. Answer = Frame("data", Piece(src, p), 0)
      BY <2>3, <3>2, <3>3 DEF FlowAt
    <3>5. Need \in Nat /\ Need = Len(Piece(src, p))
      BY <1>1, <2>4, PieceTaken DEF Need
    <3> QED
      BY <3>4, <3>5 DEF Frame
  <2>6. ~BadStream
    <3>1. left >= 0
      BY <2>4 DEF FetchInv, ClientInv
    <3> QED
      BY <2>5, <3>1 DEF BadStream, Single
  <2>7. ~NoAnswer(FALSE)
    <3>1. CASE s2c[1] # <<>>
      <4>1. Need \in Int /\ Len(Answer.data) \in Int
        <5>1. Answer.data \in Content
          BY <2>5, <3>1, AnswerType DEF Single
        <5> QED
          BY <1>1, <2>4, <5>1, LenProperties, ConstantTypes DEF Need, Lesser, Content
      <4>2. ~(Len(Answer.data) < Need) /\ Answer.kind = "data"
        BY <2>5, <3>1, <4>1
      <4>3. ~Starved
        BY <3>1, <4>2 DEF Starved, Single
      <4> QED
        BY <4>3 DEF NoAnswer
    <3>2. CASE s2c[1] = <<>>
      <4>1. Len(s2c[1]) = 0
        BY <3>2
      <4>2. n = 0
        BY <2>3, <4>1 DEF FlowAt
      <4>3. p + n = p
        BY <4>2
      <4>4. ~((p + n) * BlockSize >= Len(src))
        BY <2>4, <4>3
      <4>5. spc[1] = "send"
        BY <2>3, <4>4 DEF FlowAt
      <4> QED
        BY <4>5 DEF NoAnswer, SessionWaits, Single
    <3> QED
      BY <3>1, <3>2
  <2> QED
    BY <2>1, <2>6, <2>7, FlowTaken
<1> QED
  BY <1>2, <1>3

\* The acknowledgement reaches the session, which had sent all.
LEMMA AckStep ==
  ASSUME FetchInv, Single, ~Fault, src \in Content, up[1], Session(1), SentAll,
         NEW rest \in Seq(Commands),
         c2s[1] = <<>> \/ (c2s[1] # <<>> /\ Tail(c2s[1]) = rest)
  PROVE  /\ UNCHANGED <<up, src, s2c>>
         /\ \/ c2s' = c2s /\ SentAll'
            \/ c2s[1] # <<>> /\ c2s'[1] = rest /\ spc'[1] = "idle"
<1> USE OneChannel
<1>1. SrvSentAll(1) \/ SrvAck(1)
  <2>1. ~SrvSend(1) /\ ~SrvReadError(1, FALSE)
    BY DEF SentAll, SrvSend, SrvReadError
  <2>2. ~SrvGiveUp(1)
    BY DEF SrvGiveUp
  <2> QED
    BY <2>1, <2>2 DEF SentAll, Session, SrvGetHash, SrvGetFile, SrvStart, SrvDeleteFile, SrvInvalidCommand
<1>2. CASE SrvSentAll(1)
  BY <1>2 DEF SrvSentAll, Goto, net, source, SentAll
<1>3. CASE SrvAck(1)
  BY <1>3 DEF SrvAck, Goto, TakeInput, source
<1> QED
  BY <1>1, <1>2, <1>3

LEMMA InstallingStep ==
  ASSUME FetchInv, Single, ~Fault, src \in Content, up[1], Installing, Client \/ Session(1)
  PROVE  try' = 1 /\ Stage'
<1> USE OneChannel
<1> DEFINE Ok == Frame("ok", NoFile, 0)
<1>0. Ok \in Commands
  BY FrameTypes
<1>1. CASE Session(1)
  <2>1. UNCHANGED <<client, disk>>
    BY <1>1, SingleSession
  <2>2. /\ SentAll
        /\ \/ c2s[1] = <<>> /\ cpc \in {"check", "ack"}
           \/ c2s[1] = <<Ok>> /\ cpc \in {"copy", "copying", "drop", "post"}
    <3>1. ~(c2s[1] = <<>> /\ spc[1] = "idle")
      BY <1>1, IdleWaits
    <3>2. CASE cpc \in {"check", "ack"}
      <4>1. c2s[1] = <<>>
        BY <3>2 DEF Installing
      <4>2. SentAll
        BY <3>2 DEF Installing
      <4> QED
        BY <3>2, <4>1, <4>2
    <3>3. CASE cpc \notin {"check", "ack"}
      BY <3>1, <3>3 DEF Installing
    <3> QED
      BY <3>2, <3>3
  <2>3. <<>> \in Seq(Commands) /\ Tail(<<Ok>>) = <<>> /\ <<Ok>> # <<>>
    BY TwoFrames
  <2>4. /\ UNCHANGED <<up, src, s2c>>
        /\ \/ c2s' = c2s /\ SentAll'
           \/ c2s[1] # <<>> /\ c2s'[1] = <<>> /\ spc'[1] = "idle"
    BY <1>1, <2>2, <2>3, AckStep
  <2>5. Installing'
    <3>1. CASE c2s' = c2s /\ SentAll'
      BY <2>1, <2>2, <2>4, <3>1 DEF Installing, client, disk
    <3>2. CASE c2s[1] # <<>> /\ c2s'[1] = <<>> /\ spc'[1] = "idle"
      <4>1. cpc \in {"copy", "copying", "drop", "post"}
        BY <2>2, <3>2
      <4> QED
        BY <2>1, <2>4, <3>2, <4>1 DEF Installing, client, disk
    <3> QED
      BY <2>4, <3>1, <3>2
  <2> QED
    BY <2>1, <2>4, <2>5 DEF Stage, Single, client
<1>2. CASE Client
  <2>0. SentAll => SentAll'
    <3>1. UNCHANGED <<src, spc, blk, pages>>
      <4>1. ~Connect
        BY DEF Installing, Connect
      <4>2. cpc' = "connect" => try' = try + 1
        BY <1>2, <4>1, ClientFrame, HangupFrame DEF ClientActs, Connect
      <4>3. UNCHANGED <<source, blk, pages>>
        BY <1>2, ClientFrame DEF ClientActs
      <4>4. UNCHANGED spc
        BY <1>2, <4>1, ClientFrame DEF ClientActs
      <4> QED
        BY <4>3, <4>4 DEF source
    <3> QED
      BY <3>1 DEF SentAll, NextSize
  <2>1. CASE cpc = "check"
    <3>1. want.hash = src /\ temp = src /\ c2s[1] = <<>> /\ SentAll /\ s2c[1] = <<>>
      BY <2>1 DEF Installing
    <3>2. Match
      BY <1>2, <2>1, <3>1 DEF Client, Connect, Begin, CompareHash, Refused, OpenTemp, StartReceiving,
         Receive, HasBlock, BadStream, NoAnswer, Mismatch, Acknowledge, Copy, Copied, DropTemp,
         PostProcess, Deleted, Waiting
    <3>3. cpc' = "ack" /\ UNCHANGED <<src, try, temp, dest, spc, c2s, s2c, up>>
      BY <3>2 DEF Match, source, disk, sessions, net
    <3>4. Installing'
      BY <2>0, <3>1, <3>3 DEF Installing
    <3> QED
      BY <3>3, <3>4 DEF Stage, Single
  <2>2. CASE cpc = "ack"
    <3>1. temp = src /\ c2s[1] = <<>> /\ SentAll /\ s2c[1] = <<>>
      BY <2>2 DEF Installing
    <3>2. Acknowledge
      BY <1>2, <2>2 DEF Client, Connect, Begin, CompareHash, Refused, OpenTemp, StartReceiving,
         Receive, HasBlock, BadStream, NoAnswer, Mismatch, Match, Copy, Copied, DropTemp,
         PostProcess, Deleted, Waiting
    <3>3. /\ cpc' = "copy" /\ UNCHANGED <<src, try, temp, dest, spc, s2c, up>>
          /\ c2s' = Sends(c2s, 1, Ok)
      BY <3>2 DEF Acknowledge, source, disk, sessions, Single
    <3>4. c2s'[1] = <<Ok>>
      BY <3>1, <3>3, TwoFrames DEF Sends
    <3>5. Installing'
      BY <2>0, <3>1, <3>3, <3>4 DEF Installing
    <3> QED
      BY <3>3, <3>5 DEF Stage, Single
  <2>3. CASE cpc \in {"copy", "copying", "drop"}
    <3>1. Copy \/ Copied \/ DropTemp
      BY <1>2, <2>3 DEF Client, Connect, Begin, CompareHash, Refused, OpenTemp, StartReceiving,
         Receive, HasBlock, BadStream, NoAnswer, Mismatch, Match, Acknowledge,
         PostProcess, Deleted, Waiting
    <3>2. UNCHANGED <<src, try, spc, c2s, s2c, up>>
      BY <3>1 DEF Copy, Copied, DropTemp, source, sessions, net
    <3>3. \/ cpc' = "copying" /\ temp = src /\ temp' = src
          \/ cpc' = "drop" /\ dest' = src
          \/ cpc' = "post" /\ dest' = src /\ temp' = NoFile
      BY <3>1 DEF Copy, Copied, DropTemp, Installing
    <3>4. (c2s[1] = <<Ok>> /\ SentAll) \/ (c2s[1] = <<>> /\ spc[1] = "idle")
      BY <2>3 DEF Installing
    <3>5. s2c'[1] = <<>>
      BY <3>2 DEF Installing
    <3>6. Installing'
      BY <2>0, <3>2, <3>3, <3>4, <3>5 DEF Installing
    <3> QED
      BY <3>2, <3>6 DEF Stage, Single
  <2>4. CASE cpc = "post"
    <3>1. /\ dest = src /\ temp = NoFile /\ s2c[1] = <<>>
          /\ (c2s[1] = <<Ok>> /\ SentAll) \/ (c2s[1] = <<>> /\ spc[1] = "idle")
      BY <2>4 DEF Installing
    <3>2. PostProcess
      BY <1>2, <2>4 DEF Client, Connect, Begin, CompareHash, Refused, OpenTemp, StartReceiving,
         Receive, HasBlock, BadStream, NoAnswer, Mismatch, Match, Acknowledge, Copy, Copied, DropTemp,
         Deleted, Waiting
    <3>3. UNCHANGED <<src, temp, dest, spc>>
      BY <3>2 DEF PostProcess, source, disk, sessions
    <3>4. CASE ~DeleteSrc
      <4>1. cpc' = "done" /\ result' /\ try' = 1 /\ c2s' = c2s
        BY <3>2, <3>4 DEF PostProcess, NextBlock, Hangup, Single
      <4>2. Ending'
        BY <3>1, <3>3, <3>4, <4>1 DEF Ending
      <4> QED
        BY <4>1, <4>2 DEF Stage
    <3>5. CASE DeleteSrc
      <4> DEFINE Del == Frame("delete", NoFile, 0)
      <4>1. c2s' = Sends(c2s, 1, Del) /\ cpc' = "wait_del" /\ UNCHANGED <<try, s2c, up>>
        BY <3>2, <3>5 DEF PostProcess, Request, Single
      <4>2. c2s'[1] = Append(c2s[1], Del)
        BY <4>1 DEF Sends
      <4>3. \/ c2s'[1] = <<Ok, Del>> /\ SentAll'
            \/ c2s'[1] = <<Del>> /\ spc'[1] = "idle"
        <5>1. CASE c2s[1] = <<Ok>> /\ SentAll
          <6>1. c2s'[1] = Append(<<Ok>>, Del)
            BY <4>2, <5>1
          <6>2. Append(<<Ok>>, Del) = <<Ok, Del>>
            BY TwoFrames
          <6>3. SentAll'
            BY <2>0, <5>1, Zenon
          <6>4. c2s'[1] = <<Ok, Del>>
            BY <6>1, <6>2
          <6> QED
            BY <6>3, <6>4
        <5>2. CASE c2s[1] = <<>> /\ spc[1] = "idle"
          BY <3>3, <4>2, <5>2, TwoFrames
        <5> QED
          BY <3>1, <5>1, <5>2
      <4>4. Deleting'
        BY <3>1, <3>3, <3>5, <4>1, <4>3 DEF Deleting
      <4> QED
        BY <4>1, <4>4 DEF Stage, Single
    <3> QED
      BY <3>4, <3>5
  <2> QED
    BY <2>1, <2>2, <2>3, <2>4 DEF Installing
<1> QED
  BY <1>1, <1>2

LEMMA DeletingStep ==
  ASSUME FetchInv, Single, ~Fault, up[1], Deleting, Client \/ Session(1)
  PROVE  try' = 1 /\ Stage'
<1> USE OneChannel
<1> DEFINE Ok == Frame("ok", NoFile, 0)
           Del == Frame("delete", NoFile, 0)
<1>0. cpc = "wait_del" /\ DeleteSrc /\ temp = NoFile
  BY DEF Deleting
<1>1. CASE Session(1)
  <2>1. UNCHANGED <<client, disk>>
    BY <1>1, SingleSession
  <2>2. s2c[1] = <<>> /\ src \in Content
    <3>1. ~(c2s[1] = <<>> /\ spc[1] = "idle")
      BY <1>1, IdleWaits
    <3> QED
      BY <3>1 DEF Deleting
  <2>3. CASE c2s[1] = <<Ok, Del>> /\ SentAll
    <3>1. Tail(c2s[1]) = <<Del>> /\ c2s[1] # <<>> /\ <<Del>> \in Seq(Commands)
      <4>1. Del \in Commands
        BY FrameTypes
      <4> QED
        BY <2>3, <4>1, TwoFrames
    <3>2. /\ UNCHANGED <<up, src, s2c>>
          /\ \/ c2s' = c2s /\ SentAll'
             \/ c2s'[1] = <<Del>> /\ spc'[1] = "idle"
      BY <1>1, <2>2, <2>3, <3>1, AckStep
    <3>3. Deleting'
      BY <1>0, <2>1, <2>2, <2>3, <3>2 DEF Deleting, client, disk
    <3> QED
      BY <2>1, <3>2, <3>3 DEF Stage, Single, client
  <2>4. CASE c2s[1] = <<Del>> /\ spc[1] = "idle"
    <3>1. Tail(c2s[1]) = <<>> /\ c2s[1] # <<>> /\ Input(1) = Del
      BY <2>4, TwoFrames DEF Input
    <3>2. Input(1).kind = "delete"
      BY <3>1 DEF Frame
    <3>3. SrvDeleteFile(1)
      BY <1>1, <2>4, <3>1, <3>2 DEF Session, SrvGetHash, SrvGetFile, SrvStart, SrvSend, SrvSentAll,
         SrvReadError, SrvAck, SrvInvalidCommand, SrvGiveUp
    <3>4. \A j \in Attempts : spc[j] \notin Sending
      BY <2>4 DEF Single, Sending
    <3>5. src # NoFile
      BY <2>2
    <3>6. /\ src' = NoFile /\ Say(1, Frame("deleted", NoFile, 0), "idle") /\ TakeInput(1)
      BY <3>3, <3>4, <3>5 DEF SrvDeleteFile
    <3>7. /\ s2c' = [s2c EXCEPT ![1] = Append(@, Frame("deleted", NoFile, 0))]
          /\ c2s' = [c2s EXCEPT ![1] = Tail(@)] /\ spc' = [spc EXCEPT ![1] = "idle"] /\ up' = up
      BY <3>6 DEF Say, Goto, TakeInput, Sends
    <3>8. s2c'[1] = <<Frame("deleted", NoFile, 0)>> /\ c2s'[1] = <<>> /\ spc'[1] = "idle"
      BY <2>2, <3>1, <3>7, TwoFrames
    <3>9. Deleting'
      BY <1>0, <2>1, <3>6, <3>8 DEF Deleting, client, disk
    <3> QED
      BY <2>1, <3>7, <3>9 DEF Stage, Single, client
  <2> QED
    BY <2>2, <2>3, <2>4 DEF Deleting
<1>2. CASE Client
  <2>1. Deleted \/ Refused \/ NoAnswer(FALSE)
    BY <1>0, <1>2 DEF Client, Connect, Begin, CompareHash, OpenTemp, StartReceiving, Receive, HasBlock,
       BadStream, Mismatch, Match, Acknowledge, Copy, Copied, DropTemp, PostProcess
  <2>2. CASE s2c[1] = <<>>
    <3>1. c2s[1] # <<>>
      BY <2>2, TwoFrames DEF Deleting
    <3> QED
      BY <2>1, <2>2, <3>1 DEF Deleted, Refused, NoAnswer, SessionWaits, Single
  <2>3. CASE s2c[1] # <<>>
    <3>1. src = NoFile /\ s2c[1] = <<Frame("deleted", NoFile, 0)>> /\ c2s[1] = <<>>
      BY <2>3 DEF Deleting
    <3>2. Answer.kind = "deleted"
      BY <3>1, TwoFrames DEF Answer, Frame, Single
    <3>3. Deleted
      BY <1>0, <2>1, <2>3, <3>2 DEF Refused, NoAnswer, Starved, Single
    <3>4. /\ cpc' = "done" /\ result' /\ try' = 1 /\ UNCHANGED <<c2s, src, temp, dest>>
      BY <3>3 DEF Deleted, NextBlock, Hangup, Single, source, disk
    <3>5. Ending'
      BY <1>0, <3>1, <3>4 DEF Ending
    <3> QED
      BY <3>4, <3>5 DEF Stage
  <2> QED
    BY <2>2, <2>3
<1> QED
  BY <1>1, <1>2

LEMMA EndingStep ==
  ASSUME FetchInv, Single, Ending, Client \/ Session(1)
  PROVE  try' = 1 /\ Stage'
<1> USE OneChannel
<1>1. Session(1)
  BY DEF Ending, Client, Connect, Begin, CompareHash, Refused, OpenTemp, StartReceiving, Receive,
     HasBlock, BadStream, NoAnswer, Mismatch, Match, Acknowledge, Copy, Copied, DropTemp, PostProcess,
     Deleted, Waiting
<1>2. UNCHANGED <<client, disk>>
  BY <1>1, SingleSession
<1>3. c2s'[1] \in {<<>>, <<Frame("ok", NoFile, 0)>>} /\ src' = src
  <2>1. SessionActs(1)
    BY <1>1 DEF SessionActs
  <2>2. c2s'[1] \in {c2s[1], <<>>} \/ (c2s[1] # <<>> /\ c2s'[1] = Tail(c2s[1]))
    BY <2>1, SessionFrame
  <2>3. ~SrvDeleteFile(1)
    <3>1. c2s[1] # <<>> => Input(1) = Frame("ok", NoFile, 0)
      BY TwoFrames DEF Ending, Input
    <3> QED
      BY <3>1 DEF SrvDeleteFile, Frame
  <2>4. Tail(<<Frame("ok", NoFile, 0)>>) = <<>>
    BY TwoFrames
  <2> QED
    BY <2>1, <2>2, <2>3, <2>4, SessionFrame DEF Ending
<1>4. Ending'
  BY <1>2, <1>3 DEF Ending, client, disk
<1> QED
  BY <1>2, <1>4 DEF Stage, Single, client

LEMMA StraightStep ==
  ASSUME FetchInv, Straight, [Next]_vars
  PROVE  Straight'
<1> SUFFICES ASSUME faults' = 0 PROVE Single' /\ Stage'
  BY DEF Straight
<1>1. /\ ~Fault /\ Single /\ Stage
      /\ Client \/ (\E k \in Attempts : Session(k)) \/ UNCHANGED vars
  BY FaultCounted DEF Straight
<1>2. CASE UNCHANGED vars
  BY <1>1, <1>2 DEF vars, source, client, disk, sessions, net, Stage, Before, Comparing, Asking,
     Receiving, Installing, Deleting, Ending, SentAll, NextSize, Flow, FlowAt, Single
<1>3. CASE Client \/ Session(1)
  <2>1. try' = 1 /\ Stage'
    BY <1>1, <1>3, BeforeStep, ComparingStep, AskingStep, ReceivingStep, InstallingStep, DeletingStep,
       EndingStep DEF Stage
  <2>2. \A k \in Attempts \ {1} : spc'[k] = "none"
    <3>1. CASE Session(1)
      BY <1>1, <3>1, SingleSession, OneChannel DEF Single
    <3>2. CASE Client
      BY <1>1, <3>2, ClientFrame DEF ClientActs, Single
    <3> QED
      BY <1>3, <3>1, <3>2
  <2> QED
    BY <2>1, <2>2 DEF Single
<1>4. ASSUME NEW k \in Attempts, Session(k)
      PROVE  k = 1
  BY <1>1, <1>4, SingleSession
<1> QED
  BY <1>1, <1>2, <1>3, <1>4

\* A file of any size arrives when nothing goes wrong: a job without a fault
\* ends well at its first attempt and leaves no temporary file; unless it may
\* not replace a file the destination has the content of the source, or the
\* source has been deleted as asked (do_get_file, 571-819; command_get_file,
\* mainclass.cpp 524-672; command_delete_file, 1285).
THEOREM FetchDelivers == Spec => []Delivers
<1>1. Init => Straight
  <2> SUFFICES ASSUME Init PROVE Single /\ src \in Content /\ Before
    BY DEF Straight, Stage
  <2>1. 1 \in Attempts /\ src \in Content
    BY ConstantTypes DEF Attempts, Init
  <2> QED
    BY <2>1 DEF Init, Single, Before
<1>2. FetchInv /\ Straight /\ [Next]_vars => Straight'
  BY StraightStep
<1>3. Straight => Delivers
  <2> SUFFICES ASSUME Single, Stage, cpc = "done"
               PROVE  /\ result /\ try = 1 /\ temp = NoFile
                      /\ Overwrite => src = IF DeleteSrc THEN NoFile ELSE dest
    BY DEF Straight, Delivers
  <2>1. Ending
    BY DEF Stage, Before, Comparing, Asking, Receiving, Installing, Deleting
  <2> QED
    BY <2>1 DEF Ending, Single
<1> QED
  BY <1>1, <1>2, <1>3, FetchInvAlways, PTL DEF Spec
=============================================================================
