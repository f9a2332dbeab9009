---------------------------- MODULE PutFileProofs ----------------------------
(***************************************************************************)
(* Theorems about PutFile, for any contents, block sizes and numbers of    *)
(* attempts and faults.                                                    *)
(***************************************************************************)
EXTENDS PutFile, BlocksProofs

-----------------------------------------------------------------------------
(* Data: sequences, frames, channels.                                      *)

LEMMA ConstantTypes ==
  /\ BlockSize \in Nat \ {0} /\ MinSize \in Nat
  /\ MaxTry \in Nat \ {0} /\ MaxFaults \in Nat
  /\ Versions \subseteq Content /\ Overwrites \subseteq BOOLEAN
  /\ NoFile \notin Content /\ Torn \notin Content /\ NoFile # Torn
BY PutFileAssumption, BlocksAssumption

\* A channel stays a channel when a frame is sent, read or replaced.
LEMMA ChannelType ==
  ASSUME NEW S, NEW ch \in [Attempts -> Seq(S)], NEW k \in Attempts, NEW m \in S
  PROVE  /\ Sends(ch, k, m) \in [Attempts -> Seq(S)]
         /\ [ch EXCEPT ![k] = <<>>] \in [Attempts -> Seq(S)]
         /\ ch[k] # <<>> => /\ Head(ch[k]) \in S
                            /\ [ch EXCEPT ![k] = Tail(@)] \in [Attempts -> Seq(S)]
                            /\ [ch EXCEPT ![k] = [@ EXCEPT ![1] = m]] \in [Attempts -> Seq(S)]
<1>1. ch[k] \in Seq(S) /\ Append(ch[k], m) \in Seq(S) /\ <<>> \in Seq(S)
  OBVIOUS
<1>2. ch[k] # <<>> => /\ Head(ch[k]) \in S /\ Tail(ch[k]) \in Seq(S)
                      /\ [ch[k] EXCEPT ![1] = m] \in Seq(S)
  <2>1. SUFFICES ASSUME ch[k] # <<>>
                 PROVE  /\ Head(ch[k]) \in S /\ Tail(ch[k]) \in Seq(S)
                        /\ [ch[k] EXCEPT ![1] = m] \in Seq(S)
    OBVIOUS
  <2>2. 1 \in 1..Len(ch[k])
    BY <1>1, <2>1, EmptySeq, LenProperties
  <2> QED
    BY <1>1, <2>1, <2>2, HeadTailProperties, ExceptSeq
<1> QED
  BY <1>1, <1>2 DEF Sends

LEMMA FrameTypes ==
  /\ \A k \in {"get_hash", "error", "rest"} : Frame(k, NoFile, 0) \in Commands
  /\ \A k \in {"put_file", "data"}, d \in Content, n \in Nat : Frame(k, d, n) \in Commands
  /\ \A k \in {"hash", "not_found", "start", "dont_need", "ok", "error"},
        d \in Content \cup {NoFile, Torn}, n \in Nat : Frame(k, d, n) \in Answers
  /\ \A m \in Commands : m.kind \in {"put_file", "data"} => m.data \in Content /\ m.n \in Nat
  /\ \A m \in Answers : m.n \in Nat
BY DEF Frame, Commands, Answers

-----------------------------------------------------------------------------
(* Type correctness, whether attempts overlap or not.                      *)

\* The client has a source and its hash while it offers and sends it.
SourceInv ==
  /\ cpc \in {"wait_start", "send"} => src \in Content
  /\ cpc \in Waiting \cup {"send"} => file_hash \in Content

\* One session at most has temp open for writing, at a position inside it.
WriterInv ==
  \A k \in Attempts : spc[k] \in Writing =>
    /\ temp \in Content /\ off[k] <= Len(temp)
    /\ \A j \in Attempts : spc[j] \in Writing => j = k

IType == TypeOK /\ SourceInv /\ WriterInv

LEMMA ITypeInit == Init => IType
<1> SUFFICES ASSUME Init PROVE IType
  OBVIOUS
<1>1. 1 \in Attempts
  BY ConstantTypes DEF Attempts
<1>2. src \in Content /\ dest \in Content \cup {NoFile} /\ announced \subseteq Content
  BY ConstantTypes DEF Init
<1>3. overwrite \in BOOLEAN
  BY Zenon, ConstantTypes DEF Init
<1>8. ClientTypes /\ SourceInv
  BY <1>1, <1>2, <1>3 DEF Init, ClientTypes, SourceInv, Waiting
<1>4. spc \in [Attempts -> Live \cup {"none", "ended"}]
  BY DEF Init
<1>5. ServerTypes
  <2>1. req \in [Attempts -> Content \cup {NoFile}] /\ temp \in Content \cup {NoFile}
    BY DEF Init
  <2>2. left \in [Attempts -> Int] /\ off \in [Attempts -> Nat]
    BY DEF Init
  <2> QED
    BY <1>2, <1>4, <2>1, <2>2 DEF ServerTypes
<1>6. WriterInv
  BY DEF Init, WriterInv, Writing
<1>7. NetTypes /\ faults \in 0..MaxFaults
  BY ConstantTypes DEF Init, NetTypes
<1> QED
  BY <1>8, <1>5, <1>6, <1>7 DEF IType, TypeOK

LEMMA HangupType ==
  ASSUME IType, NEW r \in BOOLEAN, Hangup(r)
  PROVE  /\ up' \in [Attempts -> BOOLEAN] /\ s2c' \in [Attempts -> Seq(Answers)]
         /\ result' \in BOOLEAN /\ try' \in Attempts /\ cpc' \in {"done", "connect"}
<1>1. up' \in [Attempts -> BOOLEAN] /\ s2c' \in [Attempts -> Seq(Answers)]
  BY DEF IType, TypeOK, ClientTypes, NetTypes, Hangup
<1>2. try' \in Attempts
  BY ConstantTypes DEF IType, TypeOK, ClientTypes, Hangup, Attempts
<1> QED
  BY <1>1, <1>2 DEF Hangup


LEMMA AnswerType ==
  ASSUME IType, s2c[try] # <<>>
  PROVE  /\ Answer \in Answers /\ Answer.n \in Nat
         /\ TakeAnswer => s2c' \in [Attempts -> Seq(Answers)]
<1>1. try \in Attempts /\ s2c \in [Attempts -> Seq(Answers)]
  BY DEF IType, TypeOK, ClientTypes, NetTypes
<1>2. Frame("ok", NoFile, 0) \in Answers
  BY FrameTypes
<1>3. /\ Head(s2c[try]) \in Answers
      /\ [s2c EXCEPT ![try] = Tail(@)] \in [Attempts -> Seq(Answers)]
  BY <1>1, <1>2, ChannelType
<1> QED
  BY <1>3, FrameTypes DEF Answer, TakeAnswer

LEMMA SendsType ==
  ASSUME IType, NEW k \in Attempts
  PROVE  /\ \A m \in Commands : Sends(c2s, k, m) \in [Attempts -> Seq(Commands)]
         /\ \A m \in Answers : Sends(s2c, k, m) \in [Attempts -> Seq(Answers)]
<1>1. c2s \in [Attempts -> Seq(Commands)] /\ s2c \in [Attempts -> Seq(Answers)]
  BY DEF IType, TypeOK, NetTypes
<1> QED
  BY <1>1, ChannelType

LEMMA ServerUnchanged ==
  ASSUME IType, UNCHANGED <<disk, sessions>>
  PROVE  ServerTypes' /\ WriterInv'
<1>1. ServerTypes'
  BY DEF IType, TypeOK, ServerTypes, disk, sessions
<1>2. WriterInv'
  BY DEF IType, WriterInv, disk, sessions
<1> QED
  BY <1>1, <1>2

LEMMA ClientUnchanged ==
  ASSUME IType, UNCHANGED <<source, client>>
  PROVE  ClientTypes' /\ SourceInv'
<1>1. ClientTypes'
  BY DEF IType, TypeOK, ClientTypes, source, client
<1>2. SourceInv'
  BY DEF IType, SourceInv, source, client, Waiting
<1> QED
  BY <1>1, <1>2

\* The block the client sends is a piece of the source.
LEMMA BlockType ==
  ASSUME IType, cpc = "send", NextSize > 0, CanRead
  PROVE  /\ blk + 1 \in Nat
         /\ SubSeq(src, blk * BlockSize + 1, blk * BlockSize + NextSize) \in Content
<1>1. src \in Content /\ blk \in Nat /\ pages \in Nat
  BY DEF IType, TypeOK, ClientTypes, SourceInv
<1>2. Len(src) \in Nat
  BY <1>1, LenProperties DEF Content
<1>3. blk * BlockSize \in Nat /\ pages * BlockSize \in Nat
  BY <1>1, BlockBounds
<1>4. NextSize \in Int
  BY <1>2, <1>3, ConstantTypes DEF NextSize
<1>5. blk * BlockSize + NextSize \in Int /\ blk * BlockSize + NextSize <= Len(src)
  BY <1>3, <1>4 DEF CanRead
<1>6. blk * BlockSize + 1 \in Nat \ {0}
  BY <1>3
<1> QED
  BY <1>1, <1>5, <1>6, SubSeqType


LEMMA ClientStep ==
  ASSUME IType, Client \/ ConnectFail \/ SendReadError(TRUE) \/ NoAnswer(TRUE)
  PROVE  ClientTypes' /\ SourceInv' /\ NetTypes'
<1> USE DEF IType, TypeOK, Waiting, source, client, net, sessions
<1>0. try \in Attempts
  BY DEF ClientTypes
<1>1. CASE Connect
  <2>1. ClientTypes'
    BY <1>1, HangupType, AnswerType DEF Connect, ClientTypes, NextBlock, PostProcess
  <2>2. SourceInv'
    BY <1>1, HangupType DEF Connect, ClientTypes, SourceInv, NextBlock, PostProcess
  <2>3. NetTypes'
    BY <1>1, HangupType, AnswerType DEF Connect, ClientTypes, NetTypes, NextBlock, PostProcess
  <2> QED
    BY <2>1, <2>2, <2>3
<1>2. CASE GetHash
  <2>1. ClientTypes'
    BY <1>2, HangupType, AnswerType DEF GetHash, ClientTypes, NextBlock, PostProcess
  <2>2. SourceInv'
    BY <1>2, HangupType DEF GetHash, ClientTypes, SourceInv, NextBlock, PostProcess
  <2>3. Sends(c2s, try, Frame("get_hash", NoFile, 0)) \in [Attempts -> Seq(Commands)]
    BY <1>2, <1>0, SendsType, FrameTypes DEF GetHash
  <2>4. NetTypes'
    BY <1>2, <2>3, HangupType DEF GetHash, NetTypes, NextBlock
  <2> QED
    BY <2>1, <2>2, <2>3, <2>4
<1>3. CASE HashMatches
  <2>1. ClientTypes'
    BY <1>3, HangupType, AnswerType DEF HashMatches, ClientTypes, NextBlock, PostProcess
  <2>2. SourceInv'
    BY <1>3, HangupType DEF HashMatches, ClientTypes, SourceInv, NextBlock, PostProcess
  <2>3. NetTypes'
    BY <1>3, HangupType, AnswerType DEF HashMatches, ClientTypes, NetTypes, NextBlock, PostProcess
  <2> QED
    BY <2>1, <2>2, <2>3
<1>4. CASE PutRequest
  <2>1. announced' \in SUBSET Content /\ objErr' \in BOOLEAN
    BY <1>4, HangupType DEF PutRequest, ClientTypes, SourceInv
  <2>2. try' \in Attempts /\ result' \in BOOLEAN
    BY <1>4, HangupType DEF PutRequest, ClientTypes
  <2>3. cpc' \in {"clean", "wait_start", "connect", "done"}
    BY <1>4, HangupType DEF PutRequest
  <2>4. ClientTypes'
    BY <1>4, <2>1, <2>2, <2>3 DEF PutRequest, ClientTypes
  <2>5. SourceInv'
    BY <1>4, HangupType DEF PutRequest, ClientTypes, SourceInv, NextBlock, PostProcess
  <2>6. src # NoFile => Len(src) \in Nat
    BY <1>4, LenProperties DEF PutRequest, ClientTypes, Content
  <2>7. src # NoFile => Sends(c2s, try, Frame("put_file", file_hash, Len(src))) \in [Attempts -> Seq(Commands)]
    BY <1>4, <1>0, <2>6, SendsType, FrameTypes DEF PutRequest, SourceInv
  <2>8. NetTypes'
    BY <1>4, <2>7, HangupType, AnswerType DEF PutRequest, NetTypes
  <2> QED
    BY <2>1, <2>2, <2>3, <2>4, <2>5, <2>6, <2>7, <2>8
<1>5. CASE HashError
  <2>1. ClientTypes'
    BY <1>5, HangupType, AnswerType DEF HashError, ClientTypes, NextBlock, PostProcess
  <2>2. SourceInv'
    BY <1>5, HangupType DEF HashError, ClientTypes, SourceInv, NextBlock, PostProcess
  <2>3. NetTypes'
    BY <1>5, HangupType, AnswerType DEF HashError, ClientTypes, NetTypes, NextBlock, PostProcess
  <2> QED
    BY <2>1, <2>2, <2>3
<1>6. CASE StartSending
  <2>1. src \in Content /\ Answer.n \in Nat
    BY <1>6, AnswerType DEF StartSending, SourceInv
  <2>2. Len(src) \div BlockSize \in Nat
    BY <1>6, <2>1, LenProperties, BlockBounds DEF StartSending, Content
  <2>3. ClientTypes'
    BY <1>6, <2>1, <2>2 DEF StartSending, ClientTypes
  <2>4. SourceInv'
    BY <1>6, HangupType DEF StartSending, ClientTypes, SourceInv, NextBlock, PostProcess
  <2>5. NetTypes'
    BY <1>6, HangupType, AnswerType DEF StartSending, ClientTypes, NetTypes, NextBlock, PostProcess
  <2> QED
    BY <2>1, <2>2, <2>3, <2>4, <2>5
<1>7. CASE DontNeedOverwrite
  <2>1. ClientTypes'
    BY <1>7, HangupType, AnswerType DEF DontNeedOverwrite, ClientTypes, NextBlock, PostProcess
  <2>2. SourceInv'
    BY <1>7, HangupType DEF DontNeedOverwrite, ClientTypes, SourceInv, NextBlock, PostProcess
  <2>3. NetTypes'
    BY <1>7, HangupType, AnswerType DEF DontNeedOverwrite, ClientTypes, NetTypes, NextBlock, PostProcess
  <2> QED
    BY <2>1, <2>2, <2>3
<1>8. CASE PutRefused
  <2>1. ClientTypes'
    BY <1>8, HangupType, AnswerType DEF PutRefused, ClientTypes, NextBlock, PostProcess
  <2>2. SourceInv'
    BY <1>8, HangupType DEF PutRefused, ClientTypes, SourceInv, NextBlock, PostProcess
  <2>3. NetTypes'
    BY <1>8, HangupType, AnswerType DEF PutRefused, ClientTypes, NetTypes, NextBlock, PostProcess
  <2> QED
    BY <2>1, <2>2, <2>3
<1>9. CASE SendBlock
  <2>1. /\ blk + 1 \in Nat
        /\ SubSeq(src, blk * BlockSize + 1, blk * BlockSize + NextSize) \in Content
    BY <1>9, BlockType DEF SendBlock
  <2>2. ClientTypes'
    BY <1>9, <2>1, HangupType DEF SendBlock, ClientTypes
  <2>3. SourceInv'
    BY <1>9, HangupType DEF SendBlock, ClientTypes, SourceInv, NextBlock, PostProcess
  <2>4. Sends(c2s, try, Frame("data",
          SubSeq(src, blk * BlockSize + 1, blk * BlockSize + NextSize), 0)) \in [Attempts -> Seq(Commands)]
    BY <1>9, <1>0, <2>1, SendsType, FrameTypes DEF SendBlock
  <2>5. NetTypes'
    BY <1>9, <2>4, HangupType DEF SendBlock, NetTypes
  <2> QED
    BY <2>1, <2>2, <2>3, <2>4, <2>5
<1>10. CASE SentAll
  <2>1. ClientTypes'
    BY <1>10, HangupType, AnswerType DEF SentAll, ClientTypes, NextBlock, PostProcess
  <2>2. SourceInv'
    BY <1>10, HangupType DEF SentAll, ClientTypes, SourceInv, NextBlock, PostProcess
  <2>3. NetTypes'
    BY <1>10, HangupType, AnswerType DEF SentAll, ClientTypes, NetTypes, NextBlock, PostProcess
  <2> QED
    BY <2>1, <2>2, <2>3
<1>11. CASE Acknowledged
  <2>1. ClientTypes'
    BY <1>11, HangupType, AnswerType DEF Acknowledged, ClientTypes, NextBlock, PostProcess
  <2>2. SourceInv'
    BY <1>11, HangupType DEF Acknowledged, ClientTypes, SourceInv, NextBlock, PostProcess
  <2>3. NetTypes'
    BY <1>11, HangupType, AnswerType DEF Acknowledged, ClientTypes, NetTypes, NextBlock, PostProcess
  <2> QED
    BY <2>1, <2>2, <2>3
<1>12. CASE Rejected
  <2>1. ClientTypes'
    BY <1>12, HangupType, AnswerType DEF Rejected, ClientTypes, NextBlock, PostProcess
  <2>2. SourceInv'
    BY <1>12, HangupType DEF Rejected, ClientTypes, SourceInv, NextBlock, PostProcess
  <2>3. NetTypes'
    BY <1>12, HangupType, AnswerType DEF Rejected, ClientTypes, NetTypes, NextBlock, PostProcess
  <2> QED
    BY <2>1, <2>2, <2>3
<1>13. CASE Clean
  <2>1. ClientTypes'
    BY <1>13, HangupType, AnswerType DEF Clean, ClientTypes, NextBlock, PostProcess
  <2>2. SourceInv'
    BY <1>13, HangupType DEF Clean, ClientTypes, SourceInv, NextBlock, PostProcess
  <2>3. NetTypes'
    BY <1>13, HangupType, AnswerType DEF Clean, ClientTypes, NetTypes, NextBlock, PostProcess
  <2> QED
    BY <2>1, <2>2, <2>3
<1>14. CASE CleanDelete
  <2>1. ClientTypes'
    BY <1>14, HangupType, AnswerType DEF CleanDelete, ClientTypes, NextBlock, PostProcess
  <2>2. SourceInv'
    BY <1>14, HangupType DEF CleanDelete, ClientTypes, SourceInv, NextBlock, PostProcess
  <2>3. NetTypes'
    BY <1>14, HangupType, AnswerType DEF CleanDelete, ClientTypes, NetTypes, NextBlock, PostProcess
  <2> QED
    BY <2>1, <2>2, <2>3
<1>15. CASE ConnectFail
  <2>1. ClientTypes'
    BY <1>15, HangupType, AnswerType DEF ConnectFail, ClientTypes, NextBlock, PostProcess
  <2>2. SourceInv'
    BY <1>15, HangupType DEF ConnectFail, ClientTypes, SourceInv, NextBlock, PostProcess
  <2>3. NetTypes'
    BY <1>15, HangupType, AnswerType DEF ConnectFail, ClientTypes, NetTypes, NextBlock, PostProcess
  <2> QED
    BY <2>1, <2>2, <2>3
<1>16. ASSUME NEW f \in BOOLEAN, SendReadError(f) PROVE ClientTypes' /\ SourceInv' /\ NetTypes'
  <2>1. ClientTypes'
    BY <1>16, HangupType DEF SendReadError, ClientTypes, NextBlock
  <2>2. SourceInv'
    BY <1>16, HangupType DEF SendReadError, SourceInv, NextBlock
  <2>3. Sends(c2s, try, Frame("error", NoFile, 0)) \in [Attempts -> Seq(Commands)]
    BY <1>0, SendsType, FrameTypes
  <2>4. NetTypes'
    BY <1>16, <2>3, HangupType DEF SendReadError, NetTypes, NextBlock
  <2> QED
    BY <2>1, <2>2, <2>4
<1>17. ASSUME NEW f \in BOOLEAN, NoAnswer(f) PROVE ClientTypes' /\ SourceInv' /\ NetTypes'
  <2>1. ClientTypes'
    BY <1>17, HangupType DEF NoAnswer, ClientTypes, NextBlock
  <2>2. SourceInv'
    BY <1>17, HangupType DEF NoAnswer, SourceInv, NextBlock
  <2>3. NetTypes'
    BY <1>17, HangupType DEF NoAnswer, NetTypes, NextBlock
  <2> QED
    BY <2>1, <2>2, <2>3
<1> QED
  BY <1>1, <1>2, <1>3, <1>4, <1>5, <1>6, <1>7, <1>8, <1>9, <1>10, <1>11, <1>12, <1>13, <1>14, <1>15, <1>16, <1>17 DEF Client

LEMMA ReplyType ==
  ASSUME IType, NEW k \in Attempts, NEW m \in Answers, NEW s \in {"idle", "check", "recv"},
         Reply(k, m, s, "ended"), c2s[k] # <<>>
  PROVE  /\ NetTypes'
         /\ \/ spc' = [spc EXCEPT ![k] = s]
            \/ spc' = [spc EXCEPT ![k] = "ended"]
<1> USE DEF IType, TypeOK
<1>1. /\ Sends(s2c, k, m) \in [Attempts -> Seq(Answers)]
      /\ [c2s EXCEPT ![k] = <<>>] \in [Attempts -> Seq(Commands)]
      /\ [c2s EXCEPT ![k] = Tail(@)] \in [Attempts -> Seq(Commands)]
  BY SendsType, ChannelType, FrameTypes DEF NetTypes
<1>2. NetTypes'
  BY <1>1 DEF NetTypes, Reply, TakeInput, EndSession
<1> QED
  BY <1>2 DEF Reply, Goto, EndSession

LEMMA EndSessionType ==
  ASSUME IType, NEW k \in Attempts, EndSession(k)
  PROVE  /\ c2s' \in [Attempts -> Seq(Commands)] /\ up' \in [Attempts -> BOOLEAN]
         /\ spc' = [spc EXCEPT ![k] = "ended"]
BY DEF IType, TypeOK, NetTypes, EndSession, Goto

LEMMA InputType ==
  ASSUME IType, NEW k \in Attempts, c2s[k] # <<>>
  PROVE  /\ Input(k) \in Commands
         /\ Input(k).kind \in {"put_file", "data"} => Input(k).data \in Content /\ Input(k).n \in Nat
         /\ [c2s EXCEPT ![k] = Tail(@)] \in [Attempts -> Seq(Commands)]
         /\ [c2s EXCEPT ![k] = [@ EXCEPT ![1] = Frame("rest", NoFile, 0)]]
              \in [Attempts -> Seq(Commands)]
<1>1. c2s \in [Attempts -> Seq(Commands)]
  BY DEF IType, TypeOK, NetTypes
<1>2. Frame("rest", NoFile, 0) \in Commands
  BY FrameTypes
<1>3. Head(c2s[k]) \in Commands
  BY <1>1, <1>2, ChannelType
<1> QED
  BY <1>1, <1>2, <1>3, ChannelType, FrameTypes DEF Input

\* A session that moves on without touching temp writes it no more, or as before.
LEMMA WriterKept ==
  ASSUME IType, NEW k \in Attempts, NEW s, s \in Writing => spc[k] \in Writing,
         spc' = [spc EXCEPT ![k] = s], UNCHANGED <<temp, off>>
  PROVE  WriterInv'
BY DEF IType, TypeOK, ServerTypes, WriterInv

LEMMA SessionTypes ==
  ASSUME IType, NEW k \in Attempts, NEW s \in Live \cup {"ended"},
         spc' = [spc EXCEPT ![k] = s], UNCHANGED <<disk, req, left, off>>
  PROVE  ServerTypes'
<1>1. spc' \in [Attempts -> Live \cup {"none", "ended"}]
  BY DEF IType, TypeOK, ServerTypes
<1> QED
  BY <1>1 DEF IType, TypeOK, ServerTypes, disk

\* What a block writes: a piece of its frame, at the end of the last one.
LEMMA ReceiveType ==
  ASSUME IType, NEW k \in Attempts, SrvReceive(k)
  PROVE  /\ Need(k) \in Nat /\ off[k] \in Nat /\ spc[k] \in Writing
         /\ temp' \in Content /\ Len(temp') >= off[k] + Need(k)
<1> DEFINE data == SubSeq(Input(k).data, 1, Need(k))
<1> USE DEF IType, TypeOK
<1>1. /\ temp \in Content /\ off[k] \in Nat /\ off[k] <= Len(temp)
      /\ spc[k] \in Writing
  BY DEF SrvReceive, HasBlock, ServerTypes, WriterInv, Writing
<1>2. c2s[k] # <<>> /\ Input(k).data \in Content
  BY InputType DEF SrvReceive, HasBlock
<1>3. Need(k) \in Nat /\ Need(k) <= Len(Input(k).data)
  BY ConstantTypes DEF SrvReceive, HasBlock, Need, Lesser, ServerTypes
<1>4. data \in Content /\ Len(data) = Need(k)
  BY <1>2, <1>3, PrefixType
<1>5. /\ WriteAt(temp, off[k], data) \in Content
      /\ Len(WriteAt(temp, off[k], data)) >= off[k] + Need(k)
  BY <1>1, <1>4, WriteAtType
<1> QED
  BY <1>1, <1>3, <1>5 DEF SrvReceive

LEMMA SessionStep ==
  ASSUME IType, NEW k \in Attempts, Session(k) \/ SrvWriteError(k)
  PROVE  ServerTypes' /\ WriterInv' /\ NetTypes'
<1> USE DEF IType, TypeOK
<1>1. CASE SrvGetHash(k)
  <2>1. PICK m \in {ErrorFrame, Frame("not_found", NoFile, 0), Frame("hash", dest, 0)} : Reply(k, m, "idle", "ended")
    BY <1>1 DEF SrvGetHash
  <2>2. m \in Answers
    BY FrameTypes DEF ErrorFrame, ServerTypes
  <2>3. NetTypes' /\ \E s \in {"idle", "ended"} : spc' = [spc EXCEPT ![k] = s]
    BY <2>1, <2>2, <1>1, ReplyType DEF SrvGetHash
  <2> QED
    BY <2>3, <1>1, WriterKept, SessionTypes DEF SrvGetHash, Live, Writing, disk
<1>2. CASE SrvNoOverwrite(k)
  <2>1. PICK m \in {Frame("dont_need", NoFile, 0)} : Reply(k, m, "idle", "ended")
    BY <1>2 DEF SrvNoOverwrite
  <2>2. m \in Answers
    BY FrameTypes DEF ErrorFrame, ServerTypes
  <2>3. NetTypes' /\ \E s \in {"idle", "ended"} : spc' = [spc EXCEPT ![k] = s]
    BY <2>1, <2>2, <1>2, ReplyType DEF SrvNoOverwrite
  <2> QED
    BY <2>3, <1>2, WriterKept, SessionTypes DEF SrvNoOverwrite, Live, Writing, disk
<1>3. CASE SrvTempBusy(k)
  <2>1. PICK m \in {ErrorFrame} : Reply(k, m, "idle", "ended")
    BY <1>3 DEF SrvTempBusy
  <2>2. m \in Answers
    BY FrameTypes DEF ErrorFrame, ServerTypes
  <2>3. NetTypes' /\ \E s \in {"idle", "ended"} : spc' = [spc EXCEPT ![k] = s]
    BY <2>1, <2>2, <1>3, ReplyType DEF SrvTempBusy
  <2> QED
    BY <2>3, <1>3, WriterKept, SessionTypes DEF SrvTempBusy, Live, Writing, disk
<1>4. CASE SrvInvalidCommand(k)
  <2>1. PICK m \in {ErrorFrame} : Reply(k, m, "idle", "ended")
    BY <1>4 DEF SrvInvalidCommand
  <2>2. m \in Answers
    BY FrameTypes DEF ErrorFrame, ServerTypes
  <2>3. NetTypes' /\ \E s \in {"idle", "ended"} : spc' = [spc EXCEPT ![k] = s]
    BY <2>1, <2>2, <1>4, ReplyType DEF SrvInvalidCommand
  <2> QED
    BY <2>3, <1>4, WriterKept, SessionTypes DEF SrvInvalidCommand, Live, Writing, disk
<1>5. CASE SrvPutFile(k)
  <2> DEFINE file  == IF temp = NoFile THEN <<>> ELSE temp
             start == StartBlock(file)
             s == IF Input(k).n = 0 THEN "check" ELSE "recv"
  <2>1. file \in Content /\ Len(file) \in Nat
    BY LenProperties DEF ServerTypes, Content
  <2>2. start \in Nat /\ start * BlockSize \in Nat /\ start * BlockSize <= Len(file)
    BY <2>1, StartBlockBounds
  <2>3. Input(k).data \in Content /\ Input(k).n \in Nat /\ c2s[k] # <<>>
    BY <1>5, InputType DEF SrvPutFile
  <2>4. Frame("start", NoFile, start) \in Answers
    BY <2>2, FrameTypes
  <2>5. Reply(k, Frame("start", NoFile, start), s, "ended")
    BY <1>5 DEF SrvPutFile
  <2>6. s \in {"idle", "check", "recv"}
    OBVIOUS
  <2> HIDE DEF file, start, s
  <2>7. /\ NetTypes'
        /\ \/ spc' = [spc EXCEPT ![k] = s]
           \/ spc' = [spc EXCEPT ![k] = "ended"]
    BY <2>3, <2>4, <2>5, <2>6, ReplyType
  <2>8. /\ temp' = file /\ off' = [off EXCEPT ![k] = start * BlockSize]
        /\ req' = [req EXCEPT ![k] = Input(k).data]
        /\ left' = [left EXCEPT ![k] = Input(k).n - start * BlockSize]
        /\ UNCHANGED dest
        /\ \A j \in Attempts \ {k} : spc[j] \notin Writing
    BY <1>5 DEF SrvPutFile, file, start
  <2>9. /\ off' \in [Attempts -> Nat] /\ left' \in [Attempts -> Int]
        /\ req' \in [Attempts -> Content \cup {NoFile}]
    BY <2>2, <2>3, <2>8 DEF ServerTypes
  <2>10. spc' \in [Attempts -> Live \cup {"none", "ended"}]
    BY <2>6, <2>7 DEF ServerTypes, Live
  <2>11. ServerTypes'
    BY <2>1, <2>8, <2>9, <2>10 DEF ServerTypes
  <2>12. \A j \in Attempts : spc'[j] \in Writing => j = k
    BY <2>6, <2>7, <2>8 DEF ServerTypes, Writing
  <2>13. WriterInv'
    BY <2>1, <2>2, <2>8, <2>12 DEF ServerTypes, WriterInv
  <2> QED
    BY <2>7, <2>11, <2>13
<1>6. CASE SrvReceive(k)
  <2> DEFINE s == IF left[k] - Need(k) <= 0 THEN "check" ELSE "recv"
  <2>1. /\ Need(k) \in Nat /\ off[k] \in Nat /\ spc[k] \in Writing
        /\ temp' \in Content /\ Len(temp') >= off[k] + Need(k)
    BY <1>6, ReceiveType
  <2>2. /\ off' = [off EXCEPT ![k] = off[k] + Need(k)]
        /\ left' = [left EXCEPT ![k] = left[k] - Need(k)]
        /\ spc' = [spc EXCEPT ![k] = s]
        /\ UNCHANGED <<dest, req, s2c, up>>
    BY <1>6 DEF SrvReceive, Goto
  <2>3. spc' \in [Attempts -> Live \cup {"none", "ended"}]
    BY <2>2 DEF ServerTypes, Live
  <2> HIDE DEF s
  <2>4. off' \in [Attempts -> Nat] /\ left' \in [Attempts -> Int]
    BY <2>1, <2>2 DEF ServerTypes
  <2>5. ServerTypes'
    BY <2>1, <2>2, <2>3, <2>4 DEF ServerTypes
  <2>6. \A j \in Attempts : spc'[j] \in Writing => j = k
    BY <2>1, <2>2 DEF ServerTypes, WriterInv
  <2>7. off'[k] = off[k] + Need(k)
    BY <2>2 DEF ServerTypes
  <2>8. WriterInv'
    BY <2>1, <2>6, <2>7 DEF WriterInv
  <2>9. c2s[k] # <<>>
    BY <1>6 DEF SrvReceive, HasBlock
  <2>10. c2s' \in [Attempts -> Seq(Commands)]
    BY <1>6, <2>9, InputType DEF SrvReceive
  <2>11. NetTypes'
    BY <2>2, <2>10 DEF NetTypes
  <2> QED
    BY <2>5, <2>8, <2>11
<1>7. CASE SrvErrorHeader(k)
  <2>1. spc[k] \in Writing /\ c2s[k] # <<>>
    BY <1>7 DEF SrvErrorHeader, Writing
  <2>2. \E s \in {"idle", "swallow"} : spc' = [spc EXCEPT ![k] = s]
    BY <1>7 DEF SrvErrorHeader, Goto
  <2>3. NetTypes'
    BY <1>7, <2>1, InputType DEF SrvErrorHeader, TakeInput, NetTypes
  <2> QED
    BY <1>7, <2>1, <2>2, <2>3, WriterKept, SessionTypes DEF SrvErrorHeader, Live, disk
<1>8. CASE SrvBadStream(k)
  <2>1. NetTypes' /\ spc' = [spc EXCEPT ![k] = "ended"]
    BY <1>8, EndSessionType DEF SrvBadStream, NetTypes
  <2> QED
    BY <1>8, <2>1, WriterKept, SessionTypes DEF SrvBadStream, Writing, disk
<1>9. CASE SrvCheck(k)
  <2>1. \E s \in {"copy", "idle", "ended"} : spc' = [spc EXCEPT ![k] = s]
    BY <1>9 DEF SrvCheck, Goto, EndSession
  <2>2. /\ Sends(s2c, k, Frame("ok", NoFile, 0)) \in [Attempts -> Seq(Answers)]
        /\ Sends(s2c, k, ErrorFrame) \in [Attempts -> Seq(Answers)]
    BY SendsType, FrameTypes DEF ErrorFrame
  <2>3. NetTypes'
    BY <1>9, <2>2, EndSessionType DEF SrvCheck, NetTypes
  <2>4. spc' \in [Attempts -> Live \cup {"none", "ended"}]
    BY <2>1 DEF ServerTypes, Live
  <2>5. UNCHANGED <<temp, dest, req, left, off>>
    BY <1>9 DEF SrvCheck, ServerTypes, disk
  <2>6. ServerTypes'
    BY <2>4, <2>5 DEF ServerTypes
  <2> QED
    BY <2>1, <2>3, <2>5, <2>6, WriterKept DEF Writing
<1>10. CASE SrvCopy(k)
  <2>1. spc' = [spc EXCEPT ![k] = "copying"] /\ UNCHANGED <<temp, req, left, off, net>>
    BY <1>10 DEF SrvCopy, Goto
  <2>2. spc' \in [Attempts -> Live \cup {"none", "ended"}]
    BY <2>1 DEF ServerTypes, Live
  <2>3. dest' \in Content \cup {NoFile, Torn}
    BY <1>10 DEF SrvCopy, ServerTypes
  <2>4. ServerTypes' /\ NetTypes'
    BY <2>1, <2>2, <2>3 DEF ServerTypes, NetTypes, net
  <2> QED
    BY <2>1, <2>4, WriterKept DEF Writing
<1>11. CASE SrvCopied(k)
  <2>1. spc' = [spc EXCEPT ![k] = "delete"] /\ UNCHANGED <<temp, req, left, off, net>>
    BY <1>11 DEF SrvCopied, Goto
  <2>2. spc' \in [Attempts -> Live \cup {"none", "ended"}]
    BY <2>1 DEF ServerTypes, Live
  <2>3. dest' \in Content \cup {NoFile, Torn}
    BY <1>11 DEF SrvCopied, ServerTypes
  <2>4. ServerTypes' /\ NetTypes'
    BY <2>1, <2>2, <2>3 DEF ServerTypes, NetTypes, net
  <2> QED
    BY <2>1, <2>4, WriterKept DEF Writing
<1>12. CASE SrvCopyFail(k)
  <2>1. spc' = [spc EXCEPT ![k] = "idle"] /\ UNCHANGED <<disk, req, left, off, net>>
    BY <1>12 DEF SrvCopyFail, Goto
  <2>2. NetTypes'
    BY <2>1 DEF NetTypes, net
  <2> QED
    BY <2>1, <2>2, WriterKept, SessionTypes DEF Writing, Live, disk
<1>13. CASE SrvDelete(k)
  <2>1. spc' = [spc EXCEPT ![k] = "idle"] /\ UNCHANGED <<dest, req, left, off, net>>
    BY <1>13 DEF SrvDelete, Goto
  <2>2. temp' \in {temp, NoFile}
    BY <1>13 DEF SrvDelete
  <2>3. temp' # temp => \A j \in Attempts \ {k} : spc[j] \notin Writing
    BY <1>13 DEF SrvDelete
  <2>4. spc' \in [Attempts -> Live \cup {"none", "ended"}]
    BY <2>1 DEF ServerTypes, Live
  <2>5. ServerTypes' /\ NetTypes'
    BY <2>1, <2>2, <2>4 DEF ServerTypes, NetTypes, net
  <2>6. CASE temp' = temp
    BY <2>1, <2>5, <2>6, WriterKept DEF Writing
  <2>7. CASE temp' # temp
    <3>1. \A j \in Attempts : spc'[j] \notin Writing
      BY <2>1, <2>3, <2>7 DEF ServerTypes, Writing
    <3> QED
      BY <3>1, <2>5 DEF WriterInv
  <2> QED
    BY <2>6, <2>7
<1>14. CASE SrvGiveUp(k)
  <2>1. s2c' \in [Attempts -> Seq(Answers)]
    BY <1>14, SendsType, FrameTypes DEF SrvGiveUp, ErrorFrame, NetTypes
  <2>2. NetTypes' /\ spc' = [spc EXCEPT ![k] = "ended"]
    BY <1>14, <2>1, EndSessionType DEF SrvGiveUp, NetTypes
  <2> QED
    BY <1>14, <2>2, WriterKept, SessionTypes DEF SrvGiveUp, Writing, disk
<1>15. CASE SrvWriteError(k)
  <2>1. ErrorFrame \in Answers /\ c2s[k] # <<>>
    BY <1>15, FrameTypes DEF ErrorFrame, SrvWriteError, HasBlock
  <2>2. NetTypes' /\ \E s \in {"idle", "ended"} : spc' = [spc EXCEPT ![k] = s]
    BY <1>15, <2>1, ReplyType DEF SrvWriteError
  <2> QED
    BY <1>15, <2>2, WriterKept, SessionTypes DEF SrvWriteError, Live, Writing, disk
<1> QED
  BY <1>1, <1>2, <1>3, <1>4, <1>5, <1>6, <1>7, <1>8, <1>9, <1>10, <1>11, <1>12, <1>13, <1>14, <1>15 DEF Session

LEMMA EnvironmentStep ==
  ASSUME IType, SourceChange \/ DestMade \/ Crash \/ \E k \in Attempts : Break(k)
  PROVE  ClientTypes' /\ SourceInv' /\ ServerTypes' /\ WriterInv' /\ NetTypes'
<1> USE DEF IType, TypeOK
<1>1. CASE SourceChange
  <2>1. src' \in Content \cup {NoFile}
    BY <1>1, ConstantTypes DEF SourceChange
  <2>2. ClientTypes'
    BY <1>1, <2>1 DEF SourceChange, ClientTypes, client
  <2>3. SourceInv'
    BY <1>1, <2>1 DEF SourceChange, SourceInv, client, Waiting
  <2>4. NetTypes'
    BY <1>1 DEF SourceChange, NetTypes, net
  <2> QED
    BY <1>1, <2>2, <2>3, <2>4, ServerUnchanged DEF SourceChange
<1>2. CASE Crash
  <2>1. /\ spc' \in [Attempts -> Live \cup {"none", "ended"}]
        /\ \A k \in Attempts : spc'[k] \in {"none", "ended"}
    BY <1>2 DEF Crash
  <2>2. NetTypes'
    BY <1>2 DEF Crash, NetTypes
  <2>3. ServerTypes'
    BY <1>2, <2>1 DEF Crash, ServerTypes, disk
  <2>4. WriterInv'
    BY <2>1 DEF WriterInv, Writing
  <2> QED
    BY <1>2, <2>2, <2>3, <2>4, ClientUnchanged DEF Crash
<1>3. ASSUME NEW k \in Attempts, Break(k)
      PROVE  ClientTypes' /\ SourceInv' /\ ServerTypes' /\ WriterInv' /\ NetTypes'
  <2>1. NetTypes'
    BY <1>3 DEF Break, NetTypes
  <2> QED
    BY <1>3, <2>1, ServerUnchanged, ClientUnchanged DEF Break
<1>4. CASE DestMade
  <2>1. /\ UNCHANGED <<source, cpc, try, file_hash, pages, blk, objErr, result, temp, sessions, net>>
        /\ dest' \in Content /\ announced' = announced \cup {dest'}
    BY <1>4, ConstantTypes DEF DestMade
  <2>2. ClientTypes' /\ SourceInv'
    BY <2>1 DEF ClientTypes, SourceInv, source, Waiting
  <2>3. ServerTypes' /\ WriterInv'
    BY <2>1 DEF ServerTypes, WriterInv, sessions
  <2>4. NetTypes'
    BY <2>1 DEF NetTypes, net
  <2> QED
    BY <2>2, <2>3, <2>4
<1> QED
  BY <1>1, <1>2, <1>3, <1>4

LEMMA FaultsType ==
  ASSUME IType, [Next]_vars
  PROVE  faults' \in 0..MaxFaults
<1>1. faults' = faults \/ Fault
  <2>1. CASE Client
    BY <2>1 DEF Client, Connect, GetHash, HashMatches, PutRequest, HashError, StartSending,
       DontNeedOverwrite, PutRefused, SendBlock, SentAll, SendReadError, Acknowledged,
       Rejected, NoAnswer, Clean, CleanDelete
  <2>2. CASE \E k \in Attempts : Session(k)
    BY <2>2 DEF Session, SrvGetHash, SrvNoOverwrite, SrvTempBusy, SrvPutFile, SrvReceive,
       SrvErrorHeader, SrvBadStream, SrvInvalidCommand, SrvCheck, SrvCopy, SrvCopied,
       SrvCopyFail, SrvDelete, SrvGiveUp
  <2>3. CASE Environment
    BY <2>3 DEF Environment, ConnectFail, SendReadError, NoAnswer, SourceChange, Crash,
       DestMade, Break, SrvWriteError
  <2>4. CASE UNCHANGED vars
    BY <2>4 DEF vars
  <2> QED
    BY <2>1, <2>2, <2>3, <2>4 DEF Next, Finished
<1>2. faults \in 0..MaxFaults
  BY DEF IType, TypeOK
<1> QED
  BY <1>1, <1>2, ConstantTypes DEF Fault

\* A step of the client touches nothing that belongs to the server, except
\* that Connect starts a session.
LEMMA ClientServerStep ==
  ASSUME IType, Client \/ ConnectFail \/ SendReadError(TRUE) \/ NoAnswer(TRUE)
  PROVE  ServerTypes' /\ WriterInv'
<1>1. CASE Connect
  <2>1. try \in Attempts /\ spc' = [spc EXCEPT ![try] = "idle"]
        /\ UNCHANGED <<disk, req, left, off>>
    BY <1>1 DEF Connect, IType, TypeOK, ClientTypes
  <2>2. UNCHANGED <<temp, off>>
    BY <2>1 DEF disk
  <2> QED
    BY <2>1, <2>2, WriterKept, SessionTypes DEF Live, Writing
<1>2. CASE ~Connect
  <2>1. UNCHANGED <<disk, sessions>>
    BY <1>2 DEF Client, GetHash, HashMatches, PutRequest, HashError, StartSending,
       DontNeedOverwrite, PutRefused, SendBlock, SentAll, SendReadError, Acknowledged,
       Rejected, NoAnswer, Clean, CleanDelete, ConnectFail
  <2> QED
    BY <2>1, ServerUnchanged
<1> QED
  BY <1>1, <1>2

\* A step of a session touches nothing that belongs to the client.
LEMMA SessionClientStep ==
  ASSUME IType, NEW k \in Attempts, Session(k) \/ SrvWriteError(k)
  PROVE  ClientTypes' /\ SourceInv'
<1>1. UNCHANGED <<source, client>>
  BY DEF Session, SrvGetHash, SrvNoOverwrite, SrvTempBusy, SrvPutFile, SrvReceive,
     SrvErrorHeader, SrvBadStream, SrvInvalidCommand, SrvCheck, SrvCopy, SrvCopied,
     SrvCopyFail, SrvDelete, SrvGiveUp, SrvWriteError
<1> QED
  BY <1>1, ClientUnchanged

LEMMA ITypeStep ==
  ASSUME IType, [Next]_vars
  PROVE  IType'
<1>1. CASE Client \/ ConnectFail \/ SendReadError(TRUE) \/ NoAnswer(TRUE)
  BY <1>1, ClientStep, ClientServerStep, FaultsType DEF IType, TypeOK
<1>2. CASE \E k \in Attempts : Session(k) \/ SrvWriteError(k)
  BY <1>2, SessionStep, SessionClientStep, FaultsType DEF IType, TypeOK
<1>3. CASE SourceChange \/ DestMade \/ Crash \/ \E k \in Attempts : Break(k)
  BY <1>3, EnvironmentStep, FaultsType DEF IType, TypeOK
<1>4. CASE UNCHANGED vars
  <2>1. UNCHANGED <<source, client>> /\ UNCHANGED <<disk, sessions>> /\ UNCHANGED net
    BY <1>4 DEF vars
  <2>2. NetTypes'
    BY <2>1 DEF IType, TypeOK, NetTypes, net
  <2> QED
    BY <2>1, <2>2, ServerUnchanged, ClientUnchanged, FaultsType DEF IType, TypeOK
<1> QED
  BY <1>1, <1>2, <1>3, <1>4 DEF Next, Environment, Finished

\* In every behaviour the variables keep their types: no frame carries what
\* the other side cannot read, no block number or position is negative, and
\* no session writes outside the temporary file (do_put_file,
\* command_put_file).
THEOREM TypeCorrect == Spec => []TypeOK
<1>1. IType => TypeOK
  BY DEF IType
<1> QED
  BY <1>1, ITypeInit, ITypeStep, PTL DEF Spec

-----------------------------------------------------------------------------
(* The destination is verified, when an attempt starts only after the      *)
(* session of the one before it has ended.                                 *)

LEMMA VerifiedInit == Init => VerifiedInv
<1> SUFFICES ASSUME Init PROVE VerifiedInv
  OBVIOUS
<1>1. \A k \in Attempts : spc[k] = "none"
  BY DEF Init
<1>2. OneSession /\ Asked /\ Checked
  BY <1>1 DEF OneSession, Asked, Checked, Live, Busy, Writing
<1>3. Promised /\ DestVerified
  BY DEF Init, Promised, DestVerified
<1> QED
  BY <1>2, <1>3 DEF VerifiedInv

\* A promise is kept when more is announced.
LEMMA PromisedGrows ==
  ASSUME NEW ch \in [Attempts -> Seq(AnnouncedCommands)], announced \subseteq announced'
  PROVE  ch \in [Attempts -> Seq(AnnouncedCommands')]
<1>1. AnnouncedCommands \subseteq AnnouncedCommands'
  BY DEF AnnouncedCommands
<1>2. Seq(AnnouncedCommands) \subseteq Seq(AnnouncedCommands')
  BY <1>1
<1> QED
  BY <1>2

\* A command that announces nothing, and what a session does to its input.
LEMMA PromisedInput ==
  ASSUME Promised, UNCHANGED announced, NEW k \in Attempts,
         \/ UNCHANGED c2s
         \/ c2s' = [c2s EXCEPT ![k] = <<>>]
         \/ c2s[k] # <<>> /\ c2s' = [c2s EXCEPT ![k] = Tail(@)]
         \/ c2s[k] # <<>> /\ c2s' = [c2s EXCEPT ![k] = [@ EXCEPT ![1] = Frame("rest", NoFile, 0)]]
  PROVE  Promised'
<1>1. Frame("rest", NoFile, 0) \in AnnouncedCommands
  BY FrameTypes DEF AnnouncedCommands, Frame
<1>2. c2s \in [Attempts -> Seq(AnnouncedCommands)]
  BY DEF Promised
<1>3. c2s' \in [Attempts -> Seq(AnnouncedCommands)]
  <2>1. [c2s EXCEPT ![k] = <<>>] \in [Attempts -> Seq(AnnouncedCommands)]
    BY <1>1, <1>2, ChannelType
  <2>2. c2s[k] # <<>> =>
          /\ [c2s EXCEPT ![k] = Tail(@)] \in [Attempts -> Seq(AnnouncedCommands)]
          /\ [c2s EXCEPT ![k] = [@ EXCEPT ![1] = Frame("rest", NoFile, 0)]]
               \in [Attempts -> Seq(AnnouncedCommands)]
    BY <1>1, <1>2, ChannelType
  <2> QED
    BY <1>2, <2>1, <2>2
<1>4. AnnouncedCommands' = AnnouncedCommands
  BY DEF AnnouncedCommands
<1> QED
  BY <1>3, <1>4 DEF Promised

\* The client only adds to what is announced, and announces what it offers.
LEMMA ClientPromises ==
  ASSUME IType, Promised, Client \/ ConnectFail \/ SendReadError(TRUE) \/ NoAnswer(TRUE)
  PROVE  announced \subseteq announced' /\ Promised'
<1> USE DEF client, net
<1>1. announced \subseteq announced'
  BY DEF Client, Connect, GetHash, HashMatches, PutRequest, HashError, StartSending,
     DontNeedOverwrite, PutRefused, SendBlock, SentAll, SendReadError, Acknowledged,
     Rejected, NoAnswer, Clean, CleanDelete, ConnectFail
<1>2. c2s \in [Attempts -> Seq(AnnouncedCommands')] /\ try \in Attempts
  BY <1>1, PromisedGrows DEF Promised, IType, TypeOK, ClientTypes
<1>3. ASSUME NEW m \in AnnouncedCommands', c2s' = Sends(c2s, try, m)
      PROVE  Promised'
  BY <1>2, <1>3, ChannelType DEF Promised
<1>4. ASSUME UNCHANGED c2s
      PROVE  Promised'
  BY <1>2, <1>4 DEF Promised
<1>5. CASE GetHash
  <2>1. Frame("get_hash", NoFile, 0) \in AnnouncedCommands'
    BY FrameTypes DEF AnnouncedCommands, Frame
  <2>2. c2s' \in {c2s, Sends(c2s, try, Frame("get_hash", NoFile, 0))}
    BY <1>5 DEF GetHash
  <2> QED
    BY <1>1, <1>3, <1>4, <2>1, <2>2
<1>6. CASE PutRequest
  <2>1. file_hash \in Content
    BY <1>6 DEF PutRequest, IType, SourceInv, Waiting
  <2>2. CASE UNCHANGED c2s
    BY <1>1, <1>4, <2>2
  <2>3. CASE ~UNCHANGED c2s
    <3>1. /\ src \in Content /\ announced' = announced \cup {file_hash}
          /\ c2s' = Sends(c2s, try, Frame("put_file", file_hash, Len(src)))
      BY <1>6, <2>3 DEF PutRequest, IType, TypeOK, ClientTypes
    <3>2. Len(src) \in Nat
      BY <3>1, LenProperties DEF Content
    <3>3. Frame("put_file", file_hash, Len(src)) \in AnnouncedCommands'
      BY <2>1, <3>1, <3>2, FrameTypes DEF AnnouncedCommands, Frame
    <3> QED
      BY <1>1, <1>3, <3>1, <3>3
  <2> QED
    BY <2>2, <2>3
<1>7. CASE SendBlock
  <2> DEFINE m == Frame("data", SubSeq(src, blk * BlockSize + 1, blk * BlockSize + NextSize), 0)
  <2>1. m \in Commands
    BY <1>7, BlockType, FrameTypes DEF SendBlock
  <2>2. m \in AnnouncedCommands'
    BY <2>1 DEF AnnouncedCommands, Frame
  <2>3. c2s' \in {c2s, Sends(c2s, try, m)}
    BY <1>7 DEF SendBlock
  <2> QED
    BY <1>1, <1>3, <1>4, <2>2, <2>3
<1>8. CASE \E f \in BOOLEAN : SendReadError(f)
  <2>1. Frame("error", NoFile, 0) \in AnnouncedCommands'
    BY FrameTypes DEF AnnouncedCommands, Frame
  <2>2. c2s' \in {c2s, Sends(c2s, try, Frame("error", NoFile, 0))}
    BY <1>8 DEF SendReadError
  <2> QED
    BY <1>1, <1>3, <1>4, <2>1, <2>2
<1>9. CASE ~GetHash /\ ~PutRequest /\ ~SendBlock /\ ~(\E f \in BOOLEAN : SendReadError(f))
  <2>1. UNCHANGED c2s
    BY <1>9 DEF Client, Connect, HashMatches, HashError, StartSending,
       DontNeedOverwrite, PutRefused, SentAll, Acknowledged,
       Rejected, NoAnswer, Clean, CleanDelete, ConnectFail
  <2> QED
    BY <1>1, <1>4, <2>1
<1> QED
  BY <1>5, <1>6, <1>7, <1>8, <1>9

LEMMA ClientVerified ==
  ASSUME IType, VerifiedInv, ~Overlap,
         Client \/ ConnectFail \/ SendReadError(TRUE) \/ NoAnswer(TRUE)
  PROVE  VerifiedInv'
<1>1. announced \subseteq announced' /\ Promised'
  BY ClientPromises DEF VerifiedInv
<1>2. UNCHANGED <<temp, dest, req>>
  BY DEF Client, Connect, GetHash, HashMatches, PutRequest, HashError, StartSending,
     DontNeedOverwrite, PutRefused, SendBlock, SentAll, SendReadError, Acknowledged,
     Rejected, NoAnswer, Clean, CleanDelete, ConnectFail, disk, sessions
<1>3. \/ UNCHANGED spc
      \/ /\ \A j \in Attempts : spc[j] \in {"none", "ended"}
         /\ try \in Attempts /\ spc' = [spc EXCEPT ![try] = "idle"]
  BY DEF Client, Connect, GetHash, HashMatches, PutRequest, HashError, StartSending,
     DontNeedOverwrite, PutRefused, SendBlock, SentAll, SendReadError, Acknowledged,
     Rejected, NoAnswer, Clean, CleanDelete, ConnectFail, sessions, IType, TypeOK, ClientTypes
<1>4. OneSession'
  BY <1>3 DEF VerifiedInv, OneSession, Live, IType, TypeOK, ServerTypes
<1>5. \A k \in Attempts : spc'[k] \in Busy => spc'[k] = spc[k]
  BY <1>3 DEF Busy, Writing, IType, TypeOK, ServerTypes
<1>6. Asked'
  BY <1>1, <1>2, <1>5 DEF VerifiedInv, Asked
<1>7. Checked'
  BY <1>2, <1>5 DEF VerifiedInv, Checked, Busy
<1>8. DestVerified'
  BY <1>1, <1>2 DEF VerifiedInv, DestVerified
<1> QED
  BY <1>1, <1>4, <1>6, <1>7, <1>8 DEF VerifiedInv

\* While session k lives no other does.
LEMMA Alone ==
  ASSUME IType, VerifiedInv, NEW k \in Attempts, spc[k] \in Live,
         NEW s \in Live \cup {"ended"}, spc' = [spc EXCEPT ![k] = s]
  PROVE  /\ OneSession'
         /\ spc'[k] = s /\ \A j \in Attempts \ {k} : spc'[j] \notin Live
BY DEF IType, TypeOK, ServerTypes, VerifiedInv, OneSession, Live

\* A session that leaves the files and its request alone and goes back to
\* its commands, ends, or keeps receiving.
LEMMA SessionQuiet ==
  ASSUME IType, VerifiedInv, NEW k \in Attempts, spc[k] \in Live,
         NEW s \in {"idle", "ended", "swallow"}, spc' = [spc EXCEPT ![k] = s],
         s = "swallow" => spc[k] = "recv",
         UNCHANGED <<temp, dest, req, announced>>, Promised'
  PROVE  VerifiedInv'
<1>1. OneSession' /\ spc'[k] = s /\ \A j \in Attempts \ {k} : spc'[j] \notin Live
  BY Alone DEF Live
<1>2. Asked'
  BY <1>1 DEF VerifiedInv, Asked, Busy, Writing, Live
<1>3. Checked'
  BY <1>1 DEF Checked, Live
<1>4. DestVerified'
  BY DEF VerifiedInv, DestVerified
<1> QED
  BY <1>1, <1>2, <1>3, <1>4 DEF VerifiedInv

LEMMA SessionVerified ==
  ASSUME IType, VerifiedInv, NEW k \in Attempts, Session(k) \/ SrvWriteError(k)
  PROVE  VerifiedInv'
<1>1. Promised /\ UNCHANGED announced
  BY DEF VerifiedInv, Session, SrvGetHash, SrvNoOverwrite, SrvTempBusy, SrvPutFile, SrvReceive,
     SrvErrorHeader, SrvBadStream, SrvInvalidCommand, SrvCheck, SrvCopy, SrvCopied,
     SrvCopyFail, SrvDelete, SrvGiveUp, SrvWriteError, client
<1>2. CASE SrvGetHash(k)
  <2>1. PICK s \in {"idle", "ended"} : spc' = [spc EXCEPT ![k] = s]
    BY <1>2 DEF SrvGetHash, Reply, Goto, EndSession
  <2>2. Promised'
    BY <1>2, <1>1, PromisedInput DEF SrvGetHash, Reply, TakeInput, EndSession, HasBlock
  <2> QED
    BY <1>2, <1>1, <2>1, <2>2, SessionQuiet DEF SrvGetHash, HasBlock, Live, disk
<1>3. CASE SrvNoOverwrite(k)
  <2>1. PICK s \in {"idle", "ended"} : spc' = [spc EXCEPT ![k] = s]
    BY <1>3 DEF SrvNoOverwrite, Reply, Goto, EndSession
  <2>2. Promised'
    BY <1>3, <1>1, PromisedInput DEF SrvNoOverwrite, Reply, TakeInput, EndSession, HasBlock
  <2> QED
    BY <1>3, <1>1, <2>1, <2>2, SessionQuiet DEF SrvNoOverwrite, HasBlock, Live, disk
<1>4. CASE SrvTempBusy(k)
  <2>1. PICK s \in {"idle", "ended"} : spc' = [spc EXCEPT ![k] = s]
    BY <1>4 DEF SrvTempBusy, Reply, Goto, EndSession
  <2>2. Promised'
    BY <1>4, <1>1, PromisedInput DEF SrvTempBusy, Reply, TakeInput, EndSession, HasBlock
  <2> QED
    BY <1>4, <1>1, <2>1, <2>2, SessionQuiet DEF SrvTempBusy, HasBlock, Live, disk
<1>5. CASE SrvInvalidCommand(k)
  <2>1. PICK s \in {"idle", "ended"} : spc' = [spc EXCEPT ![k] = s]
    BY <1>5 DEF SrvInvalidCommand, Reply, Goto, EndSession
  <2>2. Promised'
    BY <1>5, <1>1, PromisedInput DEF SrvInvalidCommand, Reply, TakeInput, EndSession, HasBlock
  <2> QED
    BY <1>5, <1>1, <2>1, <2>2, SessionQuiet DEF SrvInvalidCommand, HasBlock, Live, disk
<1>6. CASE SrvWriteError(k)
  <2>1. PICK s \in {"idle", "ended"} : spc' = [spc EXCEPT ![k] = s]
    BY <1>6 DEF SrvWriteError, Reply, Goto, EndSession
  <2>2. Promised'
    BY <1>6, <1>1, PromisedInput DEF SrvWriteError, Reply, TakeInput, EndSession, HasBlock
  <2> QED
    BY <1>6, <1>1, <2>1, <2>2, SessionQuiet DEF SrvWriteError, HasBlock, Live, disk
<1>7. CASE SrvPutFile(k)
  <2>1. PICK s \in {"check", "recv", "ended"} : spc' = [spc EXCEPT ![k] = s]
    BY <1>7 DEF SrvPutFile, Reply, Goto, EndSession
  <2>2. Promised'
    BY <1>7, <1>1, PromisedInput DEF SrvPutFile, Reply, TakeInput, EndSession
  <2>3. OneSession' /\ spc'[k] = s /\ \A j \in Attempts \ {k} : spc'[j] \notin Live
    BY <1>7, <2>1, Alone DEF SrvPutFile, Live
  <2>4. Input(k).data \in announced
    <3>1. c2s \in [Attempts -> Seq(AnnouncedCommands)] /\ c2s[k] # <<>>
      BY <1>7 DEF SrvPutFile, VerifiedInv, Promised
    <3>2. Frame("rest", NoFile, 0) \in AnnouncedCommands
      BY FrameTypes DEF AnnouncedCommands, Frame
    <3>3. Head(c2s[k]) \in AnnouncedCommands
      BY <3>1, <3>2, ChannelType
    <3> QED
      BY <1>7, <3>3 DEF SrvPutFile, AnnouncedCommands, Input
  <2>5. req'[k] = Input(k).data /\ UNCHANGED dest
    BY <1>7 DEF SrvPutFile, IType, TypeOK, ServerTypes
  <2>6. Asked' /\ Checked'
    BY <1>1, <2>3, <2>4, <2>5 DEF Asked, Checked, Live, Busy, Writing
  <2>7. DestVerified'
    BY <1>1, <2>5 DEF VerifiedInv, DestVerified
  <2> QED
    BY <2>2, <2>3, <2>6, <2>7 DEF VerifiedInv
<1>8. CASE SrvReceive(k)
  <2>1. PICK s \in {"check", "recv"} : spc' = [spc EXCEPT ![k] = s]
    BY <1>8 DEF SrvReceive, Goto
  <2>2. Promised'
    BY <1>8, <1>1, PromisedInput DEF SrvReceive, HasBlock
  <2>3. OneSession' /\ spc'[k] = s /\ \A j \in Attempts \ {k} : spc'[j] \notin Live
    BY <1>8, <2>1, Alone DEF SrvReceive, HasBlock, Live
  <2>4. UNCHANGED <<dest, req>> /\ spc[k] \in Busy
    BY <1>8 DEF SrvReceive, HasBlock, Busy, Writing
  <2>5. Asked' /\ Checked'
    BY <1>1, <2>3, <2>4 DEF VerifiedInv, Asked, Checked, Live, Busy, Writing
  <2>6. DestVerified'
    BY <1>1, <2>4 DEF VerifiedInv, DestVerified
  <2> QED
    BY <2>2, <2>3, <2>5, <2>6 DEF VerifiedInv
<1>9. CASE SrvErrorHeader(k)
  <2>1. PICK s \in {"idle", "swallow"} : spc' = [spc EXCEPT ![k] = s]
    BY <1>9 DEF SrvErrorHeader, Goto
  <2>2. Promised'
    BY <1>9, <1>1, PromisedInput DEF SrvErrorHeader, TakeInput
  <2> QED
    BY <1>9, <1>1, <2>1, <2>2, SessionQuiet DEF SrvErrorHeader, Live, disk
<1>10. CASE SrvBadStream(k)
  <2>1. spc' = [spc EXCEPT ![k] = "ended"] /\ c2s' = [c2s EXCEPT ![k] = <<>>]
    BY <1>10 DEF SrvBadStream, EndSession, Goto
  <2>2. Promised'
    BY <1>1, <2>1, PromisedInput
  <2> QED
    BY <1>10, <1>1, <2>1, <2>2, SessionQuiet DEF SrvBadStream, Live, Writing, disk
<1>11. CASE SrvGiveUp(k)
  <2>1. spc' = [spc EXCEPT ![k] = "ended"] /\ c2s' = [c2s EXCEPT ![k] = <<>>]
    BY <1>11 DEF SrvGiveUp, EndSession, Goto
  <2>2. Promised'
    BY <1>1, <2>1, PromisedInput
  <2> QED
    BY <1>11, <1>1, <2>1, <2>2, SessionQuiet DEF SrvGiveUp, Live, Writing, disk
<1>12. CASE SrvCheck(k)
  <2>1. UNCHANGED <<temp, dest, req>> /\ spc[k] = "check"
    BY <1>12 DEF SrvCheck, disk
  <2>2. Promised'
    BY <1>12, <1>1, PromisedInput DEF SrvCheck, EndSession
  <2>3. CASE \E s \in {"idle", "ended"} : spc' = [spc EXCEPT ![k] = s]
    BY <1>1, <2>1, <2>2, <2>3, SessionQuiet DEF Live
  <2>4. CASE spc' = [spc EXCEPT ![k] = "copy"] /\ temp = req[k]
    <3>1. OneSession' /\ spc'[k] = "copy" /\ \A j \in Attempts \ {k} : spc'[j] \notin Live
      BY <2>1, <2>4, Alone DEF Live
    <3>2. Asked' /\ Checked'
      BY <1>1, <2>1, <2>4, <3>1 DEF VerifiedInv, Asked, Checked, Live, Busy, Writing
    <3> QED
      BY <1>1, <2>1, <2>2, <3>1, <3>2 DEF VerifiedInv, DestVerified
  <2> QED
    BY <1>12, <2>3, <2>4 DEF SrvCheck, Goto, EndSession
<1>13. CASE SrvCopy(k)
  <2>1. /\ spc' = [spc EXCEPT ![k] = "copying"] /\ UNCHANGED <<temp, req, c2s>>
        /\ dest' = Torn /\ spc[k] \in {"copy", "copying"}
    BY <1>13 DEF SrvCopy, Goto, net
  <2>2. Promised'
    BY <1>1, <2>1, PromisedInput
  <2>3. OneSession' /\ spc'[k] = "copying" /\ \A j \in Attempts \ {k} : spc'[j] \notin Live
    BY <2>1, Alone DEF Live
  <2>4. Asked' /\ Checked'
    BY <1>1, <2>1, <2>3 DEF VerifiedInv, Asked, Checked, Live, Busy, Writing
  <2>5. DestVerified'
    BY <1>1, <2>1 DEF VerifiedInv, Asked, Checked, DestVerified, Busy
  <2> QED
    BY <2>2, <2>3, <2>4, <2>5 DEF VerifiedInv
<1>14. CASE SrvCopied(k)
  <2>1. /\ spc' = [spc EXCEPT ![k] = "delete"] /\ UNCHANGED <<temp, req, c2s>>
        /\ dest' = temp /\ spc[k] \in {"copy", "copying"}
    BY <1>14 DEF SrvCopied, Goto, net
  <2>2. Promised'
    BY <1>1, <2>1, PromisedInput
  <2>3. OneSession' /\ spc'[k] = "delete" /\ \A j \in Attempts \ {k} : spc'[j] \notin Live
    BY <2>1, Alone DEF Live
  <2>4. Asked' /\ Checked'
    BY <1>1, <2>1, <2>3 DEF VerifiedInv, Asked, Checked, Live, Busy, Writing
  <2>5. DestVerified'
    BY <1>1, <2>1 DEF VerifiedInv, Asked, Checked, DestVerified, Busy
  <2> QED
    BY <2>2, <2>3, <2>4, <2>5 DEF VerifiedInv
<1>15. CASE SrvCopyFail(k)
  <2>1. spc' = [spc EXCEPT ![k] = "idle"] /\ UNCHANGED <<temp, dest, req, c2s>> /\ spc[k] \in Live
    BY <1>15 DEF SrvCopyFail, Goto, net, disk, Live
  <2> QED
    BY <1>1, <2>1, PromisedInput, SessionQuiet
<1>16. CASE SrvDelete(k)
  <2>1. spc' = [spc EXCEPT ![k] = "idle"] /\ UNCHANGED <<dest, req, c2s>> /\ spc[k] \in Live
    BY <1>16 DEF SrvDelete, Goto, net, Live
  <2>2. OneSession' /\ spc'[k] = "idle" /\ \A j \in Attempts \ {k} : spc'[j] \notin Live
    BY <2>1, Alone DEF Live
  <2>3. Asked' /\ Checked'
    BY <2>2 DEF Asked, Checked, Live, Busy, Writing
  <2>4. DestVerified'
    BY <1>1, <2>1 DEF VerifiedInv, DestVerified
  <2> QED
    BY <1>1, <2>1, <2>2, <2>3, <2>4, PromisedInput DEF VerifiedInv
<1> QED
  BY <1>2, <1>3, <1>4, <1>5, <1>6, <1>7, <1>8, <1>9, <1>10, <1>11, <1>12, <1>13, <1>14, <1>15, <1>16 DEF Session

LEMMA VerifiedStep ==
  ASSUME IType, VerifiedInv, ~Overlap, [Next]_vars
  PROVE  VerifiedInv'
<1>1. CASE Client \/ ConnectFail \/ SendReadError(TRUE) \/ NoAnswer(TRUE)
  BY <1>1, ClientVerified
<1>2. CASE \E k \in Attempts : Session(k) \/ SrvWriteError(k)
  BY <1>2, SessionVerified
<1>3. CASE SourceChange \/ UNCHANGED vars
  <2>1. UNCHANGED <<announced, temp, dest, spc, req, c2s>>
    BY <1>3 DEF SourceChange, vars, client, disk, sessions, net
  <2>2. AnnouncedCommands' = AnnouncedCommands
    BY <2>1 DEF AnnouncedCommands
  <2> QED
    BY <2>1, <2>2 DEF VerifiedInv, OneSession, Promised, Asked, Checked, DestVerified
<1>4. ASSUME NEW k \in Attempts, Break(k)
      PROVE  VerifiedInv'
  <2>1. UNCHANGED <<announced, temp, dest, spc, req>> /\ c2s' = [c2s EXCEPT ![k] = <<>>]
    BY <1>4 DEF Break, client, disk, sessions
  <2>2. Promised'
    BY <2>1, PromisedInput DEF VerifiedInv
  <2> QED
    BY <2>1, <2>2 DEF VerifiedInv, OneSession, Asked, Checked, DestVerified
<1>5. CASE Crash
  <2>1. UNCHANGED <<announced, temp, dest>> /\ c2s' = [k \in Attempts |-> <<>>]
        /\ \A k \in Attempts : spc'[k] \notin Live
    BY <1>5 DEF Crash, client, disk, Live
  <2>2. Promised'
    BY <2>1 DEF Promised
  <2>3. OneSession' /\ Asked' /\ Checked'
    BY <2>1 DEF OneSession, Asked, Checked, Live, Busy, Writing
  <2> QED
    BY <2>1, <2>2, <2>3 DEF VerifiedInv, DestVerified
<1>6. CASE DestMade
  <2>1. UNCHANGED <<temp, spc, req, c2s>> /\ announced' = announced \cup {dest'} /\ dest = NoFile
    BY <1>6 DEF DestMade, sessions, net
  <2>2. Promised'
    BY <2>1, PromisedGrows DEF VerifiedInv, Promised
  <2>3. Asked' /\ DestVerified'
    BY <2>1 DEF VerifiedInv, Asked, DestVerified
  <2>4. Checked'
    <3>1. \A k \in Attempts : spc[k] # "copying"
      BY <2>1, ConstantTypes DEF VerifiedInv, Checked
    <3>2. \A k \in Attempts : spc[k] # "delete"
      BY <2>1, ConstantTypes DEF VerifiedInv, Checked, Asked, Busy, IType, TypeOK, ClientTypes
    <3> QED
      BY <2>1, <3>1, <3>2 DEF VerifiedInv, Checked
  <2> QED
    BY <2>1, <2>2, <2>3, <2>4 DEF VerifiedInv, OneSession
<1> QED
  BY <1>1, <1>2, <1>3, <1>4, <1>5, <1>6 DEF Next, Environment, Finished

LEMMA VerifiedAlways == ASSUME ~Overlap PROVE Spec => [](IType /\ VerifiedInv)
<1>1. Init => IType /\ VerifiedInv
  BY ITypeInit, VerifiedInit
<1>2. IType /\ VerifiedInv /\ [Next]_vars => IType' /\ VerifiedInv'
  BY ITypeStep, VerifiedStep
<1> QED
  BY <1>1, <1>2, PTL DEF Spec

\* When attempts do not overlap the destination only ever holds a content
\* whose hash was announced and checked, or an interrupted copy of one
\* (command_put_file 913-975).
THEOREM DestinationVerified == ASSUME ~Overlap PROVE Spec => []DestVerified
<1>1. VerifiedInv => DestVerified
  BY DEF VerifiedInv
<1> QED
  BY <1>1, VerifiedAlways, PTL

\* The temporary file is deleted only after its content has reached the
\* destination: the "delete only if CopyFile succeed" of 956.
THEOREM TempKept == ASSUME ~Overlap PROVE Spec => TempKeptUntilCopied
<1>1. ASSUME IType, VerifiedInv, [Next]_vars, temp # NoFile, temp' = NoFile
      PROVE  dest = temp
  <2>1. CASE Client \/ ConnectFail \/ SendReadError(TRUE) \/ NoAnswer(TRUE)
    BY <1>1, <2>1 DEF Client, Connect, GetHash, HashMatches, PutRequest, HashError, StartSending,
       DontNeedOverwrite, PutRefused, SendBlock, SentAll, SendReadError, Acknowledged,
       Rejected, NoAnswer, Clean, CleanDelete, ConnectFail, disk
  <2>2. ASSUME NEW k \in Attempts, SrvReceive(k)
        PROVE  dest = temp
    BY <1>1, <2>2, ReceiveType, ConstantTypes
  <2>3. ASSUME NEW k \in Attempts, SrvDelete(k)
        PROVE  dest = temp
    BY <2>3, <1>1 DEF SrvDelete, VerifiedInv, Checked
  <2>4. ASSUME NEW k \in Attempts, Session(k) \/ SrvWriteError(k), ~SrvReceive(k), ~SrvDelete(k)
        PROVE  dest = temp
    BY <2>4, <1>1 DEF Session, SrvGetHash, SrvNoOverwrite, SrvTempBusy, SrvPutFile,
       SrvErrorHeader, SrvBadStream, SrvInvalidCommand, SrvCheck, SrvCopy, SrvCopied,
       SrvCopyFail, SrvGiveUp, SrvWriteError, disk
  <2>5. CASE SourceChange \/ DestMade \/ Crash \/ (\E k \in Attempts : Break(k)) \/ UNCHANGED vars
    BY <1>1, <2>5 DEF SourceChange, DestMade, Crash, Break, vars, disk
  <2> QED
    BY <1>1, <2>1, <2>2, <2>3, <2>4, <2>5 DEF Next, Environment, Finished
<1>2. IType /\ VerifiedInv /\ [Next]_vars => [temp # NoFile /\ temp' = NoFile => dest = temp]_vars
  BY <1>1
<1> QED
  BY <1>2, VerifiedAlways, PTL DEF Spec, TempKeptUntilCopied

\* Every behaviour of the transfer is one VerifiedFile allows: the
\* destination changes only by CopyFile, and what it then holds was announced.
THEOREM ImplementsVerifiedFile == ASSUME ~Overlap PROVE Spec => ReplacesVerified
<1> USE DEF Replaced!Init, Replaced!Next, Replaced!vars, Replaced!Announce,
        Replaced!BeginCopy, Replaced!EndCopy, Replaced!Put
<1>1. Init => Replaced!Init
  BY ConstantTypes DEF Init
<1>2. ASSUME IType, IType', VerifiedInv, [Next]_vars
      PROVE  [Replaced!Next]_(Replaced!vars)
  <2>1. CASE Client \/ ConnectFail \/ SendReadError(TRUE) \/ NoAnswer(TRUE)
    <3>1. announced \subseteq announced'
      BY <2>1, <1>2, ClientPromises DEF VerifiedInv
    <3>2. UNCHANGED dest
      BY <2>1 DEF Client, Connect, GetHash, HashMatches, PutRequest, HashError, StartSending,
         DontNeedOverwrite, PutRefused, SendBlock, SentAll, SendReadError, Acknowledged,
         Rejected, NoAnswer, Clean, CleanDelete, ConnectFail, disk
    <3>3. announced' \subseteq Content
      BY <1>2 DEF IType, TypeOK, ClientTypes
    <3> QED
      BY <3>1, <3>2, <3>3
  <2>2. ASSUME NEW k \in Attempts, SrvCopy(k)
        PROVE  Replaced!BeginCopy
    <3>1. req[k] \in announced
      BY <2>2, <1>2 DEF SrvCopy, VerifiedInv, Asked, Busy
    <3> QED
      BY <3>1, <2>2 DEF SrvCopy, client
  <2>3. ASSUME NEW k \in Attempts, SrvCopied(k)
        PROVE  Replaced!EndCopy
    <3>1. req[k] \in announced /\ temp = req[k] /\ dest = Torn
      BY <2>3, <1>2 DEF SrvCopied, VerifiedInv, Asked, Checked, Busy
    <3> QED
      BY <3>1, <2>3 DEF SrvCopied, client
  <2>4. ASSUME NEW k \in Attempts, Session(k) \/ SrvWriteError(k), ~SrvCopy(k), ~SrvCopied(k)
        PROVE  UNCHANGED <<dest, announced>>
    BY <2>4 DEF Session, SrvGetHash, SrvNoOverwrite, SrvTempBusy, SrvPutFile, SrvReceive,
       SrvErrorHeader, SrvBadStream, SrvInvalidCommand, SrvCheck,
       SrvCopyFail, SrvDelete, SrvGiveUp, SrvWriteError, disk, client
  <2>5. CASE SourceChange \/ Crash \/ (\E k \in Attempts : Break(k)) \/ UNCHANGED vars
    BY <2>5 DEF SourceChange, Crash, Break, vars, disk, client
  <2>6. CASE DestMade
    BY <2>6, ConstantTypes DEF DestMade
  <2> QED
    BY <1>2, <2>1, <2>2, <2>3, <2>4, <2>5, <2>6 DEF Next, Environment, Finished
<1>3. IType /\ VerifiedInv /\ [Next]_vars => IType'
  BY ITypeStep
<1> QED
  BY <1>1, <1>2, <1>3, VerifiedAlways, PTL DEF Spec, ReplacesVerified, Replaced!Spec

-----------------------------------------------------------------------------
(* What the client takes for sent is held, when attempts do not overlap.   *)

Working == cpc \notin {"connect", "done"}

\* The server has the file, and nothing the session of this attempt still does
\* can take it away.
Settled ==
  /\ file_hash \in {dest, temp} /\ file_hash # NoFile
  /\ spc[try] \notin Writing \cup {"check"}
  /\ spc[try] \in {"copy", "copying"} => temp = file_hash
  /\ \A i \in DOMAIN c2s[try] : c2s[try][i].kind # "put_file"

\* Only the session of the current attempt lives while the client works and
\* when it has ended well; those of later attempts have not begun.
OnlyTry ==
  /\ Working \/ (cpc = "done" /\ result) =>
       \A k \in Attempts \ {try} : spc[k] \in {"none", "ended"}
  /\ \A k \in Attempts : k > try \/ (k = try /\ cpc = "connect") =>
       spc[k] = "none" /\ c2s[k] = <<>> /\ s2c[k] = <<>>

\* What is on the connection of the current attempt: one offer, of the hash
\* the client took; the hash of the destination; an acknowledgement only of
\* what is settled.
Offered ==
  /\ cpc = "hash" => c2s[try] = <<>> /\ s2c[try] = <<>>
  /\ cpc \in {"hash", "wait_hash"} => spc[try] \in {"idle", "ended"}
  /\ cpc = "wait_hash" =>
       /\ Len(c2s[try]) <= 1 /\ (s2c[try] # <<>> => c2s[try] = <<>>)
       /\ \A i \in DOMAIN c2s[try] : c2s[try][i].kind # "put_file"
       /\ \A i \in DOMAIN s2c[try] : /\ s2c[try][i].kind = "hash" =>
                                          s2c[try][i].data = dest /\ dest # NoFile
                                     /\ s2c[try][i].kind # "ok"
  /\ cpc \in {"wait_start", "send", "wait_ack"} =>
       /\ \A i \in DOMAIN c2s[try] : c2s[try][i].kind = "put_file" =>
            i = 1 /\ c2s[try][i].data = file_hash /\ spc[try] \in {"idle", "ended"}
       /\ spc[try] \in Busy => req[try] = file_hash
       /\ \A i \in DOMAIN s2c[try] : s2c[try][i].kind = "ok" => Settled

Refused ==
  Working => \A i \in DOMAIN s2c[try] : s2c[try][i].kind = "dont_need" => ~overwrite

Sent ==
  ~objErr /\ overwrite /\ (cpc \in {"clean", "clean_del"} \/ (cpc = "done" /\ result)) => Settled

HeldInv == OnlyTry /\ Offered /\ Refused /\ Sent

ClientActs     == Client \/ ConnectFail \/ SendReadError(TRUE) \/ NoAnswer(TRUE)
SessionActs(k) == Session(k) \/ SrvWriteError(k)

LEMMA Channels ==
  ASSUME IType, NEW k \in Attempts
  PROVE  /\ c2s[k] \in Seq(Commands) /\ s2c[k] \in Seq(Answers) /\ try \in Attempts
         /\ c2s \in [Attempts -> Seq(Commands)] /\ s2c \in [Attempts -> Seq(Answers)]
         /\ spc \in [Attempts -> Live \cup {"none", "ended"}]
         /\ req \in [Attempts -> Content \cup {NoFile}]
BY DEF IType, TypeOK, ClientTypes, ServerTypes, NetTypes

\* A client step: a connection, the end of the attempt, or a step of
\* do_put_file that leaves files and sessions alone.
LEMMA ClientFrame ==
  ASSUME IType, ClientActs
  PROVE  /\ UNCHANGED <<temp, dest, req, overwrite>>
         /\ \A k \in Attempts \ {try} :
              c2s'[k] = c2s[k] /\ s2c'[k] = s2c[k] /\ spc'[k] = spc[k]
         /\ \/ Connect
            \/ UNCHANGED spc /\ Working /\ Working' /\ try' = try
            \/ UNCHANGED <<spc, file_hash, c2s, objErr>> /\ Hangup(TRUE) /\ cpc \in {"clean", "clean_del"}
            \/ UNCHANGED <<spc, c2s>> /\ Hangup(FALSE)
<1> USE Channels DEF disk, sessions, source, net, client, Sends, Hangup, NextBlock, TakeAnswer, PostProcess
<1>1. CASE Connect
  BY <1>1 DEF Connect
<1>2. CASE ConnectFail
  BY <1>2 DEF ConnectFail
<1>3. CASE GetHash
  BY <1>3 DEF GetHash, Working
<1>4. CASE HashMatches
  BY <1>4 DEF HashMatches, Working
<1>5. CASE PutRequest
  BY <1>5 DEF PutRequest, Working
<1>6. CASE HashError
  BY <1>6 DEF HashError, Working
<1>7. CASE StartSending
  BY <1>7 DEF StartSending, Working
<1>8. CASE DontNeedOverwrite
  BY <1>8 DEF DontNeedOverwrite, Working
<1>9. CASE PutRefused
  BY <1>9 DEF PutRefused
<1>10. CASE SendBlock
  BY <1>10 DEF SendBlock, Working
<1>11. CASE SentAll
  BY <1>11 DEF SentAll, Working
<1>12. CASE \E f \in BOOLEAN : SendReadError(f)
  BY <1>12 DEF SendReadError, Working
<1>13. CASE Acknowledged
  BY <1>13 DEF Acknowledged, Working
<1>14. CASE Rejected
  BY <1>14 DEF Rejected
<1>15. CASE \E f \in BOOLEAN : NoAnswer(f)
  BY <1>15 DEF NoAnswer, Working, Waiting
<1>16. CASE Clean
  BY <1>16 DEF Clean, Working
<1>17. CASE CleanDelete
  BY <1>17 DEF CleanDelete, Working
<1> QED
  BY <1>1, <1>2, <1>3, <1>4, <1>5, <1>6, <1>7, <1>8, <1>9, <1>10, <1>11, <1>12, <1>13, <1>14,
     <1>15, <1>16, <1>17 DEF ClientActs, Client

\* A session's step touches its own connection only.
LEMMA SessionFrame ==
  ASSUME IType, NEW k \in Attempts, SessionActs(k)
  PROVE  /\ UNCHANGED <<source, client>> /\ spc[k] \in Live /\ spc'[k] \in Live \cup {"ended"}
         /\ \A j \in Attempts \ {k} :
              c2s'[j] = c2s[j] /\ s2c'[j] = s2c[j] /\ spc'[j] = spc[j]
<1> USE Channels DEF Live, Writing, net, Goto, Sends, Reply, EndSession, TakeInput
<1>1. CASE SrvGetHash(k)
  BY <1>1 DEF SrvGetHash
<1>2. CASE SrvNoOverwrite(k)
  BY <1>2 DEF SrvNoOverwrite
<1>3. CASE SrvTempBusy(k)
  BY <1>3 DEF SrvTempBusy
<1>4. CASE SrvPutFile(k)
  BY <1>4 DEF SrvPutFile
<1>5. CASE SrvReceive(k)
  BY <1>5 DEF SrvReceive, HasBlock
<1>6. CASE SrvErrorHeader(k)
  BY <1>6 DEF SrvErrorHeader
<1>7. CASE SrvBadStream(k)
  BY <1>7 DEF SrvBadStream
<1>8. CASE SrvInvalidCommand(k)
  BY <1>8 DEF SrvInvalidCommand
<1>9. CASE SrvCheck(k)
  BY <1>9 DEF SrvCheck
<1>10. CASE SrvCopy(k)
  BY <1>10 DEF SrvCopy
<1>11. CASE SrvCopied(k)
  BY <1>11 DEF SrvCopied
<1>12. CASE SrvCopyFail(k)
  BY <1>12 DEF SrvCopyFail
<1>13. CASE SrvDelete(k)
  BY <1>13 DEF SrvDelete
<1>14. CASE SrvGiveUp(k)
  BY <1>14 DEF SrvGiveUp
<1>15. CASE SrvWriteError(k)
  BY <1>15 DEF SrvWriteError, HasBlock
<1> QED
  BY <1>1, <1>2, <1>3, <1>4, <1>5, <1>6, <1>7, <1>8, <1>9, <1>10, <1>11, <1>12, <1>13, <1>14,
     <1>15 DEF SessionActs, Session

\* A step of the environment: the connection breaks, the server dies, a user
\* changes the source, somebody makes the destination.
LEMMA EnvironmentFrame ==
  ASSUME IType, SourceChange \/ DestMade \/ Crash \/ (\E k \in Attempts : Break(k)) \/ UNCHANGED vars
  PROVE  /\ UNCHANGED <<cpc, try, file_hash, objErr, result, temp, req, overwrite>>
         /\ dest' = dest \/ dest = NoFile
         /\ \A k \in Attempts : /\ c2s'[k] \in {c2s[k], <<>>} /\ s2c'[k] \in {s2c[k], <<>>}
                                /\ \/ spc'[k] = spc[k]
                                   \/ spc[k] # "none" /\ spc'[k] = "ended"
BY Channels DEF SourceChange, DestMade, Crash, Break, vars, client, disk, sessions, net, source

\* What a step is.
LEMMA Steps ==
  ASSUME [Next]_vars
  PROVE  \/ ClientActs
         \/ \E k \in Attempts : SessionActs(k)
         \/ SourceChange \/ DestMade \/ Crash \/ (\E k \in Attempts : Break(k)) \/ UNCHANGED vars
BY DEF Next, Environment, Finished, ClientActs, SessionActs

LEMMA OnlyTryStep ==
  ASSUME IType, OnlyTry, ~Overlap, [Next]_vars
  PROVE  OnlyTry'
<1>1. CASE ClientActs
  <2>0. try \in Nat /\ try \in Attempts
    BY Channels DEF Attempts, IType, TypeOK, ClientTypes
  <2>1. \A k \in Attempts \ {try} : c2s'[k] = c2s[k] /\ s2c'[k] = s2c[k] /\ spc'[k] = spc[k]
    BY <1>1, ClientFrame
  <2>2. CASE Connect
    BY <2>0, <2>1, <2>2 DEF Connect, OnlyTry
  <2>3. CASE Working /\ Working' /\ try' = try
    <3>1. \A k \in Attempts \ {try} : spc'[k] \in {"none", "ended"}
      BY <2>1, <2>3 DEF OnlyTry
    <3>2. \A k \in Attempts : k > try => spc'[k] = "none" /\ c2s'[k] = <<>> /\ s2c'[k] = <<>>
      BY <2>0, <2>1 DEF OnlyTry, Attempts
    <3> QED
      BY <2>3, <3>1, <3>2 DEF OnlyTry, Working
  <2>4. CASE Hangup(TRUE) /\ cpc \in {"clean", "clean_del"}
    BY <2>0, <2>1, <2>4 DEF OnlyTry, Working, Hangup
  <2>5. CASE Hangup(FALSE)
    <3>1. CASE cpc' = "done" /\ try' = try
      BY <2>0, <2>1, <2>5, <3>1 DEF OnlyTry, Working, Hangup
    <3>2. CASE cpc' = "connect" /\ try' = try + 1
      BY <2>0, <2>1, <2>5, <3>2 DEF OnlyTry, Working, Hangup, Attempts
    <3> QED
      BY <2>5, <3>1, <3>2 DEF Hangup
  <2> QED
    BY <1>1, <2>2, <2>3, <2>4, <2>5, ClientFrame
<1>2. ASSUME NEW k \in Attempts, SessionActs(k)
      PROVE  OnlyTry'
  <2>1. UNCHANGED <<cpc, try, result>> /\ spc[k] \in Live
        /\ \A j \in Attempts \ {k} : c2s'[j] = c2s[j] /\ s2c'[j] = s2c[j] /\ spc'[j] = spc[j]
    BY <1>2, SessionFrame DEF client
  <2>2. (Working' <=> Working) /\ result' = result
    BY <2>1 DEF Working
  <2> QED
    BY <2>1, <2>2 DEF OnlyTry, Live, Writing
<1>3. CASE SourceChange \/ DestMade \/ Crash \/ (\E k \in Attempts : Break(k)) \/ UNCHANGED vars
  <2>1. UNCHANGED <<cpc, try, result>>
    BY <1>3, EnvironmentFrame
  <2>2. (Working' <=> Working) /\ result' = result
    BY <2>1 DEF Working
  <2> QED
    BY <1>3, <2>1, <2>2, EnvironmentFrame DEF OnlyTry
<1> QED
  BY <1>1, <1>2, <1>3, Steps

\* What a session may answer.
Answerable(k, m) ==
  /\ m \in Answers
  /\ m.kind = "dont_need" => ~overwrite
  /\ m.kind = "hash" => m.data = dest /\ dest # NoFile /\ spc[k] = "idle"
  /\ m.kind = "ok" => spc[k] = "check" /\ temp = req[k] /\ spc'[k] = "copy"

LEMMA SessionAnswers ==
  ASSUME IType, NEW k \in Attempts, SessionActs(k)
  PROVE  \/ s2c'[k] = s2c[k]
         \/ \E m \in Answers : s2c'[k] = Append(s2c[k], m) /\ Answerable(k, m)
<1>1. /\ \A d \in Content \cup {NoFile, Torn}, n \in Nat : Frame("hash", d, n) \in Answers
      /\ \A n \in Nat : Frame("start", NoFile, n) \in Answers
      /\ \A m \in {"not_found", "dont_need", "ok", "error"} : Frame(m, NoFile, 0) \in Answers
  BY FrameTypes
<1>2. ASSUME NEW m \in Answers, s2c' = Sends(s2c, k, m), Answerable(k, m)
      PROVE  \/ s2c'[k] = s2c[k]
             \/ \E n \in Answers : s2c'[k] = Append(s2c[k], n) /\ Answerable(k, n)
  BY <1>2, Channels DEF Sends
<1>3. CASE SrvGetHash(k)
  <2>1. dest \in Content \cup {NoFile, Torn}
    BY DEF IType, TypeOK, ServerTypes
  <2> QED
    BY <1>1, <1>2, <1>3, <2>1 DEF SrvGetHash, Reply, ErrorFrame, Frame, Answerable
<1>4. CASE SrvNoOverwrite(k)
  BY <1>1, <1>2, <1>4 DEF SrvNoOverwrite, MayReplace, Reply, Frame, Answerable
<1>5. CASE SrvPutFile(k)
  <2> DEFINE n == StartBlock(IF temp = NoFile THEN <<>> ELSE temp)
  <2>1. n \in Nat
    BY StartBlockBounds, LenProperties, EmptySeq DEF IType, TypeOK, ServerTypes, Content
  <2>2. s2c' = s2c \/ s2c' = Sends(s2c, k, Frame("start", NoFile, n))
    BY <1>5 DEF SrvPutFile, Reply
  <2> HIDE DEF n
  <2> QED
    BY <1>1, <1>2, <2>1, <2>2 DEF Frame, Answerable
<1>6. CASE SrvCheck(k)
  BY <1>1, <1>2, <1>6, Channels DEF SrvCheck, ErrorFrame, Frame, Answerable, Goto
<1>7. CASE ~SrvGetHash(k) /\ ~SrvNoOverwrite(k) /\ ~SrvPutFile(k) /\ ~SrvCheck(k)
  BY <1>1, <1>2, <1>7 DEF SessionActs, Session, SrvTempBusy, SrvReceive, SrvErrorHeader,
     SrvBadStream, SrvInvalidCommand, SrvCopy, SrvCopied, SrvCopyFail, SrvDelete,
     SrvGiveUp, SrvWriteError, Reply, ErrorFrame, Frame, net, Answerable
<1> QED
  BY <1>3, <1>4, <1>5, <1>6, <1>7

\* The client reads one answer after the other.
LEMMA ClientReads ==
  ASSUME IType, ClientActs, ~Connect
  PROVE  \A i \in DOMAIN s2c'[try] : \E j \in DOMAIN s2c[try] : s2c'[try][i] = s2c[try][j]
<1>0. try \in Attempts /\ s2c[try] \in Seq(Answers)
  BY Channels DEF IType, TypeOK, ClientTypes
<1>1. s2c'[try] \in {s2c[try], <<>>} \/ (s2c[try] # <<>> /\ s2c'[try] = Tail(s2c[try]))
  BY <1>0, Channels DEF ClientActs, Client, ConnectFail, GetHash, HashMatches, PutRequest,
     HashError, StartSending, DontNeedOverwrite, PutRefused, SendBlock, SentAll, SendReadError,
     Acknowledged, Rejected, NoAnswer, Clean, CleanDelete, NextBlock, Hangup, TakeAnswer, net
<1>2. CASE s2c'[try] = s2c[try]
  BY <1>2
<1>3. CASE s2c'[try] = <<>>
  BY <1>3
<1>4. CASE s2c[try] # <<>> /\ s2c'[try] = Tail(s2c[try])
  BY <1>0, <1>4, TailFrames
<1> QED
  BY <1>1, <1>2, <1>3, <1>4

LEMMA RefusedStep ==
  ASSUME IType, OnlyTry, Refused, [Next]_vars
  PROVE  Refused'
<1>0. try \in Attempts /\ s2c[try] \in Seq(Answers)
  BY Channels DEF IType, TypeOK, ClientTypes
<1>1. CASE ClientActs
  <2>1. CASE Connect
    <3>1. s2c'[try] = <<>> /\ try' = try
      BY <1>0, <2>1 DEF Connect, OnlyTry
    <3> QED
      BY <3>1 DEF Refused
  <2>2. CASE Hangup(TRUE) \/ Hangup(FALSE)
    BY <2>2 DEF Hangup, Refused, Working
  <2>3. CASE Working /\ try' = try /\ ~Connect
    BY <1>1, <2>3, ClientReads, ClientFrame DEF Refused
  <2> QED
    BY <1>1, <2>1, <2>2, <2>3, ClientFrame
<1>2. ASSUME NEW k \in Attempts, SessionActs(k)
      PROVE  Refused'
  <2>1. UNCHANGED <<cpc, try, overwrite>>
        /\ \A j \in Attempts \ {k} : s2c'[j] = s2c[j]
    BY <1>2, SessionFrame DEF client, source
  <2>2. Working' <=> Working
    BY <2>1 DEF Working
  <2>3. CASE k = try
    <3>1. \A i \in DOMAIN s2c'[try] : s2c'[try][i].kind = "dont_need" =>
            ~overwrite \/ \E j \in DOMAIN s2c[try] : s2c[try][j].kind = "dont_need"
      BY <1>0, <1>2, <2>3, SessionAnswers, AppendFrames DEF Answerable
    <3> QED
      BY <2>1, <2>2, <3>1 DEF Refused
  <2>4. CASE k # try
    BY <1>0, <2>1, <2>2, <2>4 DEF Refused
  <2> QED
    BY <2>3, <2>4
<1>3. CASE SourceChange \/ DestMade \/ Crash \/ (\E k \in Attempts : Break(k)) \/ UNCHANGED vars
  <2>1. UNCHANGED <<cpc, try, overwrite>> /\ s2c'[try] \in {s2c[try], <<>>}
    BY <1>0, <1>3, EnvironmentFrame
  <2>2. Working' <=> Working
    BY <2>1 DEF Working
  <2> QED
    BY <2>1, <2>2 DEF Refused
<1> QED
  BY <1>1, <1>2, <1>3, Steps

\* What a session takes from its input, and where it goes.
LEMMA SessionInput ==
  ASSUME IType, NEW k \in Attempts, SessionActs(k)
  PROVE  /\ \/ c2s'[k] \in {c2s[k], <<>>}
            \/ c2s[k] # <<>> /\ c2s'[k] = Tail(c2s[k])
            \/ /\ c2s[k] # <<>> /\ spc[k] = "recv"
               /\ c2s'[k] = [c2s[k] EXCEPT ![1] = Frame("rest", NoFile, 0)]
         /\ spc'[k] \in Busy /\ spc[k] \notin Busy =>
              /\ c2s[k] # <<>> /\ Input(k).kind = "put_file" /\ req'[k] = Input(k).data
              /\ c2s'[k] = Tail(c2s[k])
         /\ spc[k] \in Busy => UNCHANGED req
<1> USE Channels DEF Busy, Writing, net, sessions, Goto, Reply, EndSession, TakeInput
<1>1. CASE SrvGetHash(k)
  BY <1>1 DEF SrvGetHash
<1>2. CASE SrvNoOverwrite(k)
  BY <1>2 DEF SrvNoOverwrite
<1>3. CASE SrvTempBusy(k)
  BY <1>3 DEF SrvTempBusy
<1>4. CASE SrvPutFile(k)
  BY <1>4 DEF SrvPutFile
<1>5. CASE SrvReceive(k)
  BY <1>5 DEF SrvReceive, HasBlock
<1>6. CASE SrvErrorHeader(k)
  BY <1>6 DEF SrvErrorHeader
<1>7. CASE SrvBadStream(k)
  BY <1>7 DEF SrvBadStream
<1>8. CASE SrvInvalidCommand(k)
  BY <1>8 DEF SrvInvalidCommand
<1>9. CASE SrvCheck(k)
  BY <1>9 DEF SrvCheck
<1>10. CASE SrvCopy(k)
  BY <1>10 DEF SrvCopy
<1>11. CASE SrvCopied(k)
  BY <1>11 DEF SrvCopied
<1>12. CASE SrvCopyFail(k)
  BY <1>12 DEF SrvCopyFail
<1>13. CASE SrvDelete(k)
  BY <1>13 DEF SrvDelete
<1>14. CASE SrvGiveUp(k)
  BY <1>14 DEF SrvGiveUp
<1>15. CASE SrvWriteError(k)
  BY <1>15 DEF SrvWriteError, HasBlock
<1> QED
  BY <1>1, <1>2, <1>3, <1>4, <1>5, <1>6, <1>7, <1>8, <1>9, <1>10, <1>11, <1>12, <1>13, <1>14,
     <1>15 DEF SessionActs, Session

\* No offer is left in a channel that had none, and the only one is gone when
\* something was read.
LEMMA OffersLeft ==
  ASSUME IType, NEW k \in Attempts, SessionActs(k),
         \A i \in DOMAIN c2s[k] : c2s[k][i].kind # "put_file"
  PROVE  \A i \in DOMAIN c2s'[k] : c2s'[k][i].kind # "put_file"
<1>1. c2s[k] \in Seq(Commands)
  BY Channels
<1>2. CASE c2s'[k] = c2s[k]
  BY <1>2
<1>3. CASE c2s'[k] = <<>>
  BY <1>3
<1>4. CASE c2s[k] # <<>> /\ c2s'[k] = Tail(c2s[k])
  BY <1>1, <1>4, TailFrames
<1>5. CASE c2s[k] # <<>> /\ c2s'[k] = [c2s[k] EXCEPT ![1] = Frame("rest", NoFile, 0)]
  BY <1>1, <1>5 DEF Frame
<1> QED
  BY <1>2, <1>3, <1>4, <1>5, SessionInput

LEMMA SettledSession ==
  ASSUME IType, VerifiedInv, Settled, SessionActs(try)
  PROVE  Settled'
<1>0. try \in Attempts
  BY DEF IType, TypeOK, ClientTypes
<1>1. /\ UNCHANGED <<try, file_hash>> /\ spc[try] \in {"idle", "copy", "copying", "delete"}
      /\ spc'[try] \in Live \cup {"ended"}
  BY <1>0, SessionFrame DEF client, Live, Settled, Writing
<1>2. \A i \in DOMAIN c2s'[try] : c2s'[try][i].kind # "put_file"
  BY <1>0, <1>1, OffersLeft DEF Settled
<1>3. CASE spc[try] = "idle"
  <2>1. Input(try).kind # "put_file" \/ c2s[try] = <<>>
    <3>1. c2s[try] \in Seq(Commands)
      BY <1>0, Channels
    <3> QED
      BY <3>1, TailFrames DEF Settled, Input
  <2>2. spc'[try] \notin Busy
    BY <1>0, <1>3, <2>1, SessionInput DEF Busy, Writing
  <2>3. UNCHANGED <<temp, dest>>
    BY <1>3, <2>1 DEF SessionActs, Session, SrvGetHash, SrvNoOverwrite, SrvTempBusy, SrvPutFile,
       SrvReceive, SrvErrorHeader, SrvBadStream, SrvInvalidCommand, SrvCheck, SrvCopy, SrvCopied,
       SrvCopyFail, SrvDelete, SrvGiveUp, SrvWriteError, HasBlock, disk
  <2> QED
    BY <1>1, <1>2, <2>2, <2>3 DEF Settled, Busy, Writing
<1>4. CASE SrvCopy(try) \/ SrvCopied(try) \/ SrvCopyFail(try) \/ SrvDelete(try)
  <2>1. spc \in [Attempts -> Live \cup {"none", "ended"}]
    BY <1>0, Channels
  <2>2. CASE SrvCopy(try)
    BY <1>0, <1>1, <1>2, <2>1, <2>2 DEF SrvCopy, Goto, Settled, Writing
  <2>3. CASE SrvCopied(try)
    BY <1>0, <1>1, <1>2, <2>1, <2>3 DEF SrvCopied, Goto, Settled, Writing
  <2>4. CASE SrvCopyFail(try)
    BY <1>0, <1>1, <1>2, <2>1, <2>4 DEF SrvCopyFail, Goto, Settled, Writing, disk
  <2>5. CASE SrvDelete(try)
    <3>1. dest = temp
      BY <1>0, <2>5 DEF SrvDelete, VerifiedInv, Checked
    <3> QED
      BY <1>0, <1>1, <1>2, <2>1, <2>5, <3>1 DEF SrvDelete, Goto, Settled, Writing
  <2> QED
    BY <1>4, <2>2, <2>3, <2>4, <2>5
<1>5. CASE spc[try] # "idle" /\ ~(SrvCopy(try) \/ SrvCopied(try) \/ SrvCopyFail(try) \/ SrvDelete(try))
  BY <1>1, <1>5 DEF SessionActs, Session, SrvGetHash, SrvNoOverwrite, SrvTempBusy, SrvPutFile,
     SrvReceive, SrvErrorHeader, SrvBadStream, SrvInvalidCommand, SrvCheck,
     SrvGiveUp, SrvWriteError, HasBlock, Writing
<1> QED
  BY <1>3, <1>4, <1>5

LEMMA SettledClient ==
  ASSUME Settled, UNCHANGED <<temp, dest, spc, try, file_hash>>,
         \A i \in DOMAIN c2s'[try] :
           \/ i \in DOMAIN c2s[try] /\ c2s'[try][i] = c2s[try][i]
           \/ c2s'[try][i].kind # "put_file"
  PROVE  Settled'
BY DEF Settled

\* A session that waits for a command answers at most once for each.
LEMMA IdleSession ==
  ASSUME IType, NEW k \in Attempts, SessionActs(k), spc[k] = "idle",
         c2s[k] = <<>> \/ Input(k).kind # "put_file"
  PROVE  /\ spc'[k] \in {"idle", "ended"} /\ UNCHANGED <<temp, dest>>
         /\ s2c'[k] = s2c[k] \/ (c2s[k] # <<>> /\ c2s'[k] = Tail(c2s[k]))
<1>0. /\ c2s[k] \in Seq(Commands) /\ s2c[k] \in Seq(Answers) /\ s2c \in [Attempts -> Seq(Answers)]
      /\ c2s \in [Attempts -> Seq(Commands)] /\ spc \in [Attempts -> Live \cup {"none", "ended"}]
  BY Channels
<1>1. PICK m : \/ c2s[k] # <<>> /\ Reply(k, m, "idle", "ended")
               \/ EndSession(k) /\ s2c' = s2c
  BY DEF SessionActs, Session, SrvGetHash, SrvNoOverwrite, SrvTempBusy, SrvPutFile,
     SrvReceive, SrvErrorHeader, SrvBadStream, SrvInvalidCommand, SrvCheck, SrvCopy, SrvCopied,
     SrvCopyFail, SrvDelete, SrvGiveUp, SrvWriteError, HasBlock, Writing
<1>2. UNCHANGED <<temp, dest>>
  BY DEF SessionActs, Session, SrvGetHash, SrvNoOverwrite, SrvTempBusy, SrvPutFile,
     SrvReceive, SrvErrorHeader, SrvBadStream, SrvInvalidCommand, SrvCheck, SrvCopy, SrvCopied,
     SrvCopyFail, SrvDelete, SrvGiveUp, SrvWriteError, HasBlock, disk
<1>3. CASE EndSession(k) /\ s2c' = s2c
  BY <1>0, <1>2, <1>3, LenProperties DEF EndSession, Goto
<1>4. CASE c2s[k] # <<>> /\ Reply(k, m, "idle", "ended")
  <2>1. CASE EndSession(k) /\ s2c' = s2c
    BY <1>3, <2>1
  <2>2. CASE Goto(k, "idle") /\ TakeInput(k) /\ s2c' = Sends(s2c, k, m)
    <3>1. spc'[k] = "idle" /\ c2s'[k] = Tail(c2s[k]) /\ s2c'[k] \in {s2c[k], Append(s2c[k], m)}
      BY <1>0, <2>2 DEF Goto, TakeInput, Sends
    <3> QED
      BY <1>2, <1>4, <3>1
  <2> QED
    BY <1>4, <2>1, <2>2 DEF Reply
<1> QED
  BY <1>1, <1>3, <1>4

LEMMA OfferedSession ==
  ASSUME IType, VerifiedInv, OnlyTry, Offered, NEW k \in Attempts, SessionActs(k)
  PROVE  Offered'
<1>0. /\ try \in Attempts /\ c2s[try] \in Seq(Commands) /\ s2c[try] \in Seq(Answers)
      /\ UNCHANGED <<cpc, try, file_hash>>
      /\ spc[k] \in Live /\ spc'[k] \in Live \cup {"ended"}
  BY Channels, SessionFrame DEF IType, TypeOK, ClientTypes, client
<1>1. CASE ~Working
  BY <1>0, <1>1 DEF Offered, Working
<1>2. CASE Working
  <2>0. k = try
    BY <1>0, <1>2 DEF OnlyTry, Live, Writing
  <2>1. \A i \in DOMAIN s2c'[try] :
          \/ i \in DOMAIN s2c[try] /\ s2c'[try][i] = s2c[try][i]
          \/ Answerable(try, s2c'[try][i])
    BY <1>0, <2>0, SessionAnswers, AppendFrames
  <2>2. CASE cpc = "hash"
    <3>1. spc[try] = "idle" /\ c2s[try] = <<>> /\ s2c[try] = <<>>
      BY <1>0, <2>0, <2>2 DEF Offered, Live, Writing
    <3>2. c2s'[try] = <<>> /\ s2c'[try] = <<>> /\ spc'[try] \in {"idle", "ended"}
      <4>1. s2c'[try] = s2c[try] /\ spc'[try] \in {"idle", "ended"}
        BY <1>0, <2>0, <3>1, IdleSession
      <4>2. c2s'[try] \in {c2s[try], <<>>}
        BY <1>0, <2>0, <3>1, SessionInput
      <4> QED
        BY <3>1, <4>1, <4>2
    <3> QED
      BY <1>0, <2>2, <3>2 DEF Offered
  <2>3. CASE cpc = "wait_hash"
    <3>1. /\ spc[try] = "idle" /\ Len(c2s[try]) <= 1 /\ (s2c[try] # <<>> => c2s[try] = <<>>)
          /\ \A i \in DOMAIN c2s[try] : c2s[try][i].kind # "put_file"
      BY <1>0, <2>0, <2>3 DEF Offered, Live, Writing
    <3>2. c2s[try] = <<>> \/ Input(try).kind # "put_file"
      BY <1>0, <3>1, TailFrames DEF Input
    <3>3. /\ spc'[try] \in {"idle", "ended"} /\ dest' = dest
          /\ s2c'[try] = s2c[try] \/ (c2s[try] # <<>> /\ c2s'[try] = Tail(c2s[try]))
      BY <2>0, <3>1, <3>2, IdleSession
    <3>4. \/ c2s'[try] \in {c2s[try], <<>>}
          \/ c2s[try] # <<>> /\ c2s'[try] = Tail(c2s[try])
      BY <2>0, <3>1, SessionInput
    <3>5. Len(c2s'[try]) <= 1 /\ (s2c'[try] # <<>> => c2s'[try] = <<>>)
      <4>1. CASE c2s[try] # <<>> /\ c2s'[try] = Tail(c2s[try])
        BY <1>0, <3>1, <4>1, OneFrame
      <4>2. CASE s2c'[try] = s2c[try] /\ c2s'[try] \in {c2s[try], <<>>}
        BY <3>1, <4>2
      <4> QED
        BY <3>3, <3>4, <4>1, <4>2
    <3>6. \A i \in DOMAIN c2s'[try] : c2s'[try][i].kind # "put_file"
      BY <2>0, <3>1, OffersLeft
    <3>7. \A i \in DOMAIN s2c'[try] : /\ s2c'[try][i].kind = "hash" =>
                                           s2c'[try][i].data = dest' /\ dest' # NoFile
                                      /\ s2c'[try][i].kind # "ok"
      BY <2>1, <2>3, <3>1, <3>3 DEF Offered, Answerable
    <3> QED
      BY <1>0, <2>3, <3>3, <3>5, <3>6, <3>7 DEF Offered
  <2>4. CASE cpc \in {"wait_start", "send", "wait_ack"}
    <3>1. /\ \A i \in DOMAIN c2s[try] : c2s[try][i].kind = "put_file" =>
               i = 1 /\ c2s[try][i].data = file_hash /\ spc[try] \in {"idle", "ended"}
          /\ spc[try] \in Busy => req[try] = file_hash
          /\ \A i \in DOMAIN s2c[try] : s2c[try][i].kind = "ok" => Settled
      BY <2>4 DEF Offered
    <3>2. \A i \in DOMAIN c2s'[try] : c2s'[try][i].kind = "put_file" =>
            i = 1 /\ c2s'[try][i].data = file_hash' /\ spc'[try] \in {"idle", "ended"}
      <4>1. CASE spc[try] \in Busy
        <5>1. \A i \in DOMAIN c2s[try] : c2s[try][i].kind # "put_file"
          BY <3>1, <4>1 DEF Busy, Writing
        <5> QED
          BY <1>0, <2>0, <5>1, OffersLeft
      <4>2. CASE spc[try] \notin Busy
        <5>1. CASE c2s[try] # <<>> /\ c2s'[try] = Tail(c2s[try])
          BY <1>0, <3>1, <5>1, TailFrames
        <5>2. CASE c2s'[try] = <<>>
          BY <5>2
        <5>3. CASE c2s'[try] = c2s[try] /\ ~(c2s[try] # <<>> /\ c2s'[try] = Tail(c2s[try]))
          <6>1. spc'[try] \notin Busy
            BY <2>0, <4>2, <5>3, SessionInput
          <6>2. spc'[try] \in {"idle", "ended"}
            BY <1>0, <2>0, <6>1 DEF Busy, Live, Writing
          <6> QED
            BY <1>0, <3>1, <5>3, <6>2
        <5> QED
          BY <2>0, <4>2, <5>1, <5>2, <5>3, SessionInput DEF Busy, Writing
      <4> QED
        BY <4>1, <4>2
    <3>3. spc'[try] \in Busy => req'[try] = file_hash'
      <4>1. CASE spc[try] \in Busy
        BY <1>0, <2>0, <3>1, <4>1, SessionInput
      <4>2. CASE spc[try] \notin Busy /\ spc'[try] \in Busy
        <5>1. c2s[try] # <<>> /\ Input(try).kind = "put_file" /\ req'[try] = Input(try).data
          BY <2>0, <4>2, SessionInput
        <5>2. 1 \in DOMAIN c2s[try] /\ c2s[try][1] = Input(try)
          BY <1>0, <5>1, TailFrames DEF Input
        <5> QED
          BY <1>0, <3>1, <5>1, <5>2
      <4> QED
        BY <4>1, <4>2
    <3>4. \A i \in DOMAIN s2c'[try] : s2c'[try][i].kind = "ok" => Settled'
      <4> SUFFICES ASSUME NEW i \in DOMAIN s2c'[try], s2c'[try][i].kind = "ok" PROVE Settled'
        OBVIOUS
      <4>1. CASE i \in DOMAIN s2c[try] /\ s2c'[try][i] = s2c[try][i]
        BY <2>0, <3>1, <4>1, SettledSession
      <4>2. CASE Answerable(try, s2c'[try][i])
        <5>1. spc[try] = "check" /\ temp = req[try] /\ spc'[try] = "copy"
          BY <4>2 DEF Answerable
        <5>2. SrvCheck(try)
          BY <2>0, <5>1 DEF SessionActs, Session, SrvGetHash, SrvNoOverwrite, SrvTempBusy, SrvPutFile,
             SrvReceive, SrvErrorHeader, SrvBadStream, SrvInvalidCommand, SrvCheck, SrvCopy, SrvCopied,
             SrvCopyFail, SrvDelete, SrvGiveUp, SrvWriteError, HasBlock, Writing
        <5>3. temp' = temp /\ temp = file_hash
          BY <3>1, <5>1, <5>2 DEF SrvCheck, disk, Busy
        <5>5. file_hash # NoFile
          BY <1>0, <3>1, <5>1, ConstantTypes DEF VerifiedInv, Asked, Busy, IType, TypeOK, ClientTypes
        <5>4. \A j \in DOMAIN c2s'[try] : c2s'[try][j].kind # "put_file"
          BY <3>2, <5>1
        <5> QED
          BY <1>0, <5>1, <5>3, <5>4, <5>5 DEF Settled, Writing
      <4> QED
        BY <2>1, <4>1, <4>2
    <3> QED
      BY <1>0, <2>4, <3>2, <3>3, <3>4 DEF Offered
  <2>5. CASE cpc \notin {"hash", "wait_hash", "wait_start", "send", "wait_ack"}
    BY <1>0, <2>5 DEF Offered
  <2> QED
    BY <2>2, <2>3, <2>4, <2>5
<1> QED
  BY <1>1, <1>2

\* What a client's step puts on its connection when it goes on.
LEMMA ClientSends ==
  ASSUME IType, ClientActs, ~Connect, ~GetHash, ~PutRequest
  PROVE  /\ \A i \in DOMAIN c2s'[try] :
              \/ i \in DOMAIN c2s[try] /\ c2s'[try][i] = c2s[try][i]
              \/ c2s'[try][i].kind # "put_file"
         /\ UNCHANGED file_hash
<1>0. /\ try \in Attempts /\ c2s[try] \in Seq(Commands) /\ c2s \in [Attempts -> Seq(Commands)]
  BY Channels DEF IType, TypeOK, ClientTypes
<1>1. \/ c2s' = c2s
      \/ \E m \in Commands : m.kind # "put_file" /\ c2s' = Sends(c2s, try, m)
  <2>1. CASE SendBlock
    <3> DEFINE m == Frame("data", SubSeq(src, blk * BlockSize + 1, blk * BlockSize + NextSize), 0)
    <3>1. m \in Commands /\ m.kind # "put_file"
      BY <2>1, BlockType, FrameTypes DEF SendBlock, Frame
    <3>2. c2s' \in {c2s, Sends(c2s, try, m)}
      BY <2>1 DEF SendBlock
    <3> QED
      BY <3>1, <3>2
  <2>2. CASE \E f \in BOOLEAN : SendReadError(f)
    BY <2>2, FrameTypes DEF SendReadError, Frame
  <2>3. CASE ~SendBlock /\ ~(\E f \in BOOLEAN : SendReadError(f))
    BY <2>3 DEF ClientActs, Client, ConnectFail, HashMatches, HashError, StartSending,
       DontNeedOverwrite, PutRefused, SentAll, Acknowledged, Rejected, NoAnswer, Clean,
       CleanDelete, net
  <2> QED
    BY <2>1, <2>2, <2>3
<1>2. \/ c2s'[try] = c2s[try]
      \/ \E m \in Commands : m.kind # "put_file" /\ c2s'[try] = Append(c2s[try], m)
  BY <1>0, <1>1 DEF Sends
<1>3. UNCHANGED file_hash
  BY DEF ClientActs, Client, ConnectFail, HashMatches, HashError, StartSending,
     DontNeedOverwrite, PutRefused, SentAll, Acknowledged, Rejected, NoAnswer, Clean,
     CleanDelete, SendBlock, SendReadError, client
<1>4. CASE c2s'[try] = c2s[try]
  BY <1>3, <1>4
<1>5. ASSUME NEW m \in Commands, m.kind # "put_file", c2s'[try] = Append(c2s[try], m)
      PROVE  \A i \in DOMAIN c2s'[try] :
               \/ i \in DOMAIN c2s[try] /\ c2s'[try][i] = c2s[try][i]
               \/ c2s'[try][i].kind # "put_file"
  BY <1>0, <1>5, AppendFrames
<1> QED
  BY <1>2, <1>3, <1>4, <1>5

LEMMA OfferedClient ==
  ASSUME IType, OnlyTry, Offered, ClientActs
  PROVE  Offered'
<1>0. /\ try \in Attempts /\ c2s[try] \in Seq(Commands) /\ s2c[try] \in Seq(Answers)
      /\ c2s \in [Attempts -> Seq(Commands)] /\ s2c \in [Attempts -> Seq(Answers)]
      /\ spc \in [Attempts -> Live \cup {"none", "ended"}]
  BY Channels DEF IType, TypeOK, ClientTypes
<1>1. CASE Connect
  <2>1. cpc' = "hash" /\ UNCHANGED <<try, c2s, s2c>> /\ spc'[try] = "idle"
    BY <1>0, <1>1 DEF Connect
  <2>2. c2s[try] = <<>> /\ s2c[try] = <<>>
    BY <1>0, <1>1 DEF Connect, OnlyTry
  <2> QED
    BY <2>1, <2>2 DEF Offered
<1>2. CASE cpc' \notin {"hash", "wait_hash", "wait_start", "send", "wait_ack"}
  BY <1>2 DEF Offered
<1>3. CASE GetHash /\ cpc' = "wait_hash"
  <2>1. /\ UNCHANGED <<try, s2c, spc>> /\ c2s' = Sends(c2s, try, Frame("get_hash", NoFile, 0))
        /\ c2s[try] = <<>> /\ s2c[try] = <<>> /\ spc[try] \in {"idle", "ended"}
    BY <1>3 DEF GetHash, Offered, NextBlock, Hangup, sessions
  <2>2. c2s'[try] \in {<<>>, Append(<<>>, Frame("get_hash", NoFile, 0))}
    BY <1>0, <2>1 DEF Sends
  <2>3. /\ Len(c2s'[try]) <= 1
        /\ \A i \in DOMAIN c2s'[try] : c2s'[try][i].kind # "put_file"
    <3>1. CASE c2s'[try] = <<>>
      BY <3>1
    <3>2. CASE c2s'[try] = Append(<<>>, Frame("get_hash", NoFile, 0))
      BY <3>2 DEF Frame
    <3> QED
      BY <2>2, <3>1, <3>2
  <2>4. s2c'[try] = <<>>
    BY <2>1
  <2> QED
    BY <1>3, <2>1, <2>3, <2>4 DEF Offered
<1>4. CASE PutRequest /\ cpc' = "wait_start"
  <2> DEFINE m == Frame("put_file", file_hash, Len(src))
  <2>1. /\ UNCHANGED <<try, spc, file_hash>> /\ s2c[try] # <<>> /\ s2c' = [s2c EXCEPT ![try] = Tail(@)]
        /\ c2s' = Sends(c2s, try, m)
        /\ cpc = "wait_hash"
    BY <1>4 DEF PutRequest, Hangup, sessions, TakeAnswer
  <2>2. c2s[try] = <<>>
    BY <2>1 DEF Offered
  <2>3. c2s'[try] \in {<<>>, Append(<<>>, m)}
    BY <1>0, <2>1, <2>2 DEF Sends
  <2>4. \A i \in DOMAIN c2s'[try] : i = 1 /\ c2s'[try][i].data = file_hash
    BY <2>3 DEF Frame
  <2>5. spc[try] \in {"idle", "ended"}
    BY <2>1 DEF Offered
  <2>6. \A i \in DOMAIN s2c'[try] : s2c'[try][i].kind # "ok"
    <3>1. s2c'[try] = Tail(s2c[try])
      BY <1>0, <2>1
    <3>2. \A i \in DOMAIN s2c[try] : s2c[try][i].kind # "ok"
      BY <2>1 DEF Offered
    <3> QED
      BY <1>0, <2>1, <3>1, <3>2, TailFrames
  <2> HIDE DEF m
  <2> QED
    BY <1>4, <2>1, <2>4, <2>5, <2>6 DEF Offered, Busy, Writing
<1>5. CASE /\ ~Connect /\ ~GetHash /\ ~PutRequest
           /\ cpc' \in {"hash", "wait_hash", "wait_start", "send", "wait_ack"}
  <2>1. /\ cpc \in {"wait_start", "send", "wait_ack"} /\ cpc' \in {"wait_start", "send", "wait_ack"}
        /\ UNCHANGED <<try, spc, temp, dest, req>>
    BY <1>5 DEF ClientActs, Client, ConnectFail, HashMatches, HashError, StartSending,
       DontNeedOverwrite, PutRefused, SentAll, Acknowledged, Rejected, NoAnswer, Clean,
       CleanDelete, SendBlock, SendReadError, NextBlock, Hangup, PostProcess, sessions, disk, client
  <2>2. /\ UNCHANGED file_hash
        /\ \A i \in DOMAIN c2s'[try] :
             \/ i \in DOMAIN c2s[try] /\ c2s'[try][i] = c2s[try][i]
             \/ c2s'[try][i].kind # "put_file"
    BY <1>5, ClientSends
  <2>3. \A i \in DOMAIN s2c'[try] : s2c'[try][i].kind = "ok" => Settled'
    <3>1. \A i \in DOMAIN s2c'[try] : \E j \in DOMAIN s2c[try] : s2c'[try][i] = s2c[try][j]
      BY <1>5, ClientReads
    <3>2. Settled => Settled'
      BY <2>1, <2>2, SettledClient
    <3> QED
      BY <2>1, <3>1, <3>2 DEF Offered
  <2> QED
    BY <2>1, <2>2, <2>3 DEF Offered
<1> QED
  BY <1>1, <1>2, <1>3, <1>4, <1>5 DEF GetHash, PutRequest, NextBlock, Hangup

LEMMA OfferedStep ==
  ASSUME IType, VerifiedInv, OnlyTry, Offered, [Next]_vars
  PROVE  Offered'
<1>1. CASE SourceChange \/ DestMade \/ Crash \/ (\E k \in Attempts : Break(k)) \/ UNCHANGED vars
  <2>0. /\ try \in Attempts /\ c2s[try] \in Seq(Commands) /\ s2c[try] \in Seq(Answers)
    BY Channels DEF IType, TypeOK, ClientTypes
  <2>1. /\ UNCHANGED <<cpc, try, file_hash, temp, req>> /\ (dest' = dest \/ dest = NoFile)
        /\ c2s'[try] \in {c2s[try], <<>>} /\ s2c'[try] \in {s2c[try], <<>>}
        /\ spc'[try] \in {spc[try], "ended"}
    BY <1>1, <2>0, EnvironmentFrame
  <2>2. Settled => Settled'
    BY <2>1 DEF Settled, Writing
  <2>3. Len(c2s[try]) <= 1 => Len(c2s'[try]) <= 1
    BY <2>1
  <2>4. s2c'[try] # <<>> => s2c[try] # <<>>
    BY <2>1
  <2>5. c2s[try] = <<>> => c2s'[try] = <<>>
    BY <2>1
  <2>6. /\ \A i \in DOMAIN c2s'[try] : i \in DOMAIN c2s[try] /\ c2s'[try][i] = c2s[try][i]
        /\ \A i \in DOMAIN s2c'[try] : i \in DOMAIN s2c[try] /\ s2c'[try][i] = s2c[try][i]
    BY <2>1
  <2> QED
    BY <2>1, <2>2, <2>3, <2>4, <2>5, <2>6 DEF Offered, Busy, Writing
<1> QED
  BY <1>1, OfferedClient, OfferedSession, Steps

\* What the client takes for sent has been settled.
LEMMA SentStep ==
  ASSUME IType, VerifiedInv, HeldInv, [Next]_vars
  PROVE  Sent'
<1>0. /\ try \in Attempts /\ c2s[try] \in Seq(Commands) /\ s2c[try] \in Seq(Answers)
      /\ s2c \in [Attempts -> Seq(Answers)]
  BY Channels DEF IType, TypeOK, ClientTypes
<1>1. CASE ClientActs
  <2> SUFFICES ASSUME ~objErr', overwrite', cpc' \in {"clean", "clean_del"} \/ (cpc' = "done" /\ result')
               PROVE  Settled'
    BY DEF Sent
  <2>1. overwrite' = overwrite
    BY <1>1, ClientFrame
  <2>2. CASE HashMatches
    <3>1. /\ UNCHANGED <<temp, dest, spc, try, file_hash, c2s>>
          /\ s2c[try] # <<>> /\ cpc = "wait_hash" /\ Answer.kind = "hash" /\ Answer.data = file_hash
      BY <2>2 DEF HashMatches, PostProcess, disk, sessions
    <3>2. 1 \in DOMAIN s2c[try] /\ s2c[try][1] = Answer
      BY <1>0, <3>1, TailFrames DEF Answer
    <3>3. dest = file_hash /\ file_hash # NoFile
      BY <3>1, <3>2 DEF HeldInv, Offered
    <3> QED
      BY <3>1, <3>3 DEF HeldInv, Offered, Settled, Writing
  <2>3. CASE Acknowledged
    <3>1. /\ UNCHANGED <<temp, dest, spc, try, file_hash, c2s>>
          /\ s2c[try] # <<>> /\ cpc = "wait_ack" /\ Answer.kind = "ok"
      BY <2>3 DEF Acknowledged, PostProcess, disk, sessions
    <3>2. 1 \in DOMAIN s2c[try] /\ s2c[try][1] = Answer
      BY <1>0, <3>1, TailFrames DEF Answer
    <3>3. Settled
      BY <3>1, <3>2 DEF HeldInv, Offered
    <3> QED
      BY <3>1, <3>3, SettledClient
  <2>4. CASE DontNeedOverwrite
    <3>1. s2c[try] # <<>> /\ cpc = "wait_start" /\ Answer.kind = "dont_need"
      BY <2>4 DEF DontNeedOverwrite
    <3>2. 1 \in DOMAIN s2c[try] /\ s2c[try][1] = Answer
      BY <1>0, <3>1, TailFrames DEF Answer
    <3> QED
      BY <2>1, <3>1, <3>2 DEF HeldInv, Refused, Working
  <2>5. CASE Clean \/ CleanDelete
    <3>1. objErr' = objErr
      BY <2>5 DEF Clean, CleanDelete
    <3>2. cpc \in {"clean", "clean_del"} /\ UNCHANGED <<temp, dest, spc, try, file_hash, c2s>>
      BY <2>5 DEF Clean, CleanDelete, Hangup, disk, sessions
    <3>3. Settled
      BY <2>1, <3>1, <3>2 DEF HeldInv, Sent
    <3> QED
      BY <3>2, <3>3, SettledClient
  <2>6. CASE ~HashMatches /\ ~Acknowledged /\ ~DontNeedOverwrite /\ ~Clean /\ ~CleanDelete
    BY <1>1, <2>6 DEF ClientActs, Client, Connect, ConnectFail, GetHash, PutRequest, HashError,
       StartSending, PutRefused, SendBlock, SentAll, SendReadError, Rejected, NoAnswer,
       NextBlock, Hangup, ErrorFrame
  <2> QED
    BY <2>2, <2>3, <2>4, <2>5, <2>6
<1>2. ASSUME NEW k \in Attempts, SessionActs(k)
      PROVE  Sent'
  <2> SUFFICES ASSUME ~objErr', overwrite', cpc' \in {"clean", "clean_del"} \/ (cpc' = "done" /\ result')
               PROVE  Settled'
    BY DEF Sent
  <2>1. UNCHANGED <<cpc, try, result, objErr, overwrite>> /\ spc[k] \in Live
    BY <1>2, SessionFrame DEF client, source
  <2>2. ~objErr /\ overwrite /\ (cpc \in {"clean", "clean_del"} \/ (cpc = "done" /\ result))
    BY <2>1
  <2>3. k = try
    BY <2>1, <2>2 DEF HeldInv, OnlyTry, Working, Live, Writing
  <2> QED
    BY <1>2, <2>2, <2>3, SettledSession DEF HeldInv, Sent
<1>3. CASE SourceChange \/ DestMade \/ Crash \/ (\E k \in Attempts : Break(k)) \/ UNCHANGED vars
  <2>1. /\ UNCHANGED <<cpc, try, file_hash, objErr, result, temp, overwrite>>
        /\ dest' = dest \/ dest = NoFile
        /\ c2s'[try] \in {c2s[try], <<>>} /\ spc'[try] \in {spc[try], "ended"}
    BY <1>0, <1>3, EnvironmentFrame
  <2>2. Settled => Settled'
    BY <2>1 DEF Settled, Writing
  <2> QED
    BY <2>1, <2>2 DEF HeldInv, Sent
<1> QED
  BY <1>1, <1>2, <1>3, Steps

\* What the client reports as sent is held: when a job ends well and without
\* an error of the file, the content it hashed is the destination or still the
\* temporary file, although the server answers before CopyFile and an attempt
\* that was given up may leave anything on its connection (do_put_file,
\* clientjob.cpp 1549-1640; command_put_file, mainclass.cpp 913-975).
THEOREM PutSuccessMeansHeld == ASSUME ~Overlap PROVE Spec => []SuccessMeansHeld
<1>1. Init => HeldInv
  <2> SUFFICES ASSUME Init PROVE HeldInv
    OBVIOUS
  <2>1. OnlyTry /\ Offered /\ Refused
    BY DEF Init, OnlyTry, Offered, Refused, Working
  <2>2. Sent
    BY DEF Init, Sent
  <2> QED
    BY <2>1, <2>2 DEF HeldInv
<1>2. IType /\ VerifiedInv /\ HeldInv /\ [Next]_vars => HeldInv'
  BY OnlyTryStep, OfferedStep, RefusedStep, SentStep DEF HeldInv
<1>3. HeldInv => SuccessMeansHeld
  BY DEF HeldInv, Sent, Settled, SuccessMeansHeld
<1> QED
  BY <1>1, <1>2, <1>3, VerifiedAlways, PTL DEF Spec
-----------------------------------------------------------------------------
(* When nothing goes wrong the file is delivered, whatever its size.       *)

\* The session has written the first p of the n blocks the client has sent,
\* and the others are on their way.
Flow(n) ==
  LET p == n - Len(c2s[1])
  IN  /\ spc[1] = "recv" /\ req[1] = file_hash
      /\ n * BlockSize < Len(src) + BlockSize
      /\ p >= 0 /\ p * BlockSize < Len(src)
      /\ off[1] = p * BlockSize /\ left[1] = Len(src) - p * BlockSize
      /\ temp = SubSeq(src, 1, p * BlockSize)
      /\ \A i \in DOMAIN c2s[1] : c2s[1][i] = Frame("data", Piece(src, p + i - 1), 0)

\* The session has received the whole file and sent the answers ans.
Whole(ans) ==
  /\ c2s[1] = <<>> /\ req[1] = file_hash
  /\ \/ spc[1] = "check" /\ temp = file_hash /\ s2c[1] = ans
     \/ /\ s2c[1] = Append(ans, Frame("ok", NoFile, 0))
        /\ \/ spc[1] \in {"copy", "copying"} /\ temp = file_hash
           \/ spc[1] \in {"delete", "idle"} /\ dest = file_hash

\* The client is through: the file is there, or may not be replaced.
Through ==
  /\ c2s[1] = <<>>
  /\ \/ spc[1] \in {"copy", "copying"} /\ temp = file_hash
     \/ spc[1] = "delete" /\ dest = file_hash
     \/ spc[1] \in {"idle", "ended"} /\ (overwrite => dest = file_hash)

Start == Frame("start", NoFile, 0)

\* The stages of the only attempt, by the place of the client.
Before ==
  /\ cpc \in {"connect", "hash"} /\ src \in Content /\ temp = NoFile
  /\ c2s[1] = <<>> /\ s2c[1] = <<>>
  /\ cpc = "connect" => spc[1] = "none"
  /\ cpc = "hash" => spc[1] = "idle" /\ up[1] /\ ~objErr

Asking ==
  /\ cpc = "wait_hash" /\ spc[1] = "idle" /\ temp = NoFile
  /\ \/ c2s[1] = <<Frame("get_hash", NoFile, 0)>> /\ s2c[1] = <<>>
     \/ c2s[1] = <<>> /\ dest = NoFile /\ s2c[1] = <<Frame("not_found", NoFile, 0)>>
     \/ c2s[1] = <<>> /\ dest # NoFile /\ s2c[1] = <<Frame("hash", dest, 0)>>

Offering ==
  /\ cpc = "wait_start"
  /\ \/ /\ spc[1] = "idle" /\ temp = NoFile /\ s2c[1] = <<>>
        /\ c2s[1] = <<Frame("put_file", src, Len(src))>>
     \/ /\ spc[1] = "idle" /\ ~overwrite /\ c2s[1] = <<>>
        /\ s2c[1] = <<Frame("dont_need", NoFile, 0)>>
     \/ src # <<>> /\ s2c[1] = <<Start>> /\ Flow(0)
     \/ src = <<>> /\ Whole(<<Start>>)

Sending ==
  /\ cpc = "send" /\ src # <<>> /\ pages = Len(src) \div BlockSize /\ blk <= pages
  /\ \/ s2c[1] = <<>> /\ Flow(blk)
     \/ blk * BlockSize = Len(src) /\ Whole(<<>>)

Awaiting ==
  /\ cpc = "wait_ack"
  /\ \/ s2c[1] = <<>> /\ blk * BlockSize >= Len(src) /\ Flow(blk)
     \/ Whole(<<>>)

Ending ==
  /\ Through
  /\ \/ cpc \in {"clean", "clean_del"} /\ up[1]
     \/ cpc = "done" /\ result

\* Only the session of the first attempt lives.
Single == try = 1 /\ \A k \in Attempts \ {1} : spc[k] = "none"

Stage ==
  \/ Before
  \/ /\ up[1] /\ ~objErr /\ src \in Content /\ file_hash = src
     /\ Asking \/ Offering \/ Sending \/ Awaiting
  \/ ~objErr /\ file_hash \in Content /\ Ending

Straight == faults = 0 => Single /\ Stage

\* A step that is no fault leaves the count of faults alone.
LEMMA FaultCounted ==
  ASSUME IType, [Next]_vars, faults' = 0
  PROVE  /\ ~Fault /\ faults = 0
         /\ \/ Client
            \/ \E k \in Attempts : Session(k)
            \/ UNCHANGED vars
<1>1. faults \in Nat
  BY ConstantTypes DEF IType, TypeOK
<1>2. ~Fault
  BY <1>1 DEF Fault
<1>3. Client \/ (\E k \in Attempts : Session(k)) \/ UNCHANGED vars
  BY <1>2 DEF Next, Environment, Finished, ConnectFail, SendReadError, NoAnswer, SourceChange,
     DestMade, Crash, Break, SrvWriteError
<1>4. faults' = faults
  <2>1. CASE Client
    BY <1>2, <2>1 DEF Client, Connect, GetHash, HashMatches, PutRequest, HashError, StartSending,
       DontNeedOverwrite, PutRefused, SendBlock, SentAll, SendReadError, Acknowledged, Rejected,
       NoAnswer, Clean, CleanDelete
  <2>2. ASSUME NEW k \in Attempts, Session(k)
        PROVE  faults' = faults
    BY <1>2, <2>2 DEF Session, SrvGetHash, SrvNoOverwrite, SrvTempBusy, SrvPutFile, SrvReceive,
       SrvErrorHeader, SrvBadStream, SrvInvalidCommand, SrvCheck, SrvCopy, SrvCopied, SrvCopyFail,
       SrvDelete, SrvGiveUp
  <2>3. CASE UNCHANGED vars
    BY <2>3 DEF vars
  <2> QED
    BY <1>3, <2>1, <2>2, <2>3
<1> QED
  BY <1>2, <1>3, <1>4

\* Of several sessions the first takes the step, and no other is in its way.
LEMMA SingleSession ==
  ASSUME IType, Single, NEW k \in Attempts, Session(k)
  PROVE  /\ k = 1 /\ Single' /\ 1 \in Attempts
         /\ UNCHANGED <<source, client>>
         /\ ~ \E j \in Attempts \ {1} : spc[j] \in Writing \cup {"copying"}
<1>1. SessionActs(k)
  BY DEF SessionActs
<1>2. k = 1
  BY <1>1, SessionFrame DEF Single, Live
<1>3. Single'
  BY <1>1, <1>2, SessionFrame DEF Single, client
<1> QED
  BY <1>1, <1>2, <1>3, SessionFrame DEF Single, Writing

\* Session 1 has no input and its connection is up: it waits.
LEMMA IdleWaits ==
  ASSUME IType, Single, c2s[1] = <<>>, spc[1] = "idle", up[1]
  PROVE  ~Session(1)
BY DEF Session, SrvGetHash, SrvNoOverwrite, SrvTempBusy, SrvPutFile, SrvReceive, SrvErrorHeader,
   SrvBadStream, SrvInvalidCommand, SrvCheck, SrvCopy, SrvCopied, SrvCopyFail, SrvDelete, SrvGiveUp,
   HasBlock, Writing

\* The session at its check.
LEMMA CheckStep ==
  ASSUME IType, Single, ~Fault, Session(1), spc[1] = "check", c2s[1] = <<>>, up[1],
         req[1] = file_hash, temp = file_hash
  PROVE  /\ c2s'[1] = <<>> /\ UNCHANGED <<temp, req, up>>
         /\ spc'[1] = "copy" /\ s2c'[1] = Append(s2c[1], Frame("ok", NoFile, 0))
<1>1. SrvCheck(1)
  BY DEF Session, SrvGetHash, SrvNoOverwrite, SrvTempBusy, SrvPutFile, SrvReceive, SrvErrorHeader,
     SrvBadStream, SrvInvalidCommand, SrvCheck, SrvCopy, SrvCopied, SrvCopyFail, SrvDelete, SrvGiveUp,
     HasBlock, Writing
<1>2. 1 \in Attempts
  BY ConstantTypes DEF Attempts
<1> QED
  BY <1>1, <1>2, Channels DEF SrvCheck, Goto, Sends, disk

\* The session between its check and its commands, on any connection.
LEMMA CopyStep ==
  ASSUME IType, Single, ~Fault, Session(1), c2s[1] = <<>>,
         file_hash \in Content,
         \/ spc[1] \in {"copy", "copying"} /\ temp = file_hash
         \/ spc[1] = "delete" /\ dest = file_hash
  PROVE  /\ UNCHANGED <<c2s, s2c, up, req>>
         /\ \/ spc'[1] \in {"copy", "copying"} /\ temp' = file_hash
            \/ spc'[1] \in {"delete", "idle"} /\ dest' = file_hash
<1>1. SrvCopy(1) \/ SrvCopied(1) \/ SrvCopyFail(1) \/ SrvDelete(1)
  BY DEF Session, SrvGetHash, SrvNoOverwrite, SrvTempBusy, SrvPutFile, SrvReceive, SrvErrorHeader,
     SrvBadStream, SrvInvalidCommand, SrvCheck, SrvGiveUp, HasBlock, Writing
<1>2. 1 \in Attempts
  BY ConstantTypes DEF Attempts
<1>3. ~SrvCopyFail(1)
  BY <1>2, ConstantTypes DEF SrvCopyFail, Single
<1> QED
  BY <1>1, <1>2, <1>3, Channels DEF SrvCopy, SrvCopied, SrvDelete, Goto, net

LEMMA WholeStep ==
  ASSUME IType, Single, ~Fault, Session(1), up[1], file_hash \in Content, NEW ans, Whole(ans)
  PROVE  Whole(ans)'
<1>1. UNCHANGED client /\ c2s[1] = <<>> /\ req[1] = file_hash /\ 1 \in Attempts
  BY SingleSession, ConstantTypes DEF Whole, Attempts
<1>2. CASE spc[1] = "check"
  BY <1>1, <1>2, CheckStep DEF Whole, client
<1>3. CASE spc[1] \in {"copy", "copying", "delete"}
  BY <1>1, <1>3, CopyStep DEF Whole, client
<1>4. CASE spc[1] = "idle"
  BY <1>1, <1>4, IdleWaits
<1> QED
  BY <1>2, <1>3, <1>4 DEF Whole

LEMMA ThroughStep ==
  ASSUME IType, Single, ~Fault, Session(1), file_hash \in Content, Through
  PROVE  Through'
<1>1. UNCHANGED <<source, client>> /\ c2s[1] = <<>> /\ 1 \in Attempts
  BY SingleSession, ConstantTypes DEF Through, Attempts
<1>2. CASE spc[1] \in {"copy", "copying", "delete"}
  BY <1>1, <1>2, CopyStep DEF Through, client, source
<1>3. CASE spc[1] \in {"idle", "ended"}
  <2>1. SrvGiveUp(1)
    BY <1>1, <1>3 DEF Session, SrvGetHash, SrvNoOverwrite, SrvTempBusy, SrvPutFile, SrvReceive,
       SrvErrorHeader, SrvBadStream, SrvInvalidCommand, SrvCheck, SrvCopy, SrvCopied, SrvCopyFail,
       SrvDelete, HasBlock
  <2>2. c2s'[1] = <<>> /\ spc'[1] = "ended" /\ UNCHANGED <<temp, dest>>
    BY <1>1, <2>1, Channels DEF SrvGiveUp, EndSession, Goto, disk
  <2> QED
    BY <1>1, <1>3, <2>2 DEF Through, client, source
<1> QED
  BY <1>2, <1>3 DEF Through

\* Before anything is asked: the client connects and takes the hash.
LEMMA BeforeStep ==
  ASSUME IType, Single, ~Fault, Before, Client \/ Session(1)
  PROVE  try' = 1 /\ Stage'
<1>0. 1 \in Attempts /\ NoFile \notin Content
  BY ConstantTypes DEF Attempts
<1>1. ~Session(1)
  BY IdleWaits DEF Before, Session, SrvGetHash, SrvNoOverwrite, SrvTempBusy, SrvPutFile, SrvReceive,
     SrvErrorHeader, SrvBadStream, SrvInvalidCommand, SrvCheck, SrvCopy, SrvCopied, SrvCopyFail,
     SrvDelete, SrvGiveUp, HasBlock, Writing
<1>2. Connect \/ GetHash
  BY <1>1 DEF Before, Client, HashMatches, PutRequest, HashError, StartSending, DontNeedOverwrite,
     PutRefused, SendBlock, SentAll, SendReadError, Acknowledged, Rejected, NoAnswer, Clean,
     CleanDelete, Waiting
<1>3. CASE Connect
  <2>1. up'[1] /\ spc'[1] = "idle" /\ ~objErr' /\ try' = 1
    BY <1>0, <1>3, Channels DEF Connect, Single, IType, TypeOK, NetTypes
  <2>2. UNCHANGED <<src, temp, c2s, s2c>> /\ cpc' = "hash"
    BY <1>3 DEF Connect, source, disk
  <2> QED
    BY <2>1, <2>2 DEF Before, Stage
<1>4. CASE GetHash
  <2>1. cpc = "hash" /\ up[try] /\ src \in Content /\ spc[1] = "idle" /\ ~objErr
    BY <1>4 DEF Before, Single, GetHash
  <2>2. /\ file_hash' = src /\ cpc' = "wait_hash" /\ UNCHANGED <<src, temp, spc, try, objErr, s2c, up>>
        /\ c2s' = Sends(c2s, 1, Frame("get_hash", NoFile, 0)) /\ up[1]
    BY <1>0, <1>4, <2>1 DEF GetHash, source, disk, sessions, Single
  <2>3. c2s'[1] = <<Frame("get_hash", NoFile, 0)>> /\ s2c'[1] = <<>>
    <3>1. c2s[1] = <<>> /\ s2c[1] = <<>>
      BY DEF Before
    <3> QED
      BY <1>0, <2>2, <3>1, Channels DEF Sends
  <2>4. Asking'
    BY <2>1, <2>2, <2>3 DEF Asking, Before
  <2> QED
    BY <2>1, <2>2, <2>4 DEF Stage, Single
<1> QED
  BY <1>2, <1>3, <1>4

\* The offer.
LEMMA OfferStep ==
  ASSUME IType, Single, up[1], ~objErr, src \in Content, file_hash = src, Asking,
         PutRequest, c2s[1] = <<>>, Tail(s2c[1]) = <<>>
  PROVE  try' = 1 /\ Stage'
<1>0. 1 \in Attempts /\ NoFile \notin Content
  BY ConstantTypes DEF Attempts
<1>1. /\ cpc' = "wait_start" /\ s2c' = [s2c EXCEPT ![1] = Tail(@)]
      /\ c2s' = Sends(c2s, 1, Frame("put_file", file_hash, Len(src)))
      /\ UNCHANGED <<src, file_hash, temp, spc, try, objErr, up>>
  BY <1>0 DEF PutRequest, TakeAnswer, Single, source, disk, sessions
<1>2. c2s'[1] = <<Frame("put_file", src, Len(src))>> /\ s2c'[1] = <<>>
  BY <1>0, <1>1, Channels DEF Sends
<1>3. Offering'
  BY <1>1, <1>2 DEF Offering, Asking
<1> QED
  BY <1>1, <1>3 DEF Stage, Single

\* The hash is asked, answered and compared.
LEMMA AskingStep ==
  ASSUME IType, Single, ~Fault, up[1], ~objErr, src \in Content, file_hash = src, Asking,
         Client \/ Session(1)
  PROVE  try' = 1 /\ Stage'
<1>0. 1 \in Attempts /\ NoFile \notin Content
  BY ConstantTypes DEF Attempts
<1>1. CASE Session(1)
  <2>1. c2s[1] = <<Frame("get_hash", NoFile, 0)>> /\ s2c[1] = <<>>
    BY <1>1, IdleWaits DEF Asking
  <2>2. Input(1).kind = "get_hash" /\ spc[1] = "idle" /\ Tail(c2s[1]) = <<>> /\ c2s[1] # <<>>
    BY <2>1 DEF Input, Frame, Asking
  <2>3. SrvGetHash(1)
    BY <1>1, <2>2 DEF Session, SrvNoOverwrite, SrvTempBusy, SrvPutFile, SrvReceive, SrvErrorHeader,
       SrvBadStream, SrvInvalidCommand, SrvCheck, SrvCopy, SrvCopied, SrvCopyFail, SrvDelete,
       SrvGiveUp, HasBlock, Writing
  <2>4. \A j \in Attempts : spc[j] # "copying"
    BY <2>2 DEF Single
  <2>5. PICK m \in {Frame("not_found", NoFile, 0), Frame("hash", dest, 0)} :
          /\ Reply(1, m, "idle", "ended")
          /\ dest = NoFile => m = Frame("not_found", NoFile, 0)
          /\ dest # NoFile => m = Frame("hash", dest, 0)
    BY <2>3, <2>4 DEF SrvGetHash
  <2>6. /\ spc' = [spc EXCEPT ![1] = "idle"] /\ c2s' = [c2s EXCEPT ![1] = Tail(@)]
        /\ s2c' = [s2c EXCEPT ![1] = Append(@, m)] /\ UNCHANGED up
    BY <2>5 DEF Reply, Goto, TakeInput, Sends
  <2>7. spc'[1] = "idle" /\ c2s'[1] = <<>> /\ s2c'[1] = <<m>>
    BY <1>0, <2>1, <2>2, <2>6, Channels
  <2>8. UNCHANGED <<source, client, temp, dest>>
    BY <2>3 DEF SrvGetHash, disk
  <2>9. Asking'
    <3>1. CASE dest = NoFile
      BY <2>5, <2>7, <2>8, <3>1 DEF Asking, client
    <3>2. CASE dest # NoFile
      BY <2>5, <2>7, <2>8, <3>2 DEF Asking, client
    <3> QED
      BY <3>1, <3>2
  <2> QED
    BY <2>6, <2>8, <2>9 DEF Stage, client, source, Single
<1>2. CASE Client
  <2>1. HashMatches \/ PutRequest \/ HashError \/ NoAnswer(FALSE)
    BY <1>2 DEF Asking, Client, Connect, GetHash, StartSending, DontNeedOverwrite, PutRefused,
       SendBlock, SentAll, SendReadError, Acknowledged, Rejected, Clean, CleanDelete
  <2>2. ~NoAnswer(FALSE)
    <3>1. s2c[1] = <<>> => c2s[1] # <<>> /\ spc[1] = "idle"
      <4>1. /\ <<Frame("get_hash", NoFile, 0)>> # <<>>
            /\ <<Frame("not_found", NoFile, 0)>> # <<>> /\ <<Frame("hash", dest, 0)>> # <<>>
        BY TwoFrames
      <4> QED
        BY <4>1 DEF Asking
    <3> QED
      BY <3>1 DEF NoAnswer, Stuck, Starved, Single
  <2>3. CASE s2c[1] = <<>>
    BY <2>1, <2>2, <2>3 DEF HashMatches, PutRequest, HashError, Single
  <2>4. CASE /\ c2s[1] = <<>> /\ dest = NoFile /\ s2c[1] = <<Frame("not_found", NoFile, 0)>>
    <3>1. Answer.kind = "not_found" /\ Tail(s2c[1]) = <<>>
      BY <2>4 DEF Answer, Frame, Single
    <3> QED
      BY <2>1, <2>2, <2>4, <3>1, OfferStep DEF HashMatches, HashError
  <2>5. CASE /\ c2s[1] = <<>> /\ dest # NoFile /\ s2c[1] = <<Frame("hash", dest, 0)>>
    <3>1. Answer.kind = "hash" /\ Answer.data = dest /\ Tail(s2c[1]) = <<>>
      BY <2>5 DEF Answer, Frame, Single
    <3>2. CASE HashMatches
      <4>1. /\ dest = file_hash /\ cpc' = "clean" /\ UNCHANGED <<temp, dest, spc, c2s, up, file_hash>>
            /\ UNCHANGED <<try, objErr, overwrite>>
        BY <3>1, <3>2 DEF HashMatches, PostProcess, disk, sessions
      <4>2. Through'
        BY <2>5, <4>1 DEF Through, Asking
      <4> QED
        BY <4>1, <4>2 DEF Ending, Stage, Single
    <3>3. CASE PutRequest
      BY <2>5, <3>1, <3>3, OfferStep
    <3> QED
      BY <2>1, <2>2, <3>1, <3>2, <3>3 DEF HashError
  <2> QED
    BY <2>3, <2>4, <2>5 DEF Asking
<1> QED
  BY <1>1, <1>2

\* The next frame of a flow is the block the session waits for.
LEMMA FlowHead ==
  ASSUME IType, src \in Content, NEW n \in Nat, Flow(n)
  PROVE  /\ n - Len(c2s[1]) \in Nat /\ left[1] > 0 /\ left[1] \in Nat
         /\ c2s[1] # <<>> => /\ Input(1) = Frame("data", Piece(src, n - Len(c2s[1])), 0)
                             /\ Need(1) = Len(Piece(src, n - Len(c2s[1])))
                             /\ Need(1) \in Nat
<1> DEFINE m == Len(c2s[1])
           p == n - m
<1>0. 1 \in Attempts /\ c2s[1] \in Seq(Commands)
  BY ConstantTypes, Channels DEF Attempts
<1>1. m \in Nat /\ p \in Nat /\ Len(src) \in Nat
  BY <1>0, LenProperties DEF Flow, Content, IType, TypeOK, ClientTypes
<1>2. p * BlockSize \in Nat /\ p * BlockSize < Len(src) /\ left[1] = Len(src) - p * BlockSize
  BY <1>1, BlockBounds DEF Flow
<1>3. left[1] > 0 /\ left[1] \in Nat
  BY <1>1, <1>2
<1>4. ASSUME c2s[1] # <<>>
      PROVE  Input(1) = Frame("data", Piece(src, p), 0) /\ Need(1) = Len(Piece(src, p)) /\ Need(1) \in Nat
  <2>1. 1 \in DOMAIN c2s[1] /\ c2s[1][1] = Input(1)
    BY <1>0, <1>4, TailFrames DEF Input
  <2>2. c2s[1][1] = Frame("data", Piece(src, p + 1 - 1), 0)
    BY <2>1 DEF Flow
  <2>3. p + 1 - 1 = p
    BY <1>1
  <2>4. Need(1) = Len(Piece(src, p)) /\ Len(Piece(src, p)) \in Nat
    BY <1>1, <1>2, PieceWritten, LenProperties DEF Need, Content
  <2> QED
    BY <2>1, <2>2, <2>3, <2>4
<1> QED
  BY <1>1, <1>3, <1>4

\* A session that has a frame of the flow is not starved.
LEMMA FlowFed ==
  ASSUME IType, src \in Content, NEW n \in Nat, Flow(n), c2s[1] # <<>>
  PROVE  ~Starved(1)
<1>1. Input(1) = Frame("data", Piece(src, n - Len(c2s[1])), 0) /\ Need(1) \in Nat
      /\ Need(1) = Len(Piece(src, n - Len(c2s[1])))
  BY FlowHead
<1>2. Head(c2s[1]).data = Piece(src, n - Len(c2s[1]))
  BY <1>1 DEF Input, Frame
<1> QED
  BY <1>1, <1>2 DEF Starved, Need

\* The session writes a block: the flow goes on, or was the last.
LEMMA FlowStep ==
  ASSUME IType, Single, ~Fault, up[1], src \in Content, file_hash = src, NEW n \in Nat, Flow(n),
         Session(1), c2s[1] = <<>> => ~(cpc \in Waiting /\ s2c[1] = <<>>)
  PROVE  /\ UNCHANGED <<s2c, up>>
         /\ \/ Flow(n)'
            \/ /\ n * BlockSize >= Len(src) /\ c2s'[1] = <<>> /\ req'[1] = file_hash
               /\ spc'[1] = "check" /\ temp' = file_hash
<1> DEFINE m == Len(c2s[1])
           p == n - m
           e == Edge(src, p + 1)
           d == Piece(src, p)
<1>0. /\ 1 \in Attempts /\ c2s[1] \in Seq(Commands) /\ c2s \in [Attempts -> Seq(Commands)]
      /\ Len(src) \in Nat /\ BlockSize \in Nat \ {0}
      /\ off \in [Attempts -> Nat] /\ left \in [Attempts -> Int]
  BY ConstantTypes, Channels, LenProperties DEF Attempts, Content, IType, TypeOK, ServerTypes
<1>1. /\ p \in Nat /\ m \in Nat /\ n = p + m /\ p * BlockSize < Len(src) /\ p * BlockSize \in Nat
      /\ off[1] = p * BlockSize /\ left[1] = Len(src) - p * BlockSize
      /\ temp = SubSeq(src, 1, p * BlockSize)
      /\ n * BlockSize < Len(src) + BlockSize
      /\ spc[1] = "recv" /\ req[1] = file_hash
  BY <1>0, LenProperties, BlockBounds DEF Flow
<1>2. UNCHANGED <<src, file_hash>>
  BY <1>0, SingleSession DEF source, client
<1>3. c2s[1] # <<>> => Input(1) = Frame("data", d, 0) /\ Need(1) = Len(d) /\ Need(1) \in Nat
  BY FlowHead
<1>4. ~SrvGiveUp(1)
  BY <1>1, FlowFed DEF SrvGiveUp
<1>5. SrvReceive(1) /\ c2s[1] # <<>>
  <2>1. left[1] > 0
    BY <1>0, <1>1
  <2>2. c2s[1] # <<>> => Input(1).kind = "data"
    BY <1>3 DEF Frame
  <2>3. ~SrvErrorHeader(1) /\ ~SrvBadStream(1)
    BY <1>1, <2>1, <2>2 DEF SrvErrorHeader, SrvBadStream
  <2> QED
    BY <1>1, <1>4, <2>3 DEF Session, SrvGetHash, SrvNoOverwrite, SrvTempBusy, SrvPutFile, SrvReceive,
       SrvInvalidCommand, SrvCheck, SrvCopy, SrvCopied, SrvCopyFail, SrvDelete, HasBlock
<1>6. /\ e \in Nat /\ p * BlockSize < e /\ e <= Len(src) /\ d \in Content
      /\ Len(d) = e - p * BlockSize
      /\ WriteAt(SubSeq(src, 1, p * BlockSize), p * BlockSize, d) = SubSeq(src, 1, e)
  BY <1>1, PieceWritten
<1>7. e = Lesser(p * BlockSize + BlockSize, Len(src))
  BY <1>1, BlockOrder DEF Edge
<1>8. Input(1).data = d /\ Need(1) = Len(d) /\ SubSeq(Input(1).data, 1, Need(1)) = d
  BY <1>3, <1>5, <1>6, WholeFile DEF Frame
<1>9. temp' = SubSeq(src, 1, e)
  BY <1>1, <1>5, <1>6, <1>8 DEF SrvReceive
<1>10. c2s'[1] = Tail(c2s[1]) /\ UNCHANGED <<s2c, up, req>>
  <2>1. ~(Len(Input(1).data) > Need(1))
    BY <1>3, <1>5, <1>8
  <2> QED
    BY <1>0, <1>5, <2>1 DEF SrvReceive
<1>11. /\ off'[1] = off[1] + Need(1) /\ left'[1] = left[1] - Need(1)
       /\ spc'[1] = IF left[1] - Need(1) <= 0 THEN "check" ELSE "recv"
  BY <1>0, <1>5, Channels DEF SrvReceive, Goto
<1>12. off'[1] = e /\ left'[1] = Len(src) - e /\ left[1] - Need(1) = Len(src) - e
  <2> DEFINE a == p * BlockSize
             l == Len(src)
  <2>1. a \in Nat /\ off[1] = a /\ left[1] = l - a /\ Need(1) = e - a /\ e \in Nat /\ l \in Nat
    BY <1>0, <1>1, <1>6, <1>8
  <2> HIDE DEF a, l, e
  <2>2. a + (e - a) = e /\ (l - a) - (e - a) = l - e
    BY <2>1
  <2>3. off'[1] = e /\ left'[1] = l - e /\ left[1] - Need(1) = l - e
    BY <1>11, <2>1, <2>2
  <2> QED
    BY <2>3 DEF l
<1>13. /\ Len(c2s'[1]) = m - 1 /\ m # 0
       /\ \A i \in DOMAIN c2s'[1] : i + 1 \in DOMAIN c2s[1] /\ c2s'[1][i] = c2s[1][i + 1]
  BY <1>0, <1>5, <1>10, TailFrames, EmptySeq
<1>14. \A i \in DOMAIN c2s'[1] : c2s'[1][i] = Frame("data", Piece(src, (p + 1) + i - 1), 0)
  <2> SUFFICES ASSUME NEW i \in DOMAIN c2s'[1]
               PROVE  c2s'[1][i] = Frame("data", Piece(src, (p + 1) + i - 1), 0)
    OBVIOUS
  <2>1. i \in Nat
    <3>1. Tail(c2s[1]) \in Seq(Commands)
      BY <1>0, <1>5, HeadTailProperties
    <3> QED
      BY <1>10, <3>1, LenProperties
  <2>2. c2s'[1][i] = Frame("data", Piece(src, p + (i + 1) - 1), 0)
    BY <1>13 DEF Flow
  <2>3. p + (i + 1) - 1 = (p + 1) + i - 1
    BY <1>1, <2>1
  <2> QED
    BY <2>2, <2>3
<1> HIDE DEF m, p, e, d
<1>15. CASE e < Len(src)
  <2>1. e = (p + 1) * BlockSize /\ spc'[1] = "recv"
    BY <1>0, <1>1, <1>6, <1>7, <1>11, <1>12, <1>15, BlockOrder DEF Lesser
  <2>2. n - (m - 1) = p + 1
    BY <1>1
  <2>3. n - Len(c2s'[1]) = p + 1
    BY <1>13, <2>2
  <2>4. (p + 1) * BlockSize < Len(src) /\ p + 1 >= 0
    BY <1>1, <1>15, <2>1
  <2>5. Flow(n)'
    BY <1>1, <1>2, <1>9, <1>10, <1>12, <1>14, <2>1, <2>3, <2>4 DEF Flow
  <2> QED
    BY <1>10, <2>5
<1>16. CASE e = Len(src)
  <2>1. spc'[1] = "check"
    BY <1>0, <1>11, <1>12, <1>16
  <2>2. temp' = src
    BY <1>9, <1>16, WholeFile
  <2>3. (p + 1) * BlockSize >= Len(src)
    BY <1>0, <1>1, <1>7, <1>16, BlockOrder DEF Lesser
  <2>4. n <= p + 1
    <3>1. SUFFICES ASSUME n >= p + 2 PROVE FALSE
      BY <1>1
    <3>2. (p + 2) * BlockSize <= n * BlockSize
      BY <1>1, <3>1, BlockOrder
    <3>3. (p + 2) * BlockSize = (p + 1) * BlockSize + BlockSize
      BY <1>0, <1>1
    <3> DEFINE x == (p + 1) * BlockSize
               y == n * BlockSize
               l == Len(src)
    <3>4. x \in Nat /\ y \in Nat /\ l \in Nat /\ BlockSize \in Nat
      BY <1>0, <1>1, BlockBounds
    <3>5. x + BlockSize <= y
      BY <3>2, <3>3
    <3>6. y < l + BlockSize
      BY <1>1
    <3>7. x >= l
      BY <2>3
    <3> HIDE DEF x, y, l
    <3> QED
      BY <3>4, <3>5, <3>6, <3>7
  <2>5. m - 1 = 0 /\ n = p + 1
    BY <1>1, <1>13, <2>4
  <2>6. c2s'[1] = <<>>
    <3>1. Tail(c2s[1]) \in Seq(Commands)
      BY <1>0, <1>5, HeadTailProperties
    <3> QED
      BY <1>10, <1>13, <2>5, <3>1, EmptySeq
  <2> QED
    BY <1>1, <1>2, <1>10, <2>1, <2>2, <2>3, <2>5, <2>6
<1> QED
  BY <1>0, <1>6, <1>15, <1>16

\* The offer reaches the session: refused, or taken.
LEMMA OfferTaken ==
  ASSUME IType, Single, ~Fault, up[1], src \in Content, file_hash = src, Session(1),
         spc[1] = "idle", temp = NoFile, s2c[1] = <<>>, cpc = "wait_start",
         c2s[1] = <<Frame("put_file", src, Len(src))>>
  PROVE  up'[1] /\ Offering'
<1>0. /\ 1 \in Attempts /\ BlockSize \in Nat \ {0} /\ Len(src) \in Nat /\ (Len(src) = 0 <=> src = <<>>)
      /\ left \in [Attempts -> Int] /\ off \in [Attempts -> Nat]
  BY ConstantTypes, LenProperties, EmptySeq DEF Attempts, Content, IType, TypeOK, ServerTypes
<1>1. /\ Input(1) = Frame("put_file", src, Len(src)) /\ Tail(c2s[1]) = <<>> /\ c2s[1] # <<>>
      /\ Input(1).kind = "put_file" /\ Input(1).data = src /\ Input(1).n = Len(src)
  BY DEF Input, Frame
<1>2. UNCHANGED <<src, overwrite, file_hash, cpc>>
  BY <1>0, SingleSession DEF source, client
<1>3. \A j \in Attempts : spc[j] \notin Writing \cup {"copying"}
  BY <1>0, SingleSession DEF Writing
<1>4. SrvNoOverwrite(1) \/ SrvPutFile(1)
  BY <1>1, <1>3 DEF Session, SrvGetHash, SrvTempBusy, SrvReceive, SrvErrorHeader,
     SrvBadStream, SrvInvalidCommand, SrvCheck, SrvCopy, SrvCopied, SrvCopyFail, SrvDelete,
     SrvGiveUp, HasBlock, Writing
<1>5. CASE SrvNoOverwrite(1)
  <2>1. /\ spc' = [spc EXCEPT ![1] = "idle"] /\ c2s' = [c2s EXCEPT ![1] = Tail(@)]
        /\ s2c' = [s2c EXCEPT ![1] = Append(@, Frame("dont_need", NoFile, 0))] /\ UNCHANGED up
    BY <1>5 DEF SrvNoOverwrite, Reply, Goto, TakeInput, Sends
  <2>2. spc'[1] = "idle" /\ c2s'[1] = <<>> /\ s2c'[1] = <<Frame("dont_need", NoFile, 0)>> /\ up'[1]
    BY <1>0, <1>1, <2>1, Channels
  <2>3. ~overwrite
    BY <1>5 DEF SrvNoOverwrite, MayReplace
  <2> QED
    BY <1>2, <2>2, <2>3 DEF Offering
<1>6. CASE SrvPutFile(1)
  <2>0. StartBlock(<<>>) = 0 /\ 0 * BlockSize = 0
    BY <1>0, ConstantTypes DEF StartBlock
  <2> DEFINE s == IF Len(src) = 0 THEN "check" ELSE "recv"
  <2>1. /\ temp' = <<>> /\ req' = [req EXCEPT ![1] = src]
        /\ left' = [left EXCEPT ![1] = Len(src) - 0 * BlockSize]
        /\ off' = [off EXCEPT ![1] = 0 * BlockSize]
        /\ Reply(1, Frame("start", NoFile, 0), s, "ended")
    BY <1>1, <1>6, <2>0 DEF SrvPutFile
  <2>2. /\ spc' = [spc EXCEPT ![1] = s] /\ c2s' = [c2s EXCEPT ![1] = Tail(@)]
        /\ s2c' = [s2c EXCEPT ![1] = Append(@, Start)] /\ UNCHANGED up
    BY <2>1 DEF Reply, Goto, TakeInput, Sends, Start
  <2>3. /\ spc'[1] = s /\ c2s'[1] = <<>> /\ s2c'[1] = <<Start>> /\ up'[1] /\ req'[1] = src
        /\ left'[1] = Len(src) - 0 * BlockSize /\ off'[1] = 0 * BlockSize
    BY <1>0, <1>1, <2>1, <2>2, Channels
  <2>4. CASE src = <<>>
    BY <1>0, <1>2, <2>1, <2>3, <2>4 DEF Offering, Whole
  <2>5. CASE src # <<>>
    <3>1. /\ 0 - Len(c2s'[1]) = 0 /\ 0 * BlockSize < Len(src)
          /\ 0 * BlockSize < Len(src) + BlockSize
      <4>1. Len(c2s'[1]) = 0 /\ Len(src) > 0
        BY <1>0, <2>3, <2>5, EmptySeq
      <4> QED
        BY <1>0, <2>0, <4>1
    <3>2. temp' = SubSeq(src, 1, 0 * BlockSize)
      BY <2>0, <2>1, WholeFile
    <3>3. Flow(0)'
      BY <1>0, <1>2, <2>3, <2>5, <3>1, <3>2 DEF Flow
    <3> QED
      BY <1>2, <2>3, <2>5, <3>3 DEF Offering
  <2> QED
    BY <2>4, <2>5
<1> QED
  BY <1>4, <1>5, <1>6

LEMMA OfferingStep ==
  ASSUME IType, Single, ~Fault, up[1], ~objErr, src \in Content, file_hash = src, Offering,
         Client \/ Session(1)
  PROVE  try' = 1 /\ Stage'
<1>0. 1 \in Attempts /\ NoFile \notin Content
  BY ConstantTypes DEF Attempts
<1>1. CASE Session(1)
  <2>1. UNCHANGED <<source, client>>
    BY <1>0, <1>1, SingleSession
  <2>2. up'[1] /\ Offering'
    <3>1. CASE /\ spc[1] = "idle" /\ temp = NoFile /\ s2c[1] = <<>>
               /\ c2s[1] = <<Frame("put_file", src, Len(src))>>
      BY <1>1, <3>1, OfferTaken DEF Offering
    <3>2. CASE spc[1] = "idle" /\ c2s[1] = <<>>
      BY <1>1, <3>2, IdleWaits
    <3>3. CASE src # <<>> /\ s2c[1] = <<Start>> /\ Flow(0)
      <4>1. CASE Flow(0)' /\ UNCHANGED <<s2c, up>>
        BY <2>1, <3>3, <4>1 DEF Offering, source, client
      <4>2. 0 * BlockSize = 0 /\ Len(src) \in Nat /\ Len(src) # 0
        BY <3>3, BlockOrder, LenProperties, EmptySeq DEF Content
      <4>3. ~(0 * BlockSize >= Len(src))
        BY <4>2
      <4> QED
        BY <1>1, <3>3, <4>1, <4>3, FlowStep
    <3>4. CASE src = <<>> /\ Whole(<<Start>>)
      <4>1. Whole(<<Start>>)' /\ up' = up
        <5>1. Whole(<<Start>>)'
          BY <1>1, <3>4, WholeStep
        <5>2. up' = up
          BY <1>1, <3>4, IdleWaits, CheckStep, CopyStep DEF Whole
        <5> QED
          BY <5>1, <5>2
      <4> QED
        BY <2>1, <3>4, <4>1 DEF Offering, source, client
    <3> QED
      BY <3>1, <3>2, <3>3, <3>4 DEF Offering
  <2> QED
    BY <2>1, <2>2 DEF Stage, source, client, Single
<1>2. CASE Client
  <2>1. StartSending \/ DontNeedOverwrite \/ PutRefused \/ NoAnswer(FALSE)
    BY <1>2 DEF Offering, Client, Connect, GetHash, HashMatches, PutRequest, HashError,
       SendBlock, SentAll, SendReadError, Acknowledged, Rejected, Clean, CleanDelete
  <2>2. CASE /\ spc[1] = "idle" /\ s2c[1] = <<>>
             /\ c2s[1] = <<Frame("put_file", src, Len(src))>>
    <3>1. c2s[1] # <<>>
      BY <2>2
    <3> QED
      BY <2>1, <2>2, <3>1 DEF StartSending, DontNeedOverwrite, PutRefused, NoAnswer, Stuck, Starved,
         Single
  <2>3. CASE spc[1] = "idle" /\ ~overwrite /\ c2s[1] = <<>> /\ s2c[1] = <<Frame("dont_need", NoFile, 0)>>
    <3>1. s2c[1] # <<>> /\ Answer.kind = "dont_need"
      BY <2>3 DEF Answer, Frame, Single
    <3>2. DontNeedOverwrite
      BY <2>1, <3>1 DEF StartSending, PutRefused, NoAnswer, Single
    <3>3. /\ cpc' = "clean" /\ UNCHANGED <<temp, dest, spc, c2s, up, file_hash, try, objErr, overwrite>>
      BY <3>2 DEF DontNeedOverwrite, source, disk, sessions
    <3>4. Through'
      BY <2>3, <3>3 DEF Through
    <3> QED
      BY <3>3, <3>4 DEF Ending, Stage, Single
  <2>4. CASE (src # <<>> /\ s2c[1] = <<Start>> /\ Flow(0)) \/ (src = <<>> /\ Whole(<<Start>>))
    <3>0. Start.kind = "start" /\ Start.n = 0
      BY DEF Frame, Start
    <3>1. s2c[1] \in {<<Start>>, <<Start, Frame("ok", NoFile, 0)>>}
      BY <2>4, TwoFrames DEF Whole
    <3>2. Answer = Start /\ s2c[1] # <<>>
      BY <3>1, TwoFrames DEF Answer, Single
    <3>3. StartSending
      BY <2>1, <3>2, <3>0 DEF DontNeedOverwrite, PutRefused, NoAnswer, Single
    <3>4. /\ UNCHANGED <<src, temp, dest, spc, req, left, off, c2s, up, file_hash, try, objErr>>
          /\ s2c' = [s2c EXCEPT ![1] = Tail(@)]
      BY <3>3 DEF StartSending, TakeAnswer, Single, source, disk, sessions
    <3>5. s2c'[1] = Tail(s2c[1])
      BY <1>0, <3>4, Channels
    <3>6. CASE src # <<>> /\ s2c[1] = <<Start>> /\ Flow(0)
      <4>1. s2c'[1] = <<>> /\ cpc' = "send" /\ pages' = Len(src) \div BlockSize /\ blk' = 0
        BY <3>2, <3>3, <3>5, <3>6, <3>0, TwoFrames DEF StartSending
      <4>2. 0 <= Len(src) \div BlockSize
        BY BlockBounds, LenProperties DEF Content
      <4>3. Flow(blk)'
        BY <3>4, <3>6, <4>1 DEF Flow
      <4>4. Sending'
        BY <3>4, <3>6, <4>1, <4>2, <4>3 DEF Sending
      <4> QED
        BY <3>4, <4>4 DEF Stage, Single
    <3>7. CASE src = <<>> /\ Whole(<<Start>>)
      <4>1. cpc' = "wait_ack"
        BY <3>3, <3>7 DEF StartSending
      <4>2. Whole(<<>>)'
        <5>1. CASE spc[1] = "check" /\ temp = file_hash /\ s2c[1] = <<Start>>
          BY <3>4, <3>5, <3>7, <5>1, TwoFrames DEF Whole
        <5>2. CASE s2c[1] = Append(<<Start>>, Frame("ok", NoFile, 0))
          <6>1. /\ Append(<<Start>>, Frame("ok", NoFile, 0)) = <<Start, Frame("ok", NoFile, 0)>>
                /\ Tail(<<Start, Frame("ok", NoFile, 0)>>) = <<Frame("ok", NoFile, 0)>>
                /\ Append(<<>>, Frame("ok", NoFile, 0)) = <<Frame("ok", NoFile, 0)>>
            BY TwoFrames
          <6>2. s2c'[1] = Append(<<>>, Frame("ok", NoFile, 0))
            BY <3>5, <5>2, <6>1
          <6> QED
            BY <3>4, <3>7, <5>2, <6>2 DEF Whole
        <5> QED
          BY <3>7, <5>1, <5>2 DEF Whole
      <4> QED
        BY <3>4, <4>1, <4>2 DEF Awaiting, Stage, Single
    <3> QED
      BY <2>4, <3>6, <3>7
  <2> QED
    BY <2>2, <2>3, <2>4 DEF Offering
<1> QED
  BY <1>1, <1>2

\* What the client reads next is the next block of the source, if any is left.
LEMMA NextPiece ==
  ASSUME IType, src \in Content, pages = Len(src) \div BlockSize, blk <= pages
  PROVE  /\ blk * BlockSize \in Nat /\ blk * BlockSize <= Len(src)
         /\ blk * BlockSize < Len(src) =>
              /\ NextSize > 0 /\ CanRead
              /\ SubSeq(src, blk * BlockSize + 1, blk * BlockSize + NextSize) = Piece(src, blk)
              /\ blk < pages \/ (blk + 1) * BlockSize >= Len(src)
         /\ blk * BlockSize = Len(src) => ~(NextSize > 0)
<1> DEFINE z == NextSize
<1>1. blk \in Nat /\ blk * BlockSize \in Nat
  BY BlockBounds DEF IType, TypeOK, ClientTypes
<1>2. z = IF blk < Len(src) \div BlockSize THEN BlockSize
          ELSE Len(src) - (Len(src) \div BlockSize) * BlockSize
  BY DEF NextSize
<1>3. CanRead <=> blk * BlockSize + z <= Len(src)
  BY DEF CanRead
<1> HIDE DEF z
<1>4. PICK b \in Nat : b = blk
  BY <1>1
<1>5. /\ z \in Nat
      /\ z > 0 /\ b * BlockSize + z <= Len(src) =>
           /\ SubSeq(src, b * BlockSize + 1, b * BlockSize + z) = Piece(src, b)
           /\ b < pages \/ (b + 1) * BlockSize >= Len(src)
      /\ b * BlockSize <= Len(src)
      /\ b * BlockSize < Len(src) => z > 0 /\ b * BlockSize + z <= Len(src)
      /\ b * BlockSize = Len(src) => z = 0
  BY <1>2, <1>4, BlockRead
<1>6. z = 0 => ~(z > 0)
  OBVIOUS
<1>7. blk * BlockSize < Len(src) => z > 0 /\ CanRead
  BY <1>3, <1>4, <1>5
<1> QED
  BY <1>1, <1>3, <1>4, <1>5, <1>6, <1>7 DEF z

\* A block the client sends joins the flow.
LEMMA FlowJoined ==
  ASSUME IType, src \in Content, NEW n \in Nat, Flow(n), n * BlockSize < Len(src),
         Piece(src, n) \in Content,
         c2s'[1] = Append(c2s[1], Frame("data", Piece(src, n), 0)),
         UNCHANGED <<src, file_hash, temp, spc, req, left, off>>
  PROVE  Flow(n + 1)'
<1> DEFINE m == Len(c2s[1])
           p == n - m
           x == Frame("data", Piece(src, n), 0)
<1>0. c2s[1] \in Seq(Commands) /\ BlockSize \in Nat \ {0} /\ Len(src) \in Nat
  BY ConstantTypes, Channels, LenProperties DEF Attempts, Content
<1>1. m \in Nat /\ p \in Nat /\ x \in Commands
  BY <1>0, LenProperties, FrameTypes DEF Flow
<1>2. Len(c2s'[1]) = m + 1 /\ (n + 1) - (m + 1) = p
  BY <1>0, <1>1, AppendProperties
<1>3. (n + 1) - Len(c2s'[1]) = p
  BY <1>2
<1>4. \A i \in DOMAIN c2s'[1] : c2s'[1][i] = Frame("data", Piece(src, p + i - 1), 0)
  <2> SUFFICES ASSUME NEW i \in DOMAIN c2s'[1]
               PROVE  c2s'[1][i] = Frame("data", Piece(src, p + i - 1), 0)
    OBVIOUS
  <2>1. CASE i \in DOMAIN c2s[1] /\ c2s'[1][i] = c2s[1][i]
    BY <2>1 DEF Flow
  <2>2. CASE i = m + 1 /\ c2s'[1][i] = x
    <3>1. p + i - 1 = n
      BY <1>1, <2>2
    <3> QED
      BY <2>2, <3>1
  <2> QED
    BY <1>0, <1>1, <2>1, <2>2, AppendFrames
<1>5. (n + 1) * BlockSize < Len(src) + BlockSize
  <2> DEFINE y == n * BlockSize
             l == Len(src)
  <2>1. (n + 1) * BlockSize = y + BlockSize /\ y \in Nat /\ l \in Nat /\ y < l /\ BlockSize \in Nat
    BY <1>0, BlockBounds, BlockOrder
  <2> HIDE DEF y, l
  <2>2. y + BlockSize < l + BlockSize
    BY <2>1
  <2> QED
    BY <2>1, <2>2 DEF l
<1>6. /\ spc[1] = "recv" /\ req[1] = file_hash /\ p >= 0 /\ p * BlockSize < Len(src)
      /\ off[1] = p * BlockSize /\ left[1] = Len(src) - p * BlockSize
      /\ temp = SubSeq(src, 1, p * BlockSize)
  BY <1>1 DEF Flow
<1> HIDE DEF m, p, x
<1> QED
  BY <1>3, <1>4, <1>5, <1>6 DEF Flow

LEMMA SendingStep ==
  ASSUME IType, Single, ~Fault, up[1], ~objErr, src \in Content, file_hash = src, Sending,
         Client \/ Session(1)
  PROVE  try' = 1 /\ Stage'
<1>0. 1 \in Attempts /\ blk \in Nat /\ pages \in Nat /\ Len(src) \in Nat
  BY ConstantTypes, LenProperties DEF Attempts, Content, IType, TypeOK, ClientTypes
<1>1. /\ cpc = "send" /\ src # <<>> /\ pages = Len(src) \div BlockSize /\ blk <= pages
      /\ (s2c[1] = <<>> /\ Flow(blk)) \/ (blk * BlockSize = Len(src) /\ Whole(<<>>))
  BY DEF Sending
<1>2. PICK n \in Nat : n = blk
  BY <1>0
<1>3. n * BlockSize \in Nat /\ n * BlockSize <= Len(src)
  BY <1>1, <1>2, NextPiece
<1>4. CASE Session(1)
  <2>1. UNCHANGED <<source, client>>
    BY <1>0, <1>4, SingleSession
  <2>2. CASE s2c[1] = <<>> /\ Flow(blk)
    <3>1. Flow(n)
      BY <1>2, <2>2
    <3>2. /\ UNCHANGED <<s2c, up>>
          /\ \/ Flow(n)'
             \/ /\ n * BlockSize >= Len(src) /\ c2s'[1] = <<>> /\ req'[1] = file_hash
                /\ spc'[1] = "check" /\ temp' = file_hash
      BY <1>1, <1>4, <3>1, FlowStep DEF Waiting
    <3>3. CASE Flow(n)'
      <4>1. Flow(blk)'
        BY <1>2, <2>1, <3>3 DEF Flow, client, source
      <4>2. Sending'
        BY <1>1, <2>1, <2>2, <3>2, <4>1 DEF Sending, client, source
      <4> QED
        BY <2>1, <3>2, <4>2 DEF Stage, client, source, Single
    <3>4. CASE /\ n * BlockSize >= Len(src) /\ c2s'[1] = <<>> /\ req'[1] = file_hash
               /\ spc'[1] = "check" /\ temp' = file_hash
      <4>1. n * BlockSize = Len(src)
        BY <1>0, <1>3, <3>4
      <4>2. Whole(<<>>)'
        BY <2>1, <2>2, <3>2, <3>4 DEF Whole, client
      <4>3. Sending'
        BY <1>1, <1>2, <2>1, <4>1, <4>2 DEF Sending, client, source
      <4> QED
        BY <2>1, <3>2, <4>3 DEF Stage, client, source, Single
    <3> QED
      BY <3>2, <3>3, <3>4
  <2>3. CASE blk * BlockSize = Len(src) /\ Whole(<<>>)
    <3>1. Whole(<<>>)'
      BY <1>4, <2>3, WholeStep
    <3>2. up' = up
      BY <1>4, <2>3, IdleWaits, CheckStep, CopyStep DEF Whole
    <3>3. Sending'
      BY <1>1, <2>1, <2>3, <3>1 DEF Sending, client, source
    <3> QED
      BY <2>1, <3>2, <3>3 DEF Stage, client, source, Single
  <2> QED
    BY <1>1, <2>2, <2>3
<1>5. CASE Client
  <2>1. SendBlock \/ SentAll \/ SendReadError(FALSE)
    BY <1>1, <1>5 DEF Client, Connect, GetHash, HashMatches, PutRequest, HashError, StartSending,
       DontNeedOverwrite, PutRefused, Acknowledged, Rejected, NoAnswer, Clean, CleanDelete, Waiting
  <2>2. CASE SentAll
    <3>1. /\ UNCHANGED <<src, temp, dest, spc, req, left, off, c2s, s2c, up, file_hash, try, objErr, blk>>
          /\ cpc' = "wait_ack" /\ ~(NextSize > 0)
      <4>1. NextSize \in Int
        BY <1>0, ConstantTypes, BlockBounds DEF NextSize
      <4> QED
        BY <2>2, <4>1 DEF SentAll, source, disk, sessions, net
    <3>2. n * BlockSize >= Len(src)
      BY <1>0, <1>1, <1>2, <1>3, <3>1, NextPiece
    <3>3. Flow(blk) => Flow(blk)'
      BY <3>1 DEF Flow
    <3>4. Whole(<<>>) => Whole(<<>>)'
      BY <3>1 DEF Whole
    <3>5. Awaiting'
      BY <1>1, <1>2, <3>1, <3>2, <3>3, <3>4 DEF Awaiting
    <3> QED
      BY <3>1, <3>5 DEF Stage, Single
  <2>3. CASE SendBlock \/ SendReadError(FALSE)
    <3>1. NextSize > 0
      BY <2>3 DEF SendBlock, SendReadError
    <3>2. n * BlockSize < Len(src)
      BY <1>0, <1>1, <1>2, <1>3, <3>1, NextPiece
    <3>3. SendBlock /\ CanRead /\ s2c[1] = <<>> /\ Flow(n)
      BY <1>0, <1>1, <1>2, <1>3, <2>3, <3>2, NextPiece DEF SendReadError
    <3>4. /\ SubSeq(src, blk * BlockSize + 1, blk * BlockSize + NextSize) = Piece(src, n)
          /\ blk < pages \/ (n + 1) * BlockSize >= Len(src)
      BY <1>1, <1>2, <3>2, NextPiece
    <3>5. /\ UNCHANGED <<src, temp, dest, spc, req, left, off, s2c, up, file_hash, try, objErr, pages>>
          /\ c2s' = Sends(c2s, 1, Frame("data", Piece(src, n), 0)) /\ blk' = n + 1
          /\ cpc' = IF blk < pages THEN "send" ELSE "wait_ack"
      BY <1>2, <3>3, <3>4 DEF SendBlock, Single, source, disk, sessions
    <3>6. c2s'[1] = Append(c2s[1], Frame("data", Piece(src, n), 0))
      BY <1>0, <3>5, Channels DEF Sends
    <3>7. Flow(n + 1)'
      <4>1. Piece(src, n) \in Content
        BY <3>2, PieceWritten
      <4> QED
        BY <3>2, <3>3, <3>5, <3>6, <4>1, FlowJoined
    <3>8. Flow(blk)'
      BY <3>5, <3>7 DEF Flow
    <3>9. CASE blk < pages
      <4>1. blk' <= pages
        BY <1>0, <1>2, <3>5, <3>9
      <4>2. Sending'
        BY <1>1, <3>3, <3>5, <3>8, <3>9, <4>1 DEF Sending
      <4> QED
        BY <3>5, <4>2 DEF Stage, Single
    <3>10. CASE ~(blk < pages)
      <4>1. Awaiting'
        BY <3>3, <3>4, <3>5, <3>8, <3>10 DEF Awaiting
      <4> QED
        BY <3>5, <4>1 DEF Stage, Single
    <3> QED
      BY <3>9, <3>10
  <2> QED
    BY <2>1, <2>2, <2>3
<1> QED
  BY <1>4, <1>5

LEMMA AwaitingStep ==
  ASSUME IType, Single, ~Fault, up[1], ~objErr, src \in Content, file_hash = src, Awaiting,
         Client \/ Session(1)
  PROVE  try' = 1 /\ Stage'
<1>0. 1 \in Attempts /\ blk \in Nat /\ Len(src) \in Nat
  BY ConstantTypes, LenProperties DEF Attempts, Content, IType, TypeOK, ClientTypes
<1>1. PICK n \in Nat : n = blk
  BY <1>0
<1>2. ASSUME s2c[1] = <<>>, n * BlockSize >= Len(src), Flow(n)
      PROVE  c2s[1] # <<>>
  <2> SUFFICES ASSUME c2s[1] = <<>> PROVE FALSE
    OBVIOUS
  <2>1. n - Len(c2s[1]) = n
    BY EmptySeq
  <2>2. n * BlockSize < Len(src)
    BY <1>2, <2>1 DEF Flow
  <2>3. n * BlockSize \in Nat
    BY BlockBounds
  <2> QED
    BY <1>0, <1>2, <2>2, <2>3
<1>3. CASE Session(1)
  <2>1. UNCHANGED <<source, client>>
    BY <1>0, <1>3, SingleSession
  <2>2. CASE s2c[1] = <<>> /\ blk * BlockSize >= Len(src) /\ Flow(blk)
    <3>1. Flow(n) /\ n * BlockSize >= Len(src)
      BY <1>1, <2>2
    <3>2. /\ UNCHANGED <<s2c, up>>
          /\ \/ Flow(n)'
             \/ c2s'[1] = <<>> /\ req'[1] = file_hash /\ spc'[1] = "check" /\ temp' = file_hash
      BY <1>2, <1>3, <2>2, <3>1, FlowStep
    <3>3. CASE Flow(n)'
      <4>1. Flow(blk)'
        BY <1>1, <2>1, <3>3 DEF Flow, client, source
      <4>2. Awaiting'
        BY <2>1, <2>2, <3>2, <4>1 DEF Awaiting, client, source
      <4> QED
        BY <2>1, <3>2, <4>2 DEF Stage, client, source, Single
    <3>4. CASE c2s'[1] = <<>> /\ req'[1] = file_hash /\ spc'[1] = "check" /\ temp' = file_hash
      <4>1. Whole(<<>>)'
        BY <2>1, <2>2, <3>2, <3>4 DEF Whole, client
      <4>2. Awaiting'
        BY <2>1, <4>1 DEF Awaiting, client, source
      <4> QED
        BY <2>1, <3>2, <4>2 DEF Stage, client, source, Single
    <3> QED
      BY <3>2, <3>3, <3>4
  <2>3. CASE Whole(<<>>)
    <3>1. Whole(<<>>)'
      BY <1>3, <2>3, WholeStep
    <3>2. up' = up
      BY <1>3, <2>3, IdleWaits, CheckStep, CopyStep DEF Whole
    <3>3. Awaiting'
      BY <2>1, <3>1 DEF Awaiting, client, source
    <3> QED
      BY <2>1, <3>2, <3>3 DEF Stage, client, source, Single
  <2> QED
    BY <2>2, <2>3 DEF Awaiting
<1>4. CASE Client
  <2>1. Acknowledged \/ Rejected \/ NoAnswer(FALSE)
    BY <1>4 DEF Awaiting, Client, Connect, GetHash, HashMatches, PutRequest, HashError, StartSending,
       DontNeedOverwrite, PutRefused, SendBlock, SentAll, SendReadError, Clean, CleanDelete
  <2>2. CASE s2c[1] = <<>>
    <3>1. NoAnswer(FALSE) /\ Stuck(1)
      BY <2>1, <2>2 DEF Acknowledged, Rejected, NoAnswer, Single
    <3>2. Starved(1) /\ spc[1] \in Writing \cup {"idle"}
      BY <3>1 DEF Stuck
    <3>3. CASE blk * BlockSize >= Len(src) /\ Flow(blk)
      <4>1. Flow(n) /\ n * BlockSize >= Len(src)
        BY <1>1, <3>3
      <4> QED
        BY <1>2, <2>2, <3>2, <4>1, FlowFed
    <3>4. CASE Whole(<<>>)
      <4>1. Append(<<>>, Frame("ok", NoFile, 0)) # <<>>
        BY TwoFrames
      <4> QED
        BY <2>2, <3>2, <3>4, <4>1 DEF Whole, Writing
    <3> QED
      BY <3>3, <3>4 DEF Awaiting
  <2>3. CASE s2c[1] # <<>>
    <3>1. Whole(<<>>) /\ s2c[1] = Append(<<>>, Frame("ok", NoFile, 0))
      BY <2>3 DEF Awaiting, Whole
    <3>2. Answer.kind = "ok"
      <4>1. s2c[1] = <<Frame("ok", NoFile, 0)>>
        BY <3>1, TwoFrames
      <4>2. Answer = Frame("ok", NoFile, 0)
        BY <4>1, TwoFrames DEF Answer, Single
      <4> QED
        BY <4>2 DEF Frame
    <3>3. Acknowledged
      BY <2>1, <2>3, <3>2 DEF Rejected, NoAnswer, Single
    <3>4. /\ cpc' = "clean"
          /\ UNCHANGED <<temp, dest, spc, c2s, up, file_hash, try, objErr, overwrite>>
      BY <3>3 DEF Acknowledged, PostProcess, disk, sessions
    <3>5. Through'
      BY <2>3, <3>1, <3>4 DEF Whole, Through
    <3> QED
      BY <3>4, <3>5 DEF Ending, Stage, Single
  <2> QED
    BY <2>2, <2>3
<1> QED
  BY <1>3, <1>4

LEMMA EndingStep ==
  ASSUME IType, Single, ~Fault, ~objErr, file_hash \in Content, Ending, Client \/ Session(1)
  PROVE  try' = 1 /\ Stage'
<1>0. 1 \in Attempts
  BY ConstantTypes DEF Attempts
<1>1. CASE Session(1)
  <2>1. UNCHANGED <<source, client>>
    BY <1>0, <1>1, SingleSession
  <2>2. Through'
    BY <1>1, ThroughStep DEF Ending
  <2>3. cpc \in {"clean", "clean_del"} /\ up[1] => up'[1]
    <3>1. SUFFICES ASSUME up[1], cpc \in {"clean", "clean_del"} PROVE up'[1]
      OBVIOUS
    <3>2. spc[1] # "idle" /\ c2s[1] = <<>>
      BY <1>1, <3>1, IdleWaits DEF Ending, Through
    <3>3. CASE spc[1] \in {"copy", "copying", "delete"}
      BY <1>1, <3>1, <3>2, <3>3, CopyStep DEF Ending, Through
    <3>4. CASE spc[1] = "ended"
      BY <1>0, <1>1, <3>4, SessionFrame DEF SessionActs, Live
    <3> QED
      BY <3>2, <3>3, <3>4 DEF Ending, Through
  <2>4. Ending'
    BY <2>1, <2>2, <2>3 DEF Ending, client
  <2> QED
    BY <2>1, <2>4 DEF Stage, client, Single
<1>2. CASE Client
  <2>1. Clean \/ CleanDelete
    BY <1>2 DEF Ending, Client, Connect, GetHash, HashMatches, PutRequest, HashError, StartSending,
       DontNeedOverwrite, PutRefused, SendBlock, SentAll, SendReadError, Acknowledged, Rejected,
       NoAnswer, Waiting
  <2>2. /\ UNCHANGED <<temp, dest, spc, c2s, file_hash, objErr, overwrite, try>>
        /\ (cpc' = "clean_del" /\ up' = up) \/ (cpc' = "done" /\ result')
    BY <2>1 DEF Clean, CleanDelete, Hangup, source, disk, sessions
  <2>3. Through'
    BY <2>2 DEF Ending, Through
  <2>4. Ending'
    BY <2>1, <2>2, <2>3 DEF Ending, Clean, CleanDelete
  <2> QED
    BY <2>2, <2>4 DEF Stage, Single
<1> QED
  BY <1>1, <1>2

LEMMA StraightStep ==
  ASSUME IType, Straight, [Next]_vars
  PROVE  Straight'
<1> SUFFICES ASSUME faults' = 0 PROVE Single' /\ Stage'
  BY DEF Straight
<1>1. /\ ~Fault /\ Single /\ Stage
      /\ Client \/ (\E k \in Attempts : Session(k)) \/ UNCHANGED vars
  BY FaultCounted DEF Straight
<1>2. CASE UNCHANGED vars
  BY <1>1, <1>2 DEF vars, source, client, disk, sessions, net, Stage, Before, Asking, Offering,
     Sending, Awaiting, Ending, Through, Whole, Flow, Single
<1>3. CASE Client \/ Session(1)
  <2>1. try' = 1 /\ Stage'
    BY <1>1, <1>3, BeforeStep, AskingStep, OfferingStep, SendingStep, AwaitingStep, EndingStep
       DEF Stage
  <2>2. \A k \in Attempts \ {1} : spc'[k] = "none"
    <3>1. CASE Session(1)
      BY <1>1, <3>1, SingleSession, ConstantTypes DEF Single, Attempts
    <3>2. CASE Client
      BY <1>1, <3>2, ClientFrame DEF ClientActs, Single
    <3> QED
      BY <1>3, <3>1, <3>2
  <2> QED
    BY <2>1, <2>2 DEF Single
<1>4. ASSUME NEW k \in Attempts, Session(k)
      PROVE  k = 1
  BY <1>1, <1>4, SingleSession
<1> QED
  BY <1>1, <1>2, <1>3, <1>4

\* A file of any size arrives when nothing goes wrong: the job that ends
\* without a fault ends well at its first attempt, and once the session is
\* back at its commands the destination is what the client hashed, unless it
\* may not replace a file (do_put_file, clientjob.cpp 1549-1640;
\* command_put_file, mainclass.cpp 751-975).
THEOREM PutDelivers == Spec => []Delivers
<1>1. Init => Straight
  <2> SUFFICES ASSUME Init PROVE Single /\ Before
    BY DEF Straight, Stage
  <2>1. 1 \in Attempts /\ src \in Content
    BY ConstantTypes DEF Attempts, Init
  <2> QED
    BY <2>1 DEF Init, Single, Before
<1>2. IType /\ Straight /\ [Next]_vars => Straight'
  BY StraightStep
<1>3. Straight => Delivers
  <2> SUFFICES ASSUME Single, Stage, cpc = "done", spc[1] \in {"idle", "ended"}
               PROVE  result /\ try = 1 /\ (overwrite => dest = file_hash)
    BY DEF Straight, Delivers
  <2>1. Ending
    BY DEF Stage, Before, Asking, Offering, Sending, Awaiting
  <2> QED
    BY <2>1 DEF Ending, Through, Single
<1> QED
  BY <1>1, <1>2, <1>3, ITypeInit, ITypeStep, PTL DEF Spec
=============================================================================
