----------------------------- MODULE BlocksProofs -----------------------------
(***************************************************************************)
(* Lemmas about files, blocks and the pieces a transfer writes.            *)
(***************************************************************************)
EXTENDS Blocks, SequenceTheorems, TLAPS

\* Writing inside a file or at its end yields a file that is no shorter.
LEMMA WriteAtType ==
  ASSUME NEW file \in Content, NEW data \in Content, NEW p \in Nat, p <= Len(file)
  PROVE  /\ WriteAt(file, p, data) \in Content
         /\ Len(WriteAt(file, p, data)) >= p + Len(data)
         /\ Len(WriteAt(file, p, data)) >= Len(file)
<1> DEFINE n == IF p + Len(data) > Len(file) THEN p + Len(data) ELSE Len(file)
           w == WriteAt(file, p, data)
<1>1. /\ Len(file) \in Nat /\ Len(data) \in Nat
      /\ \A i \in 1..Len(file) : file[i] \in Cell
      /\ \A i \in 1..Len(data) : data[i] \in Cell
  BY LenProperties, ElementOfSeq DEF Content
<1>2. n \in Nat /\ n >= Len(file) /\ n >= p + Len(data)
  BY <1>1
<1>3. ASSUME NEW i \in 1..n
      PROVE  (IF i > p /\ i <= p + Len(data) THEN data[i - p] ELSE file[i]) \in Cell
  <2>1. CASE i > p /\ i <= p + Len(data)
    <3>1. i - p \in 1..Len(data)
      BY <2>1, <1>1, <1>2
    <3> QED
      BY <2>1, <3>1, <1>1
  <2>2. CASE ~(i > p /\ i <= p + Len(data))
    <3>1. i \in 1..Len(file)
      BY <2>2, <1>1, <1>2
    <3> QED
      BY <2>2, <3>1, <1>1
  <2> QED
    BY <2>1, <2>2
<1>4. w \in [1..n -> Cell]
  BY <1>3 DEF WriteAt
<1>5. w \in Seq(Cell)
  BY <1>2, <1>4, SeqDef
<1>6. Len(w) = n
  BY <1>2, <1>4, <1>5, LenProperties
<1> QED
  BY <1>2, <1>5, <1>6 DEF Content

LEMMA SubSeqType ==
  ASSUME NEW s \in Content, NEW m \in Nat \ {0}, NEW n \in Int, n <= Len(s)
  PROVE  /\ SubSeq(s, m, n) \in Content
         /\ Len(SubSeq(s, m, n)) = IF m <= n THEN n - m + 1 ELSE 0
<1>1. \A i \in m..n : s[i] \in Cell
  BY LenProperties, ElementOfSeq DEF Content
<1> QED
  BY <1>1, SubSeqProperties DEF Content

LEMMA BlockBounds ==
  /\ \A n \in Nat : /\ n * BlockSize \in Nat /\ n \div BlockSize \in Nat
                   /\ (n \div BlockSize) * BlockSize \in Nat
                   /\ (n \div BlockSize) * BlockSize <= n
BY BlocksAssumption

LEMMA StartBlockBounds ==
  ASSUME NEW file, Len(file) \in Nat
  PROVE  /\ StartBlock(file) \in Nat /\ StartBlock(file) * BlockSize \in Nat
         /\ StartBlock(file) * BlockSize <= Len(file)
<1>1. CASE Len(file) > MinSize
  BY <1>1, BlockBounds DEF StartBlock
<1>2. CASE ~(Len(file) > MinSize)
  <2>1. StartBlock(file) = 0 /\ 0 * BlockSize = 0
    BY <1>2, BlocksAssumption DEF StartBlock
  <2> QED
    BY <2>1
<1> QED
  BY <1>1, <1>2

LEMMA PrefixType ==
  ASSUME NEW s \in Content, NEW n \in Nat, n <= Len(s)
  PROVE  SubSeq(s, 1, n) \in Content /\ Len(SubSeq(s, 1, n)) = n
<1>1. Len(SubSeq(s, 1, n)) = IF 1 <= n THEN n - 1 + 1 ELSE 0
  BY SubSeqType
<1>2. Len(SubSeq(s, 1, n)) = n
  BY <1>1
<1> QED
  BY <1>2, SubSeqType

\* Where block n begins in s, and the block itself.
Edge(s, n)  == Lesser(n * BlockSize, Len(s))
Piece(s, n) == SubSeq(s, n * BlockSize + 1, Edge(s, n + 1))

LEMMA BlockOrder ==
  /\ \A m, n \in Nat : m <= n => m * BlockSize <= n * BlockSize
  /\ \A n \in Nat : (n + 1) * BlockSize = n * BlockSize + BlockSize
  /\ \A n \in Nat : n < (n \div BlockSize) * BlockSize + BlockSize
  /\ 0 * BlockSize = 0
<1> DEFINE B == BlockSize
<1>1. B \in Nat /\ B > 0
  BY BlocksAssumption
<1> HIDE DEF B
<1>2. ASSUME NEW m \in Nat, NEW n \in Nat, m <= n
      PROVE  m * B <= n * B
  <2>1. n - m \in Nat /\ (n - m) * B \in Nat
    BY <1>1, <1>2
  <2>2. n * B = m * B + (n - m) * B
    BY <1>1
  <2>3. m * B \in Nat /\ n * B \in Nat
    BY <1>1
  <2> QED
    BY <2>1, <2>2, <2>3
<1>3. \A n \in Nat : (n + 1) * B = n * B + B
  BY <1>1
<1>4. \A n \in Nat : n < (n \div B) * B + B
  BY <1>1
<1>5. 0 * B = 0
  BY <1>1
<1> QED
  BY <1>2, <1>3, <1>4, <1>5 DEF B

\* A block of a file that has one: its cells, and the file written up to it.
LEMMA PieceWritten ==
  ASSUME NEW s \in Content, NEW p \in Nat, p * BlockSize < Len(s)
  PROVE  /\ Edge(s, p + 1) \in Nat /\ p * BlockSize < Edge(s, p + 1) /\ Edge(s, p + 1) <= Len(s)
         /\ Piece(s, p) \in Content
         /\ Len(Piece(s, p)) = Edge(s, p + 1) - p * BlockSize
         /\ Lesser(BlockSize, Len(s) - p * BlockSize) = Edge(s, p + 1) - p * BlockSize
         /\ WriteAt(SubSeq(s, 1, p * BlockSize), p * BlockSize, Piece(s, p))
              = SubSeq(s, 1, Edge(s, p + 1))
<1> DEFINE a == p * BlockSize
           e == Edge(s, p + 1)
           f == SubSeq(s, 1, a)
           d == Piece(s, p)
           g == SubSeq(s, 1, e)
<1>1. a \in Nat /\ Len(s) \in Nat /\ BlockSize \in Nat \ {0} /\ (p + 1) * BlockSize = a + BlockSize
  BY BlocksAssumption, BlockBounds, BlockOrder, LenProperties DEF Content
<1>2. e = Lesser(a + BlockSize, Len(s))
  BY <1>1 DEF Edge
<1>3. a < Len(s)
  OBVIOUS
<1> HIDE DEF a, e
<1>4. e \in Nat /\ a < e /\ e <= Len(s) /\ Lesser(BlockSize, Len(s) - a) = e - a
  BY <1>1, <1>2, <1>3 DEF Lesser
<1>5. d = SubSeq(s, a + 1, e)
  BY DEF Piece, a, e
<1> HIDE DEF d
<1>6. a + 1 \in Nat \ {0} /\ a + 1 <= e
  BY <1>1, <1>4
<1>7. d \in Content /\ Len(d) = e - (a + 1) + 1
  BY <1>4, <1>5, <1>6, SubSeqType
<1>8. Len(d) = e - a
  BY <1>1, <1>4, <1>7
<1>9. f \in Content /\ Len(f) = a /\ g \in Content /\ Len(g) = e
  BY <1>1, <1>3, <1>4, PrefixType
<1>10. /\ \A i \in 1..a : f[i] = s[i]
       /\ \A i \in 1..e : g[i] = s[i]
  <2>1. s \in Seq(Cell) /\ 1..a \subseteq 1..Len(s) /\ 1..e \subseteq 1..Len(s)
    BY <1>1, <1>3, <1>4 DEF Content
  <2>2. \A i \in 1..a : s[i] \in Cell
    BY <2>1, ElementOfSeq, LenProperties
  <2>3. \A i \in 1..e : s[i] \in Cell
    BY <2>1, ElementOfSeq, LenProperties
  <2>4. \A i \in 1..a : f[i] = s[1 + i - 1]
    BY <1>1, <1>9, <2>1, <2>2, SubSeqProperties
  <2>5. \A i \in 1..e : g[i] = s[1 + i - 1]
    BY <1>4, <1>9, <2>1, <2>3, SubSeqProperties
  <2> QED
    BY <1>1, <1>4, <2>4, <2>5
<1>11. \A i \in 1..(e - a) : d[i] = s[a + i]
  <2>1. \A i \in (a + 1)..e : s[i] \in Cell
    BY <1>1, <1>4, ElementOfSeq, LenProperties DEF Content
  <2>2. \A i \in 1..Len(d) : d[i] = s[a + 1 + i - 1]
    BY <1>1, <1>4, <1>5, <1>6, <1>7, <2>1, SubSeqProperties DEF Content
  <2>3. \A i \in 1..(e - a) : a + 1 + i - 1 = a + i
    BY <1>1
  <2> QED
    BY <1>8, <2>2, <2>3
<1> HIDE DEF f, g
<1>12. WriteAt(f, a, d) = [i \in 1..e |-> IF i > a /\ i <= e THEN d[i - a] ELSE f[i]]
  <2>1. (IF a + Len(d) > Len(f) THEN a + Len(d) ELSE Len(f)) = e /\ a + Len(d) = e
    BY <1>1, <1>4, <1>8, <1>9
  <2> QED
    BY <2>1 DEF WriteAt
<1>13. \A i \in 1..e : (IF i > a /\ i <= e THEN d[i - a] ELSE f[i]) = g[i]
  <2> SUFFICES ASSUME NEW i \in 1..e PROVE (IF i > a /\ i <= e THEN d[i - a] ELSE f[i]) = g[i]
    OBVIOUS
  <2>1. CASE i > a
    <3>1. i - a \in 1..(e - a) /\ a + (i - a) = i /\ i <= e
      BY <1>1, <1>4, <2>1
    <3> QED
      BY <1>10, <1>11, <2>1, <3>1
  <2>2. CASE ~(i > a)
    <3>1. i \in 1..a
      BY <1>1, <1>4, <2>2
    <3> QED
      BY <1>10, <2>2, <3>1
  <2> QED
    BY <2>1, <2>2
<1>14. g = [i \in 1..e |-> g[i]]
  BY <1>9, LenProperties DEF Content
<1>15. WriteAt(f, a, d) = g
  BY <1>12, <1>13, <1>14
<1> QED
  BY <1>1, <1>4, <1>7, <1>8, <1>15 DEF a, e, f, d, g

\* The whole file is its first Len(s) cells, and none of them are its first 0.
LEMMA WholeFile ==
  ASSUME NEW s \in Content
  PROVE  SubSeq(s, 1, Len(s)) = s /\ SubSeq(s, 1, 0) = <<>>
<1>1. Len(s) \in Nat
  BY LenProperties DEF Content
<1>2. SubSeq(s, 1, Len(s)) \in Content /\ Len(SubSeq(s, 1, Len(s))) = Len(s)
  BY <1>1, PrefixType
<1>3. SubSeq(s, 1, 0) \in Content /\ Len(SubSeq(s, 1, 0)) = 0
  BY <1>1, PrefixType
<1>4. \A i \in 1..Len(s) : s[i] \in Cell
  BY ElementOfSeq, LenProperties DEF Content
<1>5. \A i \in 1..Len(s) : SubSeq(s, 1, Len(s))[i] = s[1 + i - 1]
  BY <1>1, <1>2, <1>4, SubSeqProperties DEF Content
<1>6. \A i \in 1..Len(s) : 1 + i - 1 = i
  BY <1>1
<1>7. SubSeq(s, 1, Len(s)) = s
  BY <1>2, <1>5, <1>6, SeqEqual DEF Content
<1> QED
  BY <1>3, <1>7, EmptySeq DEF Content

\* A block written once more in its place, or no cell at all, changes nothing.
LEMMA PieceRewritten ==
  ASSUME NEW s \in Content
  PROVE  /\ \A p \in Nat : p * BlockSize < Len(s) => WriteAt(s, p * BlockSize, Piece(s, p)) = s
         /\ \A q \in 0..Len(s) : WriteAt(s, q, <<>>) = s
<1>1. Len(s) \in Nat /\ s = [i \in 1..Len(s) |-> s[i]]
  BY LenProperties DEF Content
<1>2. ASSUME NEW p \in Nat, p * BlockSize < Len(s)
      PROVE  WriteAt(s, p * BlockSize, Piece(s, p)) = s
  <2> DEFINE a == p * BlockSize
             e == Edge(s, p + 1)
             d == Piece(s, p)
  <2>1. e \in Nat /\ a < e /\ e <= Len(s) /\ Len(d) = e - a /\ a \in Nat
    BY <1>2, PieceWritten, BlockBounds
  <2>2. d = SubSeq(s, a + 1, e) /\ d \in Content
    BY <1>2, PieceWritten DEF Piece
  <2> HIDE DEF a, e, d
  <2>3. a + 1 \in Nat \ {0} /\ a + 1 <= e /\ a + Len(d) = e
    BY <2>1
  <2>4. \A i \in (a + 1)..e : s[i] \in Cell
    BY <1>1, <2>1, ElementOfSeq DEF Content
  <2>5. \A i \in 1..Len(d) : d[i] = s[a + 1 + i - 1]
    <3>1. \A i \in 1..(e - (a + 1) + 1) : SubSeq(s, a + 1, e)[i] = s[a + 1 + i - 1]
      <4> DEFINE k == a + 1
      <4>1. k \in Int /\ e \in Int /\ \A i \in k..e : s[i] \in Cell
        BY <2>1, <2>4
      <4> HIDE DEF k
      <4>2. \A i \in 1..(e - k + 1) : SubSeq(s, k, e)[i] = s[k + i - 1]
        BY <4>1, SubSeqProperties
      <4> QED
        BY <4>2 DEF k
    <3>2. e - (a + 1) + 1 = Len(d)
      BY <1>1, <2>1, <2>3
    <3> QED
      BY <2>2, <3>1, <3>2
  <2>6. ASSUME NEW i \in 1..Len(s)
        PROVE  (IF i > a /\ i <= e THEN d[i - a] ELSE s[i]) = s[i]
    <3>1. CASE i > a /\ i <= e
      <4>1. i - a \in 1..Len(d) /\ a + 1 + (i - a) - 1 = i
        BY <1>1, <2>1, <3>1
      <4> QED
        BY <2>5, <3>1, <4>1
    <3> QED
      BY <3>1
  <2>7. WriteAt(s, a, d) = [i \in 1..Len(s) |-> IF i > a /\ i <= e THEN d[i - a] ELSE s[i]]
    <3>1. (IF a + Len(d) > Len(s) THEN a + Len(d) ELSE Len(s)) = Len(s)
      BY <1>1, <2>1, <2>3
    <3> QED
      BY <2>3, <3>1 DEF WriteAt
  <2>8. WriteAt(s, a, d) = s
    BY <1>1, <2>6, <2>7
  <2> QED
    BY <2>8 DEF a, d
<1>3. ASSUME NEW q \in 0..Len(s)
      PROVE  WriteAt(s, q, <<>>) = s
  <2>1. Len(<<>>) = 0 /\ q \in Nat /\ q + 0 = q /\ q <= Len(s)
    BY <1>1
  <2>2. (IF q + Len(<<>>) > Len(s) THEN q + Len(<<>>) ELSE Len(s)) = Len(s)
    BY <1>1, <2>1
  <2>3. \A i \in 1..Len(s) : ~(i > q /\ i <= q + Len(<<>>))
    BY <1>1, <2>1
  <2> QED
    BY <1>1, <2>2, <2>3 DEF WriteAt
<1> QED
  BY <1>2, <1>3

\* What a sender reads of s for block b: the block, or what follows the whole
\* ones, or nothing.
LEMMA BlockRead ==
  ASSUME NEW s \in Content, NEW b \in Nat, NEW n,
         n = IF b < Len(s) \div BlockSize THEN BlockSize ELSE Len(s) - (Len(s) \div BlockSize) * BlockSize
  PROVE  /\ n \in Nat
         /\ n > 0 /\ b * BlockSize + n <= Len(s) =>
              /\ b * BlockSize < Len(s)
              /\ SubSeq(s, b * BlockSize + 1, b * BlockSize + n) = Piece(s, b)
              /\ b < Len(s) \div BlockSize \/ (b + 1) * BlockSize >= Len(s)
         /\ b <= Len(s) \div BlockSize =>
              /\ b * BlockSize <= Len(s)
              /\ b * BlockSize < Len(s) => n > 0 /\ b * BlockSize + n <= Len(s)
              /\ b * BlockSize = Len(s) => n = 0
<1> DEFINE a == b * BlockSize
           w == Len(s) \div BlockSize
           c == w * BlockSize
           l == Len(s)
           B == BlockSize
           e == Edge(s, b + 1)
<1>1. l \in Nat /\ B \in Nat /\ B > 0 /\ w \in Nat /\ a \in Nat /\ c \in Nat
  BY BlocksAssumption, BlockBounds, LenProperties DEF Content
<1>2. c <= l /\ l < c + B /\ (b + 1) * B = a + B
  BY <1>1, BlockBounds, BlockOrder
<1>3. /\ b < w => a + B <= c
      /\ b <= w => a <= c
      /\ b > w => c + B <= a
  <2>1. b < w => (b + 1) * B <= c
    BY <1>1, BlockOrder
  <2>2. b > w => (w + 1) * B <= a
    BY <1>1, BlockOrder
  <2>3. (w + 1) * B = c + B
    BY <1>1, BlockOrder
  <2>4. b <= w => a <= c
    BY <1>1, BlockOrder
  <2> QED
    BY <1>2, <2>1, <2>2, <2>3, <2>4
<1>4. e = (IF a + B < l THEN a + B ELSE l)
  BY <1>2 DEF Edge, Lesser
<1>5. n = IF b < w THEN B ELSE l - c
  OBVIOUS
<1>6. Piece(s, b) = SubSeq(s, a + 1, e)
  BY DEF Piece
<1>7. b = w => a = c
  OBVIOUS
<1> HIDE DEF a, w, c, l, B, e
<1>8. n \in Nat
  BY <1>1, <1>2, <1>5
<1>9. ASSUME n > 0, a + n <= l
      PROVE  a < l /\ a + n = e /\ (b < w \/ a + B >= l)
  <2>1. CASE b < w
    BY <1>1, <1>2, <1>3, <1>4, <1>5, <1>9, <2>1
  <2>2. CASE ~(b < w)
    <3>1. n = l - c
      BY <1>5, <2>2
    <3>2. ~(b > w)
      BY <1>1, <1>2, <1>3, <1>9, <3>1
    <3>3. b = w
      BY <1>1, <2>2, <3>2
    <3> QED
      BY <1>1, <1>2, <1>4, <1>7, <1>9, <3>1, <3>3
  <2> QED
    BY <2>1, <2>2
<1>10. ASSUME b <= w
       PROVE  a <= l /\ (a < l => n > 0 /\ a + n <= l) /\ (a = l => n = 0)
  <2>1. CASE b < w
    BY <1>1, <1>2, <1>3, <1>5, <2>1
  <2>2. CASE b = w
    <3>1. n = l - c /\ a = c
      BY <1>1, <1>5, <1>7, <2>2
    <3> QED
      BY <1>1, <1>2, <3>1
  <2> QED
    BY <1>1, <1>10, <2>1, <2>2
<1> QED
  BY <1>2, <1>6, <1>8, <1>9, <1>10 DEF a, w, l, B

\* What a receiver takes of the data frame with block p: all of it.
LEMMA PieceTaken ==
  ASSUME NEW s \in Content, NEW p \in Nat, p * BlockSize < Len(s)
  PROVE  LET n == Lesser(BlockSize, Len(s) - p * BlockSize)
         IN  /\ n \in Nat /\ n > 0 /\ n = Len(Piece(s, p))
             /\ SubSeq(Piece(s, p), 1, n) = Piece(s, p) /\ Piece(s, p) \in Content
             /\ p * BlockSize + n = Edge(s, p + 1)
             /\ p * BlockSize + n < Len(s) => p * BlockSize + n = (p + 1) * BlockSize
<1> DEFINE a == p * BlockSize
           e == Edge(s, p + 1)
           n == Lesser(BlockSize, Len(s) - a)
<1>1. /\ e \in Nat /\ a < e /\ e <= Len(s) /\ Piece(s, p) \in Content
      /\ Len(Piece(s, p)) = e - a /\ n = e - a
  BY PieceWritten
<1>2. a \in Nat /\ Len(s) \in Nat
  BY BlockBounds, LenProperties DEF Content
<1>3. e = IF (p + 1) * BlockSize < Len(s) THEN (p + 1) * BlockSize ELSE Len(s)
  BY DEF Edge, Lesser
<1>4. SubSeq(Piece(s, p), 1, Len(Piece(s, p))) = Piece(s, p)
  BY <1>1, WholeFile
<1> HIDE DEF a, e, n
<1>5. n \in Nat /\ n > 0 /\ a + n = e
  BY <1>1, <1>2
<1>6. e < Len(s) => e = (p + 1) * BlockSize
  BY <1>1, <1>2, <1>3
<1> QED
  BY <1>1, <1>4, <1>5, <1>6 DEF a, e, n

-----------------------------------------------------------------------------
(* Channels are sequences of frames.                                       *)

\* What is left of a channel, and what a channel has got.
LEMMA TailFrames ==
  ASSUME NEW S, NEW s \in Seq(S), s # <<>>
  PROVE  /\ 1 \in DOMAIN s /\ s[1] = Head(s)
         /\ Len(Tail(s)) = Len(s) - 1
         /\ \A i \in DOMAIN Tail(s) : i + 1 \in DOMAIN s /\ i + 1 # 1 /\ Tail(s)[i] = s[i + 1]
<1>1. Len(s) \in Nat /\ Len(s) # 0
  BY EmptySeq, LenProperties
<1> QED
  BY <1>1, HeadTailProperties, LenProperties

LEMMA AppendFrames ==
  ASSUME NEW S, NEW s \in Seq(S), NEW m \in S
  PROVE  \A i \in DOMAIN Append(s, m) :
           \/ i \in DOMAIN s /\ Append(s, m)[i] = s[i]
           \/ i = Len(s) + 1 /\ Append(s, m)[i] = m
BY AppendProperties, LenProperties

LEMMA OneFrame ==
  ASSUME NEW S, NEW s \in Seq(S), s # <<>>, Len(s) <= 1
  PROVE  Tail(s) = <<>>
<1> DEFINE n == Len(s)
<1>1. n \in Nat /\ n # 0 /\ n <= 1
  BY EmptySeq, LenProperties
<1>2. Tail(s) \in Seq(S) /\ Len(Tail(s)) = n - 1
  BY HeadTailProperties
<1> HIDE DEF n
<1>3. n - 1 = 0
  BY <1>1
<1> QED
  BY <1>2, <1>3, EmptySeq

LEMMA TwoFrames ==
  ASSUME NEW a, NEW b
  PROVE  /\ Append(<<>>, b) = <<b>> /\ Append(<<a>>, b) = <<a, b>>
         /\ Head(<<a>>) = a /\ Tail(<<a>>) = <<>> /\ <<a>> # <<>>
         /\ Head(<<a, b>>) = a /\ Tail(<<a, b>>) = <<b>> /\ <<a, b>> # <<>>
<1>1. Append(<<>>, b) = <<b>>
  OBVIOUS
<1>2. Append(<<a>>, b) = <<a, b>>
  <2> DEFINE S == {a, b}
             t == Append(<<a>>, b)
  <2>1. <<a>> \in Seq(S) /\ Len(<<a>>) = 1 /\ <<a, b>> \in Seq(S) /\ Len(<<a, b>>) = 2 /\ b \in S
    OBVIOUS
  <2>2. t \in Seq(S) /\ Len(t) = 2 /\ t[1] = a /\ t[2] = b
    BY <2>1, AppendProperties
  <2>3. \A i \in 1..2 : t[i] = <<a, b>>[i]
    BY <2>2
  <2> HIDE DEF t, S
  <2>4. t = <<a, b>>
    BY <2>1, <2>2, <2>3, SeqEqual
  <2> QED
    BY <2>4 DEF t
<1>3. Head(<<a>>) = a /\ Tail(<<a>>) = <<>> /\ <<a>> # <<>>
  OBVIOUS
<1>4. Head(<<a, b>>) = a /\ <<a, b>> # <<>>
  OBVIOUS
<1>5. Tail(<<a, b>>) = <<b>>
  OBVIOUS
<1> QED
  BY <1>1, <1>2, <1>3, <1>4, <1>5
===============================================================================
